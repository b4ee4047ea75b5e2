----------------------------- MODULE MCPayments -----------------------------
(***************************************************************************)
(* Small instances of CardPayments for TLC, one for each value of scene:   *)
(*   "callbacks"  Click and Paynet only: two users, two handlers;          *)
(*   "cards"      card requests beside one callback at a time: one payer,  *)
(*                no Paynet and no bonus.                                  *)
(***************************************************************************)
EXTENDS CardPayments, TLC

VARIABLE scene

MCReferences == TopupReferences \cup BonusReferences

\* An amount whose bonus is not a round number, and one whose bonus is 0.
MCAmounts == {1015}
MCPercents == {0, 10}

MCInit ==
    /\ CardInit
    /\ scene \in {"callbacks", "cards"}
    /\ scene = "cards" => percent = 0

\* What the scene with the cards leaves out, on the next state.
OneCallback == \A h, g \in Handlers : req[h].pc # "idle" /\ req[g].pc # "idle" => h = g
OnePayer == \A a, b \in Orders : NoUser \in {orders[a].user, orders[b].user}
                                    \/ orders[a].user = orders[b].user
CardsOnly ==
    /\ OneCallback /\ OnePayer
    /\ percent = 0
    /\ \A u, v \in Users : banned[u] /\ banned[v] => u = v
    /\ \A id \in Orders : orders[id].provider # "paynet"

MCNext ==
    /\ UNCHANGED scene
    /\ \/ scene = "callbacks" /\ Next /\ UNCHANGED cardVars
       \/ scene = "cards" /\ CardNext /\ CardsOnly'

MCSpec == MCInit /\ [][MCNext]_<<allVars, scene>>

MCSymmetry == Permutations(Orders) \cup Permutations(ClickTxns)
                  \cup Permutations(Handlers) \cup Permutations(Users)
                  \cup Permutations(Clients) \cup Permutations(CardTokens)
=============================================================================
