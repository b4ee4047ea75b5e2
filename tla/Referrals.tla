----------------------------- MODULE Referrals ------------------------------
(***************************************************************************)
(* A newcomer's first message to the bot and what it pays the user whose   *)
(* invitation link it came by (src/middleware/middlewares.py), beside the  *)
(* other writers of the inviter's wallet.                                  *)
(*                                                                         *)
(* aiogram handles a user's updates concurrently, and the API may insert   *)
(* the user meanwhile (webapp/core/users.py). A link without an inviter,   *)
(* or with one who has no row, names NoUser. That the ledger row may fail  *)
(* on a database without its table is left out.                            *)
(***************************************************************************)
EXTENDS WalletOps

CONSTANTS Newcomers,    \* ids not in `users` yet
          Updates,      \* updates of the bot under way at the same time
          Rewards,      \* values of the setting referral_reward
          Unknown       \* of a newcomer without a row

ASSUME ReferralsAssumption ==
    /\ Newcomers \cap (Users \cup {NoUser}) = {}
    /\ Unknown \notin Users \cup {NoUser}
    /\ Rewards \subseteq Nat

VARIABLES refBy,        \* users.ref_by of a newcomer, or Unknown
          payouts,      \* referral_payouts
          reward,       \* webapp_admin_settings.referral_reward
          updates       \* updates[m]: the update m

refVars == <<refBy, payouts, reward, updates>>
allVars == <<opsVars, refVars>>

Payout == [user: Newcomers, inviter: Users, amount: Nat]

Update == [pc: {"idle", "insert", "reward", "pay"}, user: Newcomers \cup {Unknown},
           inviter: Users \cup {NoUser}, amount: Nat]

NoUpdate == [pc |-> "idle", user |-> Unknown, inviter |-> NoUser, amount |-> 0]

ReferralsTypeOK ==
    /\ OpsTypeOK
    /\ refBy \in [Newcomers -> Users \cup {NoUser, Unknown}]
    /\ payouts \subseteq Payout
    /\ reward \in Rewards
    /\ updates \in [Updates -> Update]

ReferralsInit ==
    /\ OpsInit
    /\ refBy = [n \in Newcomers |-> Unknown]
    /\ payouts = {}
    /\ reward \in Rewards
    /\ updates = [m \in Updates |-> NoUpdate]

Go(m, update) == updates' = [updates EXCEPT ![m] = update]

-----------------------------------------------------------------------------
\* resolve_user_state finds no row ...
FirstMessage(m, n, inviter) ==
    /\ updates[m].pc = "idle"
    /\ refBy[n] = Unknown
    /\ Go(m, [pc |-> "insert", user |-> n, inviter |-> inviter, amount |-> 0])
    /\ UNCHANGED <<opsVars, refBy, payouts, reward>>

\* Mutant: whoever saw no row pays.
Seen(n) == TRUE

\* Did INSERT OR IGNORE insert?
Inserted(n) == refBy[n] = Unknown

\* ... and inserts one, unless another update or the API has. Only the update
\* that has inserted goes on to the reward.
InsertUser(m) ==
    LET n == updates[m].user  inviter == updates[m].inviter IN
    /\ updates[m].pc = "insert"
    /\ refBy' = [refBy EXCEPT ![n] = IF @ = Unknown THEN inviter ELSE @]
    /\ Go(m, IF Inserted(n) /\ inviter # NoUser
             THEN [updates[m] EXCEPT !.pc = "reward"] ELSE NoUpdate)
    /\ UNCHANGED <<opsVars, payouts, reward>>

\* ensure_user of the API knows of no inviter.
ApiInsertsUser(n) ==
    /\ refBy[n] = Unknown
    /\ refBy' = [refBy EXCEPT ![n] = NoUser]
    /\ UNCHANGED <<opsVars, payouts, reward, updates>>

\* pay_referral_reward reads the reward, and 0 is none.
ReadReward(m) ==
    /\ updates[m].pc = "reward"
    /\ Go(m, IF reward = 0 THEN NoUpdate
             ELSE [updates[m] EXCEPT !.pc = "pay", !.amount = reward])
    /\ UNCHANGED <<opsVars, refBy, payouts, reward>>

PaidFor(n) == \E p \in payouts : p.user = n

\* Mutant: the balance of the ledger row is the one read before the UPDATE.
RewardOnOld(w, amount) ==
    [ApplyBalanceChange(w, "referral_reward", amount, NoReference)
        EXCEPT !.rows[Len(w.rows) + 1].after = w.balance]

Rewarded(w, amount) == ApplyBalanceChange(w, "referral_reward", amount, NoReference)

\* The payout, the inviter's balance and its ledger row are one transaction.
PayReward(m) ==
    LET n == updates[m].user  inviter == updates[m].inviter  amount == updates[m].amount IN
    /\ updates[m].pc = "pay"
    /\ Room(inviter)
    /\ IF PaidFor(n) THEN UNCHANGED <<wallet, payouts>>
       ELSE /\ payouts' = payouts \cup {[user |-> n, inviter |-> inviter, amount |-> amount]}
            /\ Change(inviter, Rewarded(wallet[inviter], amount))
    /\ Go(m, NoUpdate)
    /\ UNCHANGED <<price, now, work, keys, audit, refBy, reward>>

\* The bot dies; the update is handled again as one of a known user.
DropUpdate(m) ==
    /\ updates[m].pc # "idle"
    /\ Go(m, NoUpdate)
    /\ UNCHANGED <<opsVars, refBy, payouts, reward>>

SetReward(amount) ==
    /\ reward' = amount
    /\ UNCHANGED <<opsVars, refBy, payouts, updates>>

ReferralsNext ==
    \/ OpsNext /\ UNCHANGED refVars
    \/ \E m \in Updates :
          \/ \E n \in Newcomers, inviter \in Users \cup {NoUser} : FirstMessage(m, n, inviter)
          \/ InsertUser(m) \/ ReadReward(m) \/ PayReward(m) \/ DropUpdate(m)
    \/ \E n \in Newcomers : ApiInsertsUser(n)
    \/ \E amount \in Rewards : SetReward(amount)

ReferralsSpec == ReferralsInit /\ [][ReferralsNext]_allVars

-----------------------------------------------------------------------------
RewardRows(u) == {i \in DOMAIN wallet[u].rows : KindAt(u, i) = "referral_reward"}

\* However many updates of a newcomer are handled at once, whatever the API
\* inserts and wherever the bot dies: a newcomer pays one inviter at most, the
\* one their row names, and the inviter's ledger has as many rewards as there
\* are newcomers paid for, of the amounts paid.
ReferralsPayOnce ==
    /\ \A p \in payouts : refBy[p.user] = p.inviter
    /\ \A p, q \in payouts : p.user = q.user => p = q
    /\ \A u \in Users :
          /\ Cardinality(RewardRows(u)) = Cardinality({p \in payouts : p.inviter = u})
          /\ \A i \in RewardRows(u) : \E p \in payouts :
                p.inviter = u /\ p.amount = wallet[u].rows[i].amount
=============================================================================
