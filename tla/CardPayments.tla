---------------------------- MODULE CardPayments ----------------------------
(***************************************************************************)
(* Paying an open Click order by card (start_card_payment and              *)
(* confirm_card_payment of webapp/payments/service.py), beside the Shop    *)
(* API callbacks of Payments, which settle and cancel the same orders.     *)
(*                                                                         *)
(* Click's Merchant API (webapp/payments/merchant.py) is external: a call  *)
(* to it may be refused, may be lost, and a charge may go through although *)
(* its outcome never comes back. It issues every card token once. The      *)
(* charge itself reaches the order only through the Shop API.              *)
(*                                                                         *)
(* The rate limits (hit_limit) only refuse requests and are left out: the  *)
(* model has every behaviour the limited program has.                      *)
(***************************************************************************)
EXTENDS Payments

CONSTANT Clients        \* concurrently served card requests

VARIABLES card,         \* card[c]: the card request c is serving
          issued,       \* issued[k]: the order Click issued token k for
          charges       \* charges[k]: charges submitted with token k

cardVars == <<card, issued, charges>>
allVars == <<vars, cardVars>>

CardRequest == [pc: {"idle", "requesting", "verifying", "paying"},
                order: Orders \cup {NoOrder}, token: CardTokens \cup {NoToken}]

CardIdle == [pc |-> "idle", order |-> NoOrder, token |-> NoToken]

CardTypeOK ==
    /\ TypeOK
    /\ card \in [Clients -> CardRequest]
    /\ issued \in [CardTokens -> Orders \cup {NoOrder}]
    /\ charges \in [CardTokens -> Nat]

CardInit ==
    /\ Init
    /\ card = [c \in Clients |-> CardIdle]
    /\ issued = [k \in CardTokens |-> NoOrder]
    /\ charges = [k \in CardTokens |-> 0]

ServeCard(c, pc, id, token) ==
    card' = [card EXCEPT ![c] = [pc |-> pc, order |-> id, token |-> token]]

EndCard(c) == card' = [card EXCEPT ![c] = CardIdle]

\* _load_payable_order: the caller's own order, neither paid nor cancelled.
Payable(id) == orders[id].provider = "click" /\ orders[id].state \in Open

-----------------------------------------------------------------------------
\* start_card_payment up to the call of card_token/request.
StartCard(c, id) ==
    /\ card[c].pc = "idle"
    /\ Payable(id)
    /\ ServeCard(c, "requesting", id, NoToken)
    /\ UNCHANGED <<vars, issued, charges>>

\* Mutant: the token is saved whatever became of the order.
SaveTokenAnyway(c, k) ==
    LET id == card[c].order IN
    /\ card[c].pc = "requesting"
    /\ issued[k] = NoOrder
    /\ issued' = [issued EXCEPT ![k] = id]
    /\ orders' = [orders EXCEPT ![id].token = k]
    /\ EndCard(c)
    /\ UNCHANGED <<wallet, banned, percent, req, charges>>

\* Click answers with a new token: the UPDATE keeps it on an order that is
\* still open, else it is dropped and the caller told ORDER_STATE_CHANGED.
SaveToken(c, k) ==
    LET id == card[c].order IN
    /\ card[c].pc = "requesting"
    /\ issued[k] = NoOrder
    /\ issued' = [issued EXCEPT ![k] = id]
    /\ orders' = IF orders[id].state \in Open
                 THEN [orders EXCEPT ![id].token = k]
                 ELSE orders
    /\ EndCard(c)
    /\ UNCHANGED <<wallet, banned, percent, req, charges>>

\* confirm_card_payment up to the call of card_token/verify: the token is read
\* here and used after the call.
ConfirmCard(c, id) ==
    /\ card[c].pc = "idle"
    /\ Payable(id)
    /\ orders[id].token # NoToken
    /\ ServeCard(c, "verifying", id, orders[id].token)
    /\ UNCHANGED <<vars, issued, charges>>

\* Mutant: the claim does not compare the token.
ClaimableOpen(id, k) == orders[id].state \in Open

Claimable(id, k) == orders[id].token = k /\ orders[id].state \in Open

\* Verified: the conditional UPDATE takes the token off the order ...
ClaimToken(c) ==
    LET id == card[c].order  k == card[c].token IN
    /\ card[c].pc = "verifying"
    /\ Claimable(id, k)
    /\ orders' = [orders EXCEPT ![id].token = NoToken]
    /\ ServeCard(c, "paying", id, k)
    /\ UNCHANGED <<wallet, banned, percent, req, issued, charges>>

\* ... or finds it gone, and this request submits nothing.
ClaimMiss(c) ==
    /\ card[c].pc = "verifying"
    /\ ~Claimable(card[c].order, card[c].token)
    /\ EndCard(c)
    /\ UNCHANGED <<vars, issued, charges>>

\* card_token/payment is submitted. Whatever its outcome (charged, declined,
\* unknown), the request ends without touching the order's state.
SubmitCharge(c) ==
    /\ card[c].pc = "paying"
    /\ charges' = [charges EXCEPT ![card[c].token] = @ + 1]
    /\ EndCard(c)
    /\ UNCHANGED <<vars, issued>>

\* Click refuses or the call times out; the request or the process dies.
EndCardRequest(c) ==
    /\ card[c].pc # "idle"
    /\ EndCard(c)
    /\ UNCHANGED <<vars, issued, charges>>

\* The retention sweep of webapp/core/retention.py drops an old token.
ExpireToken(id) ==
    /\ orders[id].token # NoToken
    /\ orders' = [orders EXCEPT ![id].token = NoToken]
    /\ UNCHANGED <<wallet, banned, percent, req, cardVars>>

CardStep(c) ==
    \/ \E id \in Orders : StartCard(c, id) \/ ConfirmCard(c, id)
    \/ \E k \in CardTokens : SaveToken(c, k)
    \/ ClaimToken(c) \/ ClaimMiss(c) \/ SubmitCharge(c) \/ EndCardRequest(c)

CardNext ==
    \/ Next /\ UNCHANGED cardVars
    \/ \E c \in Clients : CardStep(c)
    \/ \E id \in Orders : ExpireToken(id)

CardSpec == CardInit /\ [][CardNext]_allVars

-----------------------------------------------------------------------------
\* "Claim the token: only ONE concurrent confirm submits the payment": a token
\* is held by one order, or by one request about to charge with it, or has
\* been charged with, and never two of them; so it is charged at most once,
\* and only for the order it was issued for.
HoldersOf(k) ==
    {<<"order", id>> : id \in {x \in Orders : orders[x].token = k}}
      \cup {<<"payer", c>> : c \in {x \in Clients :
                                card[x].pc = "paying" /\ card[x].token = k}}
      \cup {<<"charge", i>> : i \in 1..charges[k]}

TokensAreSpentOnce ==
    \A k \in CardTokens :
        /\ \A x, y \in HoldersOf(k) : x = y
        /\ \A id \in Orders : orders[id].token = k => issued[k] = id
        /\ \A c \in Clients : card[c].token = k => issued[k] = card[c].order

\* No paid or cancelled order keeps a card token, whichever of the callbacks
\* and the card requests comes last.
ClosedOrdersHoldNoToken ==
    \A id \in Orders : orders[id].state \in Final => orders[id].token = NoToken

\* A card token is spent once, and none outlives its order.
TokensAreSafe == TokensAreSpentOnce /\ ClosedOrdersHoldNoToken
=============================================================================
