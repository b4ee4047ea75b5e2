------------------------------- MODULE TopUps -------------------------------
(***************************************************************************)
(* What top-ups promise, whatever the provider, the protocol and the       *)
(* failures: a payment is opened for one owner, and it ends either paid,   *)
(* with its worth (the amount and the bonus in force) added to the money   *)
(* of that owner in the same step, or void, with nothing added, ever.      *)
(***************************************************************************)
EXTENDS Integers

CONSTANTS Payers, Payments, NoPayer,
          Worths          \* Worths[amount]: what an amount may be worth

VARIABLES status,         \* status[p]: the life of payment p
          owner, price,   \* whose payment it is, and its amount
          money           \* money[u]: what payments have added for payer u

abstractVars == <<status, owner, price, money>>

Statuses == {"unknown", "open", "paid", "void"}

AbstractInit ==
    /\ status = [p \in Payments |-> "unknown"]
    /\ owner = [p \in Payments |-> NoPayer]
    /\ price = [p \in Payments |-> 0]
    /\ money = [u \in Payers |-> 0]

Become(p, state) == status' = [status EXCEPT ![p] = state]

Ask(p, u, amount) ==
    /\ owner' = [owner EXCEPT ![p] = u]
    /\ price' = [price EXCEPT ![p] = amount]

Earn(u, amount) ==
    \E worth \in Worths[amount] : money' = [money EXCEPT ![u] = @ + worth]

\* A payer asks for a payment.
OpenPayment(p, u, amount) ==
    /\ status[p] = "unknown"
    /\ Become(p, "open")
    /\ Ask(p, u, amount)
    /\ UNCHANGED money

\* An open payment is paid ...
PayOpen(p) ==
    /\ status[p] = "open"
    /\ Become(p, "paid")
    /\ Earn(owner[p], price[p])
    /\ UNCHANGED <<owner, price>>

\* ... or voided.
VoidOpen(p) ==
    /\ status[p] = "open"
    /\ Become(p, "void")
    /\ UNCHANGED <<owner, price, money>>

\* A payment made at the provider's own counter arrives paid.
PayAtOnce(p, u, amount) ==
    /\ status[p] = "unknown"
    /\ Become(p, "paid")
    /\ Ask(p, u, amount)
    /\ Earn(u, amount)

AbstractNext ==
    \E p \in Payments :
       \/ PayOpen(p) \/ VoidOpen(p)
       \/ \E u \in Payers, amount \in DOMAIN Worths :
             OpenPayment(p, u, amount) \/ PayAtOnce(p, u, amount)

AbstractSpec == AbstractInit /\ [][AbstractNext]_abstractVars
=============================================================================
