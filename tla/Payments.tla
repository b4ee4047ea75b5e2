------------------------------ MODULE Payments ------------------------------
(***************************************************************************)
(* Wallet top-ups: the `payment_orders` table, the Click Shop API callback *)
(* (Prepare and Complete, webapp/payments/shop.py over service.py) and     *)
(* Paynet's provider endpoint (webapp/payments/paynet.py).                 *)
(*                                                                         *)
(* Every request of Click or Paynet runs in one of Handlers, on a database *)
(* connection of its own. Click and Paynet are external: they may send any *)
(* request at any time, so every lost, repeated, late or reordered call is *)
(* a behaviour of the model. A handler's write transaction (first write to *)
(* commit, under SQLite's write lock) is one step; every read outside of   *)
(* it is a step before or after, whose result may be stale when it is      *)
(* used. A request that is refused by a read alone changes nothing and is  *)
(* not a step. `payment_events` (the audit trail of the callbacks) is      *)
(* written by every answer and read by nobody here: it is left out.        *)
(***************************************************************************)
EXTENDS Wallet, FiniteSets

CONSTANTS Orders,       \* ids of payment_orders; also stands for `seq`
          ClickTxns,    \* click_trans_id
          PaynetTxns,   \* Paynet's transactionId
          Amounts,      \* amounts in so'm that pass topup_amount_valid
          Percents,     \* values of the setting payment_bonus_percent
          CardTokens,   \* one-time card tokens of Click's Merchant API
          Handlers,     \* concurrently served requests
          NoTxn,        \* provider_txn IS NULL
          NoToken,      \* click_card_token IS NULL
          NoUser,       \* the owner of an order id without a row
          NoOrder       \* the order of a request that names none

Txns == ClickTxns \cup PaynetTxns

\* The references of the ledger rows of a top-up and of its bonus.
TopupReferences == {"click", "paynet"} \X (Txns \cup Orders)
BonusReferences == {"payment-bonus"} \X Orders

ASSUME PaymentsAssumption ==
    /\ Amounts \subseteq Nat \ {0}
    /\ Percents \subseteq 0..50
    /\ NoTxn \notin Txns \cup Orders
    /\ NoToken \notin CardTokens
    /\ NoUser \notin Users
    /\ NoOrder \notin Orders
    /\ TopupReferences \cup BonusReferences \subseteq References

VARIABLES orders,   \* orders[o]: the row of payment_orders
          banned,   \* users.banned
          percent,  \* webapp_admin_settings.payment_bonus_percent
          req       \* req[h]: the request handler h is serving

vars == <<wallet, orders, banned, percent, req>>

-----------------------------------------------------------------------------
States == {"none", "created", "pending", "paid", "cancelled"}
Open == {"created", "pending"}
Final == {"paid", "cancelled"}

\* `prepared`: prepare_id is set. Its value is the order's own seq, so a
\* prepare id is told apart by the order it belongs to.
OrderRecord == [state: States, provider: {"none", "click", "paynet"},
                user: Users \cup {NoUser}, amount: Nat,
                txn: Txns \cup {NoTxn}, prepared: BOOLEAN,
                token: CardTokens \cup {NoToken}, bonus: Nat]

NoRow == [state |-> "none", provider |-> "none", user |-> NoUser, amount |-> 0,
          txn |-> NoTxn, prepared |-> FALSE, token |-> NoToken, bonus |-> 0]

Codes == {"none", "PREPARED", "COMPLETED", "CANCELLED", "ALREADY_PAID",
          "UPDATE_FAILED", "PERFORMED", "EXISTS", "STATE_PAID"}

\* `hit`: the handler's conditional UPDATE changed its row.
Request == [pc: {"idle", "attach", "settle", "cancel", "attached", "settled",
                 "closed", "reply"},
            order: Orders \cup {NoOrder}, txn: Txns \cup {NoTxn},
            hit: BOOLEAN, code: Codes]

Idle == [pc |-> "idle", order |-> NoOrder, txn |-> NoTxn, hit |-> FALSE,
         code |-> "none"]

TypeOK ==
    /\ WalletTypeOK
    /\ orders \in [Orders -> OrderRecord]
    /\ banned \in [Users -> BOOLEAN]
    /\ percent \in Percents
    /\ req \in [Handlers -> Request]

Init ==
    /\ WalletInit
    /\ orders = [o \in Orders |-> NoRow]
    /\ banned = [u \in Users |-> FALSE]
    /\ percent \in Percents
    /\ req = [h \in Handlers |-> Idle]

-----------------------------------------------------------------------------
(***************************************************************************)
(* service.credit_topup, inside the transaction that makes an order paid.  *)
(***************************************************************************)

PaymentBonus(amount, pct) ==
    IF amount > 0 /\ pct > 0 /\ pct <= 50 THEN (amount * pct) \div 100 ELSE 0

\* click:<txn or order id>, paynet:<txn>, payment-bonus:<order id>
TopupRef(id, o) == <<o.provider, IF o.txn = NoTxn THEN id ELSE o.txn>>
BonusRef(id) == <<"payment-bonus", id>>

\* The bonus is dropped, and the top-up kept, when its row exists already.
CreditedBonus(id, amount) ==
    IF RefUsed("topup_bonus", BonusRef(id)) THEN 0 ELSE PaymentBonus(amount, percent)

CreditTopup(w, id, o) ==
    LET topped == ApplyBalanceChange(w, "topup", o.amount, TopupRef(id, o))
        bonus == CreditedBonus(id, o.amount)
    IN IF bonus > 0
       THEN ApplyBalanceChange(topped, "topup_bonus", bonus, BonusRef(id))
       ELSE topped

\* Mutant: bonus_amount is not stored with the order.
PayOrderOnly(id, o) ==
    /\ ~RefUsed("topup", TopupRef(id, o))
    /\ orders' = [orders EXCEPT ![id] = [o EXCEPT !.state = "paid", !.token = NoToken]]
    /\ wallet' = [wallet EXCEPT ![o.user] = CreditTopup(@, id, o)]

\* The order becomes paid and its owner's wallet is credited, or neither: a
\* used reference raises IntegrityError and the transaction is rolled back.
PayOrder(id, o) ==
    /\ ~RefUsed("topup", TopupRef(id, o))
    /\ orders' = [orders EXCEPT ![id] =
                    [o EXCEPT !.state = "paid", !.token = NoToken,
                              !.bonus = CreditedBonus(id, o.amount)]]
    /\ wallet' = [wallet EXCEPT ![o.user] = CreditTopup(@, id, o)]

\* Mutant: no unique index on (provider, provider_txn).
TxnNeverTaken(provider, txn, id) == FALSE

\* The unique index on (provider, provider_txn).
TxnTaken(provider, txn, id) ==
    \E x \in Orders \ {id} : orders[x].provider = provider /\ orders[x].txn = txn

-----------------------------------------------------------------------------
(***************************************************************************)
(* Users and admins.                                                       *)
(***************************************************************************)

\* POST /payments/orders: one INSERT.
CreateOrder(u, amount, id) ==
    /\ orders[id].state = "none"
    /\ orders' = [orders EXCEPT ![id] =
                    [NoRow EXCEPT !.state = "created", !.provider = "click",
                                  !.user = u, !.amount = amount]]
    /\ UNCHANGED <<wallet, banned, percent, req>>

SetBonusPercent(p) ==
    /\ percent' = p
    /\ UNCHANGED <<wallet, orders, banned, req>>

SetUserBan(u, b) ==
    /\ banned' = [banned EXCEPT ![u] = b]
    /\ UNCHANGED <<wallet, orders, percent, req>>

-----------------------------------------------------------------------------
(***************************************************************************)
(* The Click Shop API.                                                     *)
(***************************************************************************)
Serve(h, pc, id, txn) ==
    req' = [req EXCEPT ![h] = [Idle EXCEPT !.pc = pc, !.order = id, !.txn = txn]]

Goto(h, pc, hit) ==
    req' = [req EXCEPT ![h] = [@ EXCEPT !.pc = pc, !.hit = hit]]

Answer(h, code) ==
    req' = [req EXCEPT ![h] = [@ EXCEPT !.pc = "reply", !.code = code]]

\* _handle reads the order once; every later decision up to the first write is
\* taken on this copy. Any other reply is a refusal that changes nothing.
Accepted(id, amount) ==
    /\ orders[id].provider = "click"
    /\ amount = orders[id].amount
    /\ orders[id].state # "cancelled"

PrepareRequest(h, id, txn, amount) ==
    /\ req[h].pc = "idle"
    /\ Accepted(id, amount)
    /\ orders[id].state # "paid"
    /\ Serve(h, "attach", id, txn)
    /\ UNCHANGED <<wallet, orders, banned, percent>>

\* Mutant: the transaction of the Complete is not compared with the order's.
MatchesPrepareId(o, id, txn, prepareOf) == o.txn # NoTxn /\ o.prepared /\ prepareOf = id

\* check_click_complete: the order was prepared, by this transaction, and the
\* merchant_prepare_id sent is the order's own.
MatchesPrepare(o, id, txn, prepareOf) ==
    o.txn # NoTxn /\ o.prepared /\ prepareOf = id /\ o.txn = txn

\* `failed`: Click reports an error of its own (error < 0). On an order never
\* prepared that is a refusal too: there is nothing to cancel.
CompleteRequest(h, id, txn, amount, prepareOf, failed) ==
    /\ req[h].pc = "idle"
    /\ Accepted(id, amount)
    /\ MatchesPrepare(orders[id], id, txn, prepareOf)
    /\ Serve(h, IF failed THEN "cancel" ELSE "settle", id, txn)
    /\ UNCHANGED <<wallet, orders, banned, percent>>

\* Mutants: the UPDATE's WHERE clause without the transaction, or the state.
Rebindable(o, txn) == o.state \in Open
AttachableClosed(o, txn) == o.state # "none" /\ o.txn \in {NoTxn, txn}

Attachable(o, txn) == o.state \in Open /\ o.txn \in {NoTxn, txn}

\* attach_transaction's UPDATE ...
Attach(h) ==
    LET id == req[h].order  txn == req[h].txn IN
    /\ req[h].pc = "attach"
    /\ Attachable(orders[id], txn)
    /\ ~TxnTaken("click", txn, id)
    /\ orders' = [orders EXCEPT ![id].state = "pending", ![id].txn = txn,
                                ![id].prepared = TRUE]
    /\ Goto(h, "attached", TRUE)
    /\ UNCHANGED <<wallet, banned, percent>>

\* ... which raises IntegrityError when another order holds the transaction ...
AttachConflict(h) ==
    LET id == req[h].order  txn == req[h].txn IN
    /\ req[h].pc = "attach"
    /\ Attachable(orders[id], txn)
    /\ TxnTaken("click", txn, id)
    /\ Answer(h, "UPDATE_FAILED")
    /\ UNCHANGED <<wallet, orders, banned, percent>>

\* ... or matches no row.
AttachMiss(h) ==
    /\ req[h].pc = "attach"
    /\ ~Attachable(orders[req[h].order], req[h].txn)
    /\ Goto(h, "attached", FALSE)
    /\ UNCHANGED <<wallet, orders, banned, percent>>

\* The reads after the UPDATE: a missed UPDATE still succeeds when the order
\* was closed under the same transaction (a repeated Prepare).
PrepareAnswer(h) ==
    LET o == orders[req[h].order]
        bound == req[h].hit \/ (o.state \in Final /\ o.txn = req[h].txn)
    IN
    /\ req[h].pc = "attached"
    /\ Answer(h, IF bound /\ o.prepared THEN "PREPARED" ELSE "UPDATE_FAILED")
    /\ UNCHANGED <<wallet, orders, banned, percent>>

\* settle_order's transaction: its UPDATE is conditional on an open order.
Settle(h) ==
    LET id == req[h].order IN
    /\ req[h].pc = "settle"
    /\ orders[id].state \in Open
    /\ PayOrder(id, orders[id])
    /\ Goto(h, "settled", TRUE)
    /\ UNCHANGED <<banned, percent>>

SettleMiss(h) ==
    /\ req[h].pc = "settle"
    /\ orders[req[h].order].state \notin Open
    /\ Goto(h, "settled", FALSE)
    /\ UNCHANGED <<wallet, orders, banned, percent>>

CompleteAnswer(h) ==
    /\ req[h].pc = "settled"
    /\ Answer(h, IF req[h].hit THEN "COMPLETED"
                 ELSE IF orders[req[h].order].state = "cancelled" THEN "CANCELLED"
                 ELSE "ALREADY_PAID")
    /\ UNCHANGED <<wallet, orders, banned, percent>>

\* Mutant: the cancelling UPDATE is not conditional on an open order.
CancelAny(h) ==
    LET id == req[h].order IN
    /\ req[h].pc = "cancel"
    /\ orders' = [orders EXCEPT ![id].state = "cancelled", ![id].token = NoToken]
    /\ Goto(h, "closed", TRUE)
    /\ UNCHANGED <<wallet, banned, percent>>

\* cancel_order's transaction.
Cancel(h) ==
    LET id == req[h].order  open == orders[req[h].order].state \in Open IN
    /\ req[h].pc = "cancel"
    /\ orders' = IF open
                 THEN [orders EXCEPT ![id].state = "cancelled", ![id].token = NoToken]
                 ELSE orders
    /\ Goto(h, "closed", open)
    /\ UNCHANGED <<wallet, banned, percent>>

CancelAnswer(h) ==
    /\ req[h].pc = "closed"
    /\ Answer(h, IF ~req[h].hit /\ orders[req[h].order].state = "paid"
                 THEN "ALREADY_PAID" ELSE "CANCELLED")
    /\ UNCHANGED <<wallet, orders, banned, percent>>

-----------------------------------------------------------------------------
(***************************************************************************)
(* Paynet. Each method is one transaction, then the answer.                *)
(***************************************************************************)
PaynetPaid(txn) ==
    \E id \in Orders : /\ orders[id].provider = "paynet"
                       /\ orders[id].txn = txn
                       /\ orders[id].state = "paid"

\* PerformTransaction under BEGIN IMMEDIATE: the duplicate check, the payer
\* check, the INSERT of an order that is paid from the start, the credit.
PaynetPerform(h, u, amount, txn, id) ==
    /\ req[h].pc = "idle"
    /\ ~PaynetPaid(txn)
    /\ ~banned[u]
    /\ orders[id].state = "none"
    /\ ~TxnTaken("paynet", txn, id)
    /\ PayOrder(id, [NoRow EXCEPT !.provider = "paynet", !.user = u,
                                  !.amount = amount, !.txn = txn])
    /\ req' = [req EXCEPT ![h] = [Idle EXCEPT !.pc = "reply", !.order = id,
                                              !.txn = txn, !.code = "PERFORMED"]]
    /\ UNCHANGED <<banned, percent>>

\* A repeated transactionId is error 201; CheckTransaction answers state 1.
PaynetFound(h, txn, code) ==
    /\ req[h].pc = "idle"
    /\ PaynetPaid(txn)
    /\ req' = [req EXCEPT ![h] = [Idle EXCEPT !.pc = "reply", !.txn = txn,
                                              !.code = code]]
    /\ UNCHANGED <<wallet, orders, banned, percent>>

-----------------------------------------------------------------------------
\* The answer leaves.
Reply(h) ==
    /\ req[h].pc = "reply"
    /\ req' = [req EXCEPT ![h] = Idle]
    /\ UNCHANGED <<wallet, orders, banned, percent>>

\* A database error at any point (a lock wait that ran out, a failed read
\* after the commit): handle_click rolls back what is open and answers -7.
Fail(h) ==
    /\ req[h].pc \notin {"idle", "reply"}
    /\ Answer(h, "UPDATE_FAILED")
    /\ UNCHANGED <<wallet, orders, banned, percent>>

\* The process dies, or the answer is lost on its way.
Die(h) ==
    /\ req[h].pc # "idle"
    /\ req' = [req EXCEPT ![h] = Idle]
    /\ UNCHANGED <<wallet, orders, banned, percent>>

ClickStep(h) ==
    \/ \E id \in Orders, txn \in ClickTxns, amount \in Amounts :
          \/ PrepareRequest(h, id, txn, amount)
          \/ \E prepareOf \in Orders, failed \in BOOLEAN :
                CompleteRequest(h, id, txn, amount, prepareOf, failed)
    \/ Attach(h) \/ AttachConflict(h) \/ AttachMiss(h) \/ PrepareAnswer(h)
    \/ Settle(h) \/ SettleMiss(h) \/ CompleteAnswer(h)
    \/ Cancel(h) \/ CancelAnswer(h)

PaynetStep(h) ==
    \E txn \in PaynetTxns :
       \/ \E u \in Users, amount \in Amounts, id \in Orders :
             PaynetPerform(h, u, amount, txn, id)
       \/ \E code \in {"EXISTS", "STATE_PAID"} : PaynetFound(h, txn, code)

HandlerStep(h) == ClickStep(h) \/ PaynetStep(h) \/ Reply(h) \/ Fail(h) \/ Die(h)

OfficeStep ==
    \/ \E u \in Users, amount \in Amounts, id \in Orders : CreateOrder(u, amount, id)
    \/ \E p \in Percents : SetBonusPercent(p)
    \/ \E u \in Users, b \in BOOLEAN : SetUserBan(u, b)

Next == OfficeStep \/ \E h \in Handlers : HandlerStep(h)

Spec == Init /\ [][Next]_vars

-----------------------------------------------------------------------------
(***************************************************************************)
(* Properties.                                                             *)
(***************************************************************************)
RowMatches(row, kind, ref) == row.kind = kind /\ row.ref = ref

\* Exactly one ledger row of this kind and reference exists, over all wallets:
\* in the ledger of u, for this amount.
CreditedOnce(wallets, kind, ref, u, amount) ==
    \E i \in DOMAIN wallets[u].rows :
        /\ RowMatches(wallets[u].rows[i], kind, ref)
        /\ wallets[u].rows[i].amount = amount
        /\ \A v \in Users : \A j \in DOMAIN wallets[v].rows :
              RowMatches(wallets[v].rows[j], kind, ref) => v = u /\ j = i

\* Every paid order has been credited exactly once, to its owner and for its
\* amount, whatever requests were repeated, raced or crashed on the way; and
\* every top-up row in any ledger is the credit of such an order.
PaidOrdersAreCredited ==
    \A id \in Orders : orders[id].state = "paid" =>
        CreditedOnce(wallet, "topup", TopupRef(id, orders[id]),
                     orders[id].user, orders[id].amount)

CreditsArePaidOrders ==
    \A u \in Users : \A i \in DOMAIN wallet[u].rows :
        wallet[u].rows[i].kind = "topup" =>
            \E id \in Orders : /\ orders[id].state = "paid"
                               /\ orders[id].user = u
                               /\ wallet[u].rows[i].ref = TopupRef(id, orders[id])

PaymentsCreditOnce == PaidOrdersAreCredited /\ CreditsArePaidOrders

\* The bonus an order shows (bonus_amount) is the bonus its owner received,
\* once, and no bonus row exists without a paid order showing it.
BonusIsCreditedOnce ==
    /\ \A id \in Orders : orders[id].bonus > 0 =>
          CreditedOnce(wallet, "topup_bonus", BonusRef(id),
                       orders[id].user, orders[id].bonus)
    /\ \A u \in Users : \A i \in DOMAIN wallet[u].rows :
          wallet[u].rows[i].kind = "topup_bonus" =>
              \E id \in Orders : /\ orders[id].state = "paid"
                                 /\ orders[id].bonus > 0
                                 /\ wallet[u].rows[i].ref = BonusRef(id)

\* What an answer tells the provider is still true when it leaves, although it
\* was computed from reads and writes other requests have raced with: money
\* Click or Paynet is told to keep has been credited, an order reported as
\* cancelled will not be credited, a prepared order belongs to the transaction.
AnswerHolds(r) ==
    /\ r.code = "PREPARED" => orders[r.order].txn = r.txn /\ orders[r.order].prepared
    /\ r.code \in {"COMPLETED", "ALREADY_PAID"} =>
          orders[r.order].state = "paid" /\ orders[r.order].txn = r.txn
    /\ r.code = "CANCELLED" => orders[r.order].state = "cancelled"
    /\ r.code \in {"PERFORMED", "EXISTS", "STATE_PAID"} => PaynetPaid(r.txn)

AnswersHold == \A h \in Handlers : req[h].pc = "reply" => AnswerHolds(req[h])

\* paid and cancelled are final; an order's owner, amount and provider never
\* change, and the provider's transaction and the prepare id, once bound, are
\* never rebound.
OrderOnlyMovesForward(o, p) ==
    /\ o.state \in Final => p.state = o.state /\ p.bonus = o.bonus
    /\ o.state = "pending" => p.state # "created"
    /\ o.state # "none" => /\ p.state # "none"
                           /\ <<p.user, p.amount, p.provider>> = <<o.user, o.amount, o.provider>>
    /\ o.txn # NoTxn => p.txn = o.txn
    /\ o.prepared => p.prepared

OrdersOnlyMoveForward ==
    [][\A id \in Orders : OrderOnlyMovesForward(orders[id], orders'[id])]_orders

\* One transaction of a provider pays for one order only.
TxnsAreBoundOnce ==
    \A x, y \in Orders :
        orders[x].txn # NoTxn /\ orders[x].txn = orders[y].txn
            /\ orders[x].provider = orders[y].provider => x = y

-----------------------------------------------------------------------------
(***************************************************************************)
(* The inductive invariant behind these properties.                        *)
(***************************************************************************)

\* An order row is complete, an absent one is blank, and a paid order carries
\* the transaction that paid for it.
OrdersAreWhole ==
    \A id \in Orders :
        LET o == orders[id] IN
        /\ o.state = "none" => o = NoRow
        /\ o.state # "none" => /\ o.user \in Users
                               /\ o.provider \in {"click", "paynet"}
                               /\ o.amount \in Amounts
        /\ o.state = "paid" => o.txn # NoTxn
        /\ o.state # "paid" => o.bonus = 0

\* What a handler has seen of its order before its next step, and which of it
\* no other request can have changed.
RequestHolds(r) ==
    LET o == orders[r.order] IN
    /\ r.pc \in {"attach", "settle", "cancel", "attached", "settled", "closed"} =>
          r.order \in Orders /\ o.provider = "click" /\ r.txn \in ClickTxns
    /\ r.pc \in {"settle", "cancel", "settled", "closed"} => o.txn = r.txn
    /\ r.pc = "attached" /\ r.hit => o.txn = r.txn /\ o.prepared
    /\ r.pc = "settled" => IF r.hit THEN o.state = "paid" ELSE o.state \in Final
    /\ r.pc = "closed" => IF r.hit THEN o.state = "cancelled" ELSE o.state \in Final
    /\ r.pc = "reply" => AnswerHolds(r)
    /\ r.pc = "reply" /\ r.code \in {"PREPARED", "COMPLETED", "ALREADY_PAID", "CANCELLED"} =>
          r.order \in Orders /\ r.txn \in ClickTxns

RequestsHold == \A h \in Handlers : RequestHolds(req[h])

Inv == /\ TypeOK
       /\ OrdersAreWhole
       /\ RequestsHold
       /\ TxnsAreBoundOnce
       /\ LedgerExplainsBalance
       /\ PaymentsCreditOnce
       /\ BonusIsCreditedOnce

-----------------------------------------------------------------------------
(***************************************************************************)
(* Payments implements TopUps.                                             *)
(***************************************************************************)
StatusOf(state) == CASE state = "none" -> "unknown"
                     [] state \in Open -> "open"
                     [] state = "paid" -> "paid"
                     [] state = "cancelled" -> "void"

Promise == INSTANCE TopUps WITH
    Payers <- Users, Payments <- Orders, NoPayer <- NoUser,
    Worths <- [a \in Amounts |-> {a + PaymentBonus(a, p) : p \in Percents}],
    status <- [id \in Orders |-> StatusOf(orders[id].state)],
    owner <- [id \in Orders |-> orders[id].user],
    price <- [id \in Orders |-> orders[id].amount],
    money <- [u \in Users |-> wallet[u].balance]

\* Every behaviour of the order table, the two providers' protocols, their
\* races and their crashes is a behaviour of TopUps.
ImplementsTopUps == Promise!AbstractSpec
=============================================================================
