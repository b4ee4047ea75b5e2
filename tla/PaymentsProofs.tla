--------------------------- MODULE PaymentsProofs ---------------------------
(***************************************************************************)
(* Theorems about Payments, for every value of its constants: its          *)
(* invariant, and that it implements TopUps. Then CardPayments: all that   *)
(* holds beside the card requests too, and a card token is spent once.     *)
(***************************************************************************)
EXTENDS CardPayments, TLAPS

-----------------------------------------------------------------------------
(***************************************************************************)
(* The ledger's operators.                                                 *)
(***************************************************************************)

\* A wallet with another balance and other rows is a wallet.
LEMMA WalletUpdate ==
    ASSUME NEW w \in WalletRecord, NEW b \in Int, NEW rows \in Seq(Row)
    PROVE  [w EXCEPT !.balance = b, !.rows = rows] \in WalletRecord
  BY DEF WalletRecord

\* A balance change keeps the wallet's type.
LEMMA BalanceChangeType ==
    ASSUME NEW w \in WalletRecord, NEW kind \in Kinds, NEW amount \in Int,
           NEW ref \in References \cup {NoReference}
    PROVE  ApplyBalanceChange(w, kind, amount, ref) \in WalletRecord
<1> DEFINE row == [kind |-> kind, amount |-> amount, after |-> w.balance + amount, ref |-> ref]
<1>1. w.balance \in Int /\ w.balance + amount \in Int /\ w.rows \in Seq(Row)
  BY DEF WalletRecord
<1>2. row \in Row
  BY <1>1 DEF Row
<1>3. Append(w.rows, row) \in Seq(Row)
  BY <1>1, <1>2
<1> QED BY <1>1, <1>3, WalletUpdate DEF ApplyBalanceChange

\* A balance change appends the row that explains it.
LEMMA BalanceChangeExplained ==
    ASSUME NEW w \in WalletRecord, NEW kind \in Kinds, NEW amount \in Int,
           NEW ref \in References \cup {NoReference}, Explained(w)
    PROVE  Explained(ApplyBalanceChange(w, kind, amount, ref))
<1> DEFINE v == ApplyBalanceChange(w, kind, amount, ref)
           row == [kind |-> kind, amount |-> amount, after |-> w.balance + amount, ref |-> ref]
<1>1. /\ v.balance = w.balance + amount
      /\ v.rows = Append(w.rows, row)
      /\ w.rows \in Seq(Row) /\ row \in Row /\ w.balance \in Int
  BY DEF WalletRecord, ApplyBalanceChange, Row
<1>2. /\ Len(v.rows) = Len(w.rows) + 1 /\ Len(w.rows) \in Nat
      /\ \A i \in 1..Len(w.rows) : v.rows[i] = w.rows[i]
      /\ v.rows[Len(w.rows) + 1] = row
  BY <1>1
<1>3. v.balance = BalanceAfter(v.rows, Len(v.rows))
  BY <1>1, <1>2 DEF BalanceAfter
<1>4. ASSUME NEW i \in 1..Len(v.rows)
      PROVE  v.rows[i].after = BalanceAfter(v.rows, i - 1) + v.rows[i].amount
  <2>1. CASE i = Len(w.rows) + 1
    <3>1. BalanceAfter(v.rows, Len(w.rows)) = w.balance
      BY <1>2 DEF BalanceAfter, Explained
    <3> QED BY <2>1, <3>1, <1>1, <1>2
  <2>2. CASE i \in 1..Len(w.rows)
    <3>1. BalanceAfter(v.rows, i - 1) = BalanceAfter(w.rows, i - 1)
      BY <2>2, <1>2 DEF BalanceAfter
    <3>2. w.rows[i].after = BalanceAfter(w.rows, i - 1) + w.rows[i].amount
      BY <2>2 DEF Explained
    <3> QED BY <2>2, <3>1, <3>2, <1>2
  <2> QED BY <2>1, <2>2, <1>2
<1> QED BY <1>3, <1>4 DEF Explained

\* The bonus of an amount is a natural number.
LEMMA BonusIsNat ==
    ASSUME NEW amount \in Nat, NEW pct \in 0..50
    PROVE  PaymentBonus(amount, pct) \in Nat
<1>1. amount * pct \in Nat
  OBVIOUS
<1> QED BY <1>1 DEF PaymentBonus

-----------------------------------------------------------------------------
(***************************************************************************)
(* A credit.                                                               *)
(***************************************************************************)

\* The references of a credit are references.
LEMMA CreditReferences ==
    ASSUME NEW id \in Orders, NEW o \in OrderRecord, o.provider \in {"click", "paynet"}
    PROVE  TopupRef(id, o) \in References /\ BonusRef(id) \in References
<1>1. TopupRef(id, o) \in TopupReferences
  BY DEF TopupRef, TopupReferences, OrderRecord
<1>2. BonusRef(id) \in BonusReferences
  BY DEF BonusRef, BonusReferences
<1> QED BY <1>1, <1>2, PaymentsAssumption

\* A credit keeps the wallet's type, and its ledger explains it.
LEMMA CreditType ==
    ASSUME NEW w \in WalletRecord, NEW id \in Orders, NEW o \in OrderRecord,
           o.provider \in {"click", "paynet"}, percent \in Percents
    PROVE  /\ CreditedBonus(id, o.amount) \in Nat
           /\ CreditTopup(w, id, o) \in WalletRecord
           /\ Explained(w) => Explained(CreditTopup(w, id, o))
<1> DEFINE topped == ApplyBalanceChange(w, "topup", o.amount, TopupRef(id, o))
           bonus == CreditedBonus(id, o.amount)
           both == ApplyBalanceChange(topped, "topup_bonus", bonus, BonusRef(id))
<1>1. o.amount \in Nat /\ o.amount \in Int
  BY DEF OrderRecord
<1>2. bonus \in Nat /\ bonus \in Int
  <2>1. percent \in 0..50
    BY PaymentsAssumption
  <2>2. PaymentBonus(o.amount, percent) \in Nat
    BY <1>1, <2>1, BonusIsNat
  <2>3. bonus \in Nat
    BY <2>2 DEF CreditedBonus
  <2> QED BY <2>3
<1>3. "topup" \in Kinds /\ "topup_bonus" \in Kinds
  BY DEF Kinds
<1>4. TopupRef(id, o) \in References \cup {NoReference} /\ BonusRef(id) \in References \cup {NoReference}
  BY CreditReferences
<1>5. topped \in WalletRecord /\ (Explained(w) => Explained(topped))
  BY <1>1, <1>3, <1>4, BalanceChangeType, BalanceChangeExplained
<1>6. both \in WalletRecord /\ (Explained(w) => Explained(both))
  BY <1>2, <1>3, <1>4, <1>5, BalanceChangeType, BalanceChangeExplained
<1>7. CreditTopup(w, id, o) = IF bonus > 0 THEN both ELSE topped
  BY DEF CreditTopup
<1> HIDE DEF topped, bonus, both
<1>8. CreditTopup(w, id, o) \in WalletRecord
           /\ (Explained(w) => Explained(CreditTopup(w, id, o)))
  BY <1>5, <1>6, <1>7
<1> QED BY <1>2, <1>8 DEF bonus

\* A credit appends one row for the top-up and, when there is a bonus, one row
\* for the bonus.
LEMMA CreditRows ==
    ASSUME NEW w \in WalletRecord, NEW id, NEW o
    PROVE  LET n == Len(w.rows)
               v == CreditTopup(w, id, o)
               b == CreditedBonus(id, o.amount)
           IN  /\ n \in Nat /\ DOMAIN w.rows = 1..n
               /\ DOMAIN v.rows = 1..(IF b > 0 THEN n + 2 ELSE n + 1)
               /\ \A i \in 1..n : v.rows[i] = w.rows[i]
               /\ v.rows[n + 1].kind = "topup"
               /\ v.rows[n + 1].amount = o.amount
               /\ v.rows[n + 1].ref = TopupRef(id, o)
               /\ b > 0 => /\ v.rows[n + 2].kind = "topup_bonus"
                           /\ v.rows[n + 2].amount = b
                           /\ v.rows[n + 2].ref = BonusRef(id)
<1> DEFINE n == Len(w.rows)
           v == CreditTopup(w, id, o)
           b == CreditedBonus(id, o.amount)
           first == [kind |-> "topup", amount |-> o.amount,
                     after |-> w.balance + o.amount, ref |-> TopupRef(id, o)]
           topped == ApplyBalanceChange(w, "topup", o.amount, TopupRef(id, o))
           second == [kind |-> "topup_bonus", amount |-> b,
                      after |-> topped.balance + b, ref |-> BonusRef(id)]
           both == ApplyBalanceChange(topped, "topup_bonus", b, BonusRef(id))
<1>1. w.rows \in Seq(Row) /\ w = [balance |-> w.balance, pro |-> w.pro, until |-> w.until, rows |-> w.rows]
  BY DEF WalletRecord
<1>2. topped.rows = Append(w.rows, first) /\ DOMAIN topped = DOMAIN w
  BY <1>1 DEF ApplyBalanceChange
<1>3. both.rows = Append(topped.rows, second)
  BY <1>1 DEF ApplyBalanceChange
<1>4. v = IF b > 0 THEN both ELSE topped
  BY DEF CreditTopup
<1> HIDE DEF topped, both, v, b
<1>5. v.rows = IF b > 0 THEN Append(Append(w.rows, first), second) ELSE Append(w.rows, first)
  BY <1>2, <1>3, <1>4
<1>6. n \in Nat /\ DOMAIN w.rows = 1..n
  BY <1>1
<1>7. first.kind = "topup" /\ first.amount = o.amount /\ first.ref = TopupRef(id, o)
  OBVIOUS
<1>8. second.kind = "topup_bonus" /\ second.amount = b /\ second.ref = BonusRef(id)
  OBVIOUS
<1> HIDE DEF first, second
<1> DEFINE S == {w.rows[i] : i \in 1..n} \cup {first, second}
<1>9. w.rows \in Seq(S) /\ first \in S /\ second \in S
  BY <1>1, <1>6
<1>10. /\ Len(Append(w.rows, first)) = n + 1
       /\ Append(w.rows, first) \in Seq(S)
       /\ \A i \in 1..n : Append(w.rows, first)[i] = w.rows[i]
       /\ Append(w.rows, first)[n + 1] = first
  BY <1>6, <1>9
<1> HIDE DEF S
<1> DEFINE Goal == /\ n \in Nat /\ DOMAIN w.rows = 1..n
                   /\ DOMAIN v.rows = 1..(IF b > 0 THEN n + 2 ELSE n + 1)
                   /\ \A i \in 1..n : v.rows[i] = w.rows[i]
                   /\ v.rows[n + 1].kind = "topup"
                   /\ v.rows[n + 1].amount = o.amount
                   /\ v.rows[n + 1].ref = TopupRef(id, o)
                   /\ b > 0 => /\ v.rows[n + 2].kind = "topup_bonus"
                               /\ v.rows[n + 2].amount = b
                               /\ v.rows[n + 2].ref = BonusRef(id)
<1>11. ASSUME b > 0 PROVE Goal
  <2> DEFINE s == Append(w.rows, first)
  <2>1. v.rows = Append(s, second)
    BY <1>5, <1>11
  <2>2. s \in Seq(S) /\ Len(s) = n + 1
    BY <1>10
  <2>3. (\A i \in 1..n : s[i] = w.rows[i]) /\ s[n + 1] = first
    BY <1>10
  <2> HIDE DEF s
  <2>4. /\ Len(v.rows) = n + 2
        /\ v.rows \in Seq(S)
        /\ \A i \in 1..(n + 1) : v.rows[i] = s[i]
        /\ v.rows[n + 2] = second
    BY <2>1, <2>2, <1>6, <1>9
  <2> QED BY <2>3, <2>4, <1>6, <1>7, <1>8, <1>11 DEF first, second
<1>12. ASSUME ~(b > 0) PROVE Goal
  <2>1. v.rows = Append(w.rows, first)
    BY <1>5, <1>12
  <2> QED BY <2>1, <1>6, <1>7, <1>10, <1>12 DEF first
<1>13. Goal
  BY <1>11, <1>12
<1> QED BY <1>13 DEF v, b

-----------------------------------------------------------------------------
(***************************************************************************)
(* Making an order paid.                                                   *)
(***************************************************************************)

\* What Settle and PaynetPerform have in common: order `id`, not paid yet,
\* becomes `o` with its state, token and bonus set, and its owner is credited.
LEMMA PayOrderStep ==
    ASSUME TypeOK, OrdersAreWhole, LedgerExplainsBalance, PaymentsCreditOnce,
           BonusIsCreditedOnce,
           NEW id \in Orders, NEW o \in OrderRecord,
           orders[id].state # "paid",
           o.user \in Users, o.provider \in {"click", "paynet"}, o.txn # NoTxn,
           PayOrder(id, o)
    PROVE  /\ WalletTypeOK'
           /\ orders' \in [Orders -> OrderRecord]
           /\ orders'[id].state = "paid"
           /\ <<orders'[id].user, orders'[id].provider, orders'[id].txn, orders'[id].amount,
                orders'[id].prepared>> = <<o.user, o.provider, o.txn, o.amount, o.prepared>>
           /\ \A x \in Orders : x # id => orders'[x] = orders[x]
           /\ LedgerExplainsBalance'
           /\ PaymentsCreditOnce'
           /\ BonusIsCreditedOnce'
<1> DEFINE w == wallet[o.user]
           n == Len(w.rows)
           b == CreditedBonus(id, o.amount)
           v == CreditTopup(w, id, o)
           p == [o EXCEPT !.state = "paid", !.token = NoToken, !.bonus = b]
           \* The index of a row that was there before this credit.
           Old(u, i) == i \in DOMAIN wallet[u].rows
<1>1. w \in WalletRecord /\ wallet \in [Users -> WalletRecord] /\ percent \in Percents
  BY DEF TypeOK, WalletTypeOK
<1>2. wallet' = [wallet EXCEPT ![o.user] = v] /\ wallet'[o.user] = v
      /\ \A u \in Users : u # o.user => wallet'[u] = wallet[u]
  BY <1>1 DEF PayOrder
<1>3. orders' = [orders EXCEPT ![id] = p] /\ orders'[id] = p
      /\ \A x \in Orders : x # id => orders'[x] = orders[x]
  BY DEF PayOrder, TypeOK
<1>4. b \in Nat /\ v \in WalletRecord /\ (Explained(w) => Explained(v))
  BY <1>1, CreditType
<1>5. p \in OrderRecord /\ p.state = "paid" /\ p.bonus = b
      /\ <<p.user, p.provider, p.txn, p.amount, p.prepared>>
           = <<o.user, o.provider, o.txn, o.amount, o.prepared>>
  BY <1>4 DEF OrderRecord, States
<1>6. /\ n \in Nat /\ DOMAIN w.rows = 1..n
      /\ DOMAIN v.rows = 1..(IF b > 0 THEN n + 2 ELSE n + 1)
      /\ \A i \in 1..n : v.rows[i] = w.rows[i]
      /\ v.rows[n + 1].kind = "topup"
      /\ v.rows[n + 1].amount = o.amount
      /\ v.rows[n + 1].ref = TopupRef(id, o)
      /\ b > 0 => /\ v.rows[n + 2].kind = "topup_bonus"
                  /\ v.rows[n + 2].amount = b
                  /\ v.rows[n + 2].ref = BonusRef(id)
  <2> HIDE DEF w
  <2> QED BY <1>1, CreditRows
<1>7. /\ ~RefUsed("topup", TopupRef(id, o))
      /\ b > 0 => ~RefUsed("topup_bonus", BonusRef(id))
  BY DEF PayOrder, CreditedBonus
<1>8. WalletTypeOK' /\ orders' \in [Orders -> OrderRecord]
  BY <1>1, <1>2, <1>3, <1>4, <1>5 DEF TypeOK, WalletTypeOK
<1>9. LedgerExplainsBalance'
  BY <1>1, <1>2, <1>4, SMTT(40) DEF LedgerExplainsBalance, Explained, BalanceAfter
<1> HIDE DEF w, n, b, v, p
<1>10. TopupRef(id, p) = TopupRef(id, o)
  BY <1>5 DEF TopupRef
\* Every row of the new ledgers is an old one, or one of the two new ones.
<1>11. \A u \in Users : \A i \in DOMAIN wallet'[u].rows :
          \/ Old(u, i) /\ wallet'[u].rows[i] = wallet[u].rows[i]
          \/ u = o.user /\ i = n + 1
          \/ u = o.user /\ i = n + 2 /\ b > 0
  BY <1>2, <1>6 DEF w
<1>12. \A u \in Users : \A i \in DOMAIN wallet[u].rows :
          i \in DOMAIN wallet'[u].rows /\ wallet'[u].rows[i] = wallet[u].rows[i]
  BY <1>2, <1>6 DEF w
<1>13. /\ n + 1 \in DOMAIN wallet'[o.user].rows
       /\ wallet'[o.user].rows[n + 1].kind = "topup"
       /\ wallet'[o.user].rows[n + 1].amount = o.amount
       /\ wallet'[o.user].rows[n + 1].ref = TopupRef(id, o)
       /\ b > 0 => /\ n + 2 \in DOMAIN wallet'[o.user].rows
                   /\ wallet'[o.user].rows[n + 2].kind = "topup_bonus"
                   /\ wallet'[o.user].rows[n + 2].amount = b
                   /\ wallet'[o.user].rows[n + 2].ref = BonusRef(id)
  BY <1>2, <1>6
<1>14. PaidOrdersAreCredited'
  <2> SUFFICES ASSUME NEW x \in Orders, orders'[x].state = "paid"
               PROVE  CreditedOnce(wallet', "topup", TopupRef(x, orders'[x]), orders'[x].user, orders'[x].amount)
    BY DEF PaidOrdersAreCredited, TopupRef
  <2>1. CASE x = id
    <3>1. /\ TopupRef(x, orders'[x]) = TopupRef(id, o)
          /\ orders'[x].user = o.user /\ orders'[x].amount = o.amount
      BY <2>1, <1>3, <1>5, <1>10
    <3>2. \A u \in Users : \A j \in DOMAIN wallet'[u].rows :
             wallet'[u].rows[j].kind = "topup" /\ wallet'[u].rows[j].ref = TopupRef(id, o)
                => u = o.user /\ j = n + 1
      BY <1>7, <1>11, <1>13 DEF RefUsed
    <3> QED BY <3>1, <3>2, <1>13 DEF CreditedOnce, RowMatches
  <2>2. CASE x # id
    <3>1. orders'[x] = orders[x] /\ orders[x].state = "paid"
      BY <2>2, <1>3
    <3> DEFINE ref == TopupRef(x, orders[x])
               u == orders[x].user
    <3>2. u \in Users
      BY <3>1 DEF OrdersAreWhole
    <3>3. PICK i \in DOMAIN wallet[u].rows :
             /\ RowMatches(wallet[u].rows[i], "topup", ref)
             /\ wallet[u].rows[i].amount = orders[x].amount
             /\ \A y \in Users : \A j \in DOMAIN wallet[y].rows :
                   RowMatches(wallet[y].rows[j], "topup", ref) => y = u /\ j = i
      BY <3>1 DEF PaymentsCreditOnce, PaidOrdersAreCredited, CreditedOnce
    <3>4. ref # TopupRef(id, o)
      BY <3>2, <3>3, <1>7 DEF RefUsed, RowMatches
    <3> HIDE DEF ref, u
    <3>5. /\ i \in DOMAIN wallet'[u].rows
          /\ wallet'[u].rows[i].kind = "topup" /\ wallet'[u].rows[i].ref = ref
          /\ wallet'[u].rows[i].amount = orders[x].amount
      BY <3>2, <3>3, <1>12 DEF RowMatches
    <3>6. \A y \in Users : \A j \in DOMAIN wallet'[y].rows :
             wallet'[y].rows[j].kind = "topup" /\ wallet'[y].rows[j].ref = ref
                => y = u /\ j = i
      BY <3>3, <3>4, <1>11, <1>13 DEF RowMatches
    <3>7. CreditedOnce(wallet', "topup", ref, u, orders[x].amount)
      BY <3>5, <3>6 DEF CreditedOnce, RowMatches
    <3> QED BY <3>1, <3>7 DEF ref, u
  <2> QED BY <2>1, <2>2
<1>15. CreditsArePaidOrders'
  <2> SUFFICES ASSUME NEW u \in Users, NEW i \in DOMAIN wallet'[u].rows,
                      wallet'[u].rows[i].kind = "topup"
               PROVE  \E x \in Orders : /\ orders'[x].state = "paid"
                                        /\ orders'[x].user = u
                                        /\ wallet'[u].rows[i].ref = TopupRef(x, orders'[x])
    BY DEF CreditsArePaidOrders, TopupRef
  <2>1. CASE u = o.user /\ i = n + 1
    BY <2>1, <1>3, <1>5, <1>10, <1>13
  <2>2. CASE Old(u, i) /\ wallet'[u].rows[i] = wallet[u].rows[i]
    <3>1. PICK x \in Orders : /\ orders[x].state = "paid"
                              /\ orders[x].user = u
                              /\ wallet[u].rows[i].ref = TopupRef(x, orders[x])
      BY <2>2 DEF PaymentsCreditOnce, CreditsArePaidOrders
    <3>2. orders'[x] = orders[x]
      BY <3>1, <1>3
    <3> QED BY <3>1, <3>2, <2>2
  <2> QED BY <2>1, <2>2, <1>11, <1>13
<1>16. BonusIsCreditedOnce'
  <2>1. ASSUME NEW x \in Orders, orders'[x].bonus > 0
        PROVE  CreditedOnce(wallet', "topup_bonus", BonusRef(x), orders'[x].user, orders'[x].bonus)
    <3>1. CASE x = id
      <4>1. b > 0 /\ orders'[x].user = o.user /\ orders'[x].bonus = b
        BY <2>1, <3>1, <1>3, <1>5
      <4>2. \A u \in Users : \A j \in DOMAIN wallet'[u].rows :
               wallet'[u].rows[j].kind = "topup_bonus" /\ wallet'[u].rows[j].ref = BonusRef(id)
                  => u = o.user /\ j = n + 2
        BY <4>1, <1>7, <1>11, <1>13 DEF RefUsed
      <4> QED BY <3>1, <4>1, <4>2, <1>13 DEF CreditedOnce, RowMatches
    <3>2. CASE x # id
      <4>1. orders'[x] = orders[x] /\ orders[x].bonus > 0
        BY <2>1, <3>2, <1>3
      <4> DEFINE u == orders[x].user
      <4>2. orders[x].state = "paid" /\ u \in Users
        BY <4>1 DEF OrdersAreWhole
      <4>3. PICK i \in DOMAIN wallet[u].rows :
               /\ RowMatches(wallet[u].rows[i], "topup_bonus", BonusRef(x))
               /\ wallet[u].rows[i].amount = orders[x].bonus
               /\ \A y \in Users : \A j \in DOMAIN wallet[y].rows :
                     RowMatches(wallet[y].rows[j], "topup_bonus", BonusRef(x)) => y = u /\ j = i
        BY <4>1 DEF BonusIsCreditedOnce, CreditedOnce
      <4>4. BonusRef(x) # BonusRef(id)
        BY <3>2 DEF BonusRef
      <4> HIDE DEF u
      <4>5. /\ i \in DOMAIN wallet'[u].rows
            /\ wallet'[u].rows[i].kind = "topup_bonus" /\ wallet'[u].rows[i].ref = BonusRef(x)
            /\ wallet'[u].rows[i].amount = orders[x].bonus
        BY <4>2, <4>3, <1>12 DEF RowMatches
      <4>6. \A y \in Users : \A j \in DOMAIN wallet'[y].rows :
               wallet'[y].rows[j].kind = "topup_bonus" /\ wallet'[y].rows[j].ref = BonusRef(x)
                  => y = u /\ j = i
        BY <4>3, <4>4, <1>11, <1>13 DEF RowMatches
      <4>7. CreditedOnce(wallet', "topup_bonus", BonusRef(x), u, orders[x].bonus)
        BY <4>5, <4>6 DEF CreditedOnce, RowMatches
      <4> QED BY <4>1, <4>7 DEF u
    <3> QED BY <3>1, <3>2
  <2>2. ASSUME NEW u \in Users, NEW i \in DOMAIN wallet'[u].rows,
               wallet'[u].rows[i].kind = "topup_bonus"
        PROVE  \E x \in Orders : /\ orders'[x].state = "paid"
                                 /\ orders'[x].bonus > 0
                                 /\ wallet'[u].rows[i].ref = BonusRef(x)
    <3>1. CASE u = o.user /\ i = n + 2 /\ b > 0
      BY <3>1, <1>3, <1>5, <1>13
    <3>2. CASE Old(u, i) /\ wallet'[u].rows[i] = wallet[u].rows[i]
      <4>1. PICK x \in Orders : /\ orders[x].state = "paid"
                                /\ orders[x].bonus > 0
                                /\ wallet[u].rows[i].ref = BonusRef(x)
        BY <2>2, <3>2 DEF BonusIsCreditedOnce
      <4>2. orders'[x] = orders[x]
        BY <4>1, <1>3
      <4> QED BY <4>1, <4>2, <3>2
    <3> QED BY <2>2, <3>1, <3>2, <1>11, <1>13
  <2> QED BY <2>1, <2>2 DEF BonusIsCreditedOnce, BonusRef
<1> QED BY <1>3, <1>5, <1>8, <1>9, <1>14, <1>15, <1>16 DEF PaymentsCreditOnce

-----------------------------------------------------------------------------
(***************************************************************************)
(* The part of the invariant that is about orders and wallets.             *)
(***************************************************************************)
Data == /\ WalletTypeOK
        /\ orders \in [Orders -> OrderRecord]
        /\ OrdersAreWhole
        /\ TxnsAreBoundOnce
        /\ LedgerExplainsBalance
        /\ PaymentsCreditOnce
        /\ BonusIsCreditedOnce

\* A step that leaves orders and wallets alone.
LEMMA QuietStep ==
    ASSUME Data, UNCHANGED <<wallet, orders>>
    PROVE  Data'
<1>1. WalletTypeOK' /\ (orders \in [Orders -> OrderRecord])' /\ OrdersAreWhole' /\ TxnsAreBoundOnce'
  BY DEF Data, WalletTypeOK, OrdersAreWhole, TxnsAreBoundOnce
<1>2. LedgerExplainsBalance'
  BY DEF Data, LedgerExplainsBalance, Explained, BalanceAfter
<1>3. PaidOrdersAreCredited'
  BY DEF Data, PaymentsCreditOnce, PaidOrdersAreCredited, TopupRef
<1>4. CreditsArePaidOrders'
  BY DEF Data, PaymentsCreditOnce, CreditsArePaidOrders, TopupRef
<1>5. BonusIsCreditedOnce'
  BY DEF Data, BonusIsCreditedOnce, BonusRef
<1> QED BY <1>1, <1>2, <1>3, <1>4, <1>5 DEF Data, PaymentsCreditOnce

\* A step that replaces one unpaid order by another unpaid order.
LEMMA UnpaidOrderStep ==
    ASSUME Data, wallet' = wallet,
           NEW id \in Orders, NEW o \in OrderRecord,
           orders' = [orders EXCEPT ![id] = o],
           orders[id].state # "paid",
           o.state \in {"created", "pending", "cancelled"}, o.bonus = 0,
           o.user \in Users, o.provider \in {"click", "paynet"}, o.amount \in Amounts,
           o.txn # NoTxn => ~TxnTaken(o.provider, o.txn, id)
    PROVE  Data'
<1>1. /\ orders' \in [Orders -> OrderRecord] /\ orders'[id] = o
      /\ \A x \in Orders : x # id => orders'[x] = orders[x]
  BY DEF Data
<1>2. \A x \in Orders : orders'[x].state = "paid" \/ orders[x].state = "paid"
         => x # id /\ orders'[x] = orders[x]
  BY <1>1
<1>3. \A x \in Orders : orders'[x].bonus > 0 \/ orders[x].bonus > 0
         => x # id /\ orders'[x] = orders[x]
  BY <1>1 DEF Data, OrdersAreWhole
<1>4. OrdersAreWhole'
  BY <1>1 DEF Data, OrdersAreWhole
<1>5. TxnsAreBoundOnce'
  BY <1>1 DEF Data, TxnsAreBoundOnce, TxnTaken
<1>6. WalletTypeOK' /\ LedgerExplainsBalance'
  BY DEF Data, WalletTypeOK, LedgerExplainsBalance, Explained, BalanceAfter
<1>7. PaidOrdersAreCredited'
  <2> SUFFICES ASSUME NEW x \in Orders, orders'[x].state = "paid"
               PROVE  CreditedOnce(wallet', "topup", TopupRef(x, orders'[x]), orders'[x].user, orders'[x].amount)
    BY DEF PaidOrdersAreCredited, TopupRef
  <2>1. orders'[x] = orders[x] /\ orders[x].state = "paid"
    BY <1>2
  <2>2. CreditedOnce(wallet, "topup", TopupRef(x, orders[x]), orders[x].user, orders[x].amount)
    BY <2>1 DEF Data, PaymentsCreditOnce, PaidOrdersAreCredited
  <2> QED BY <2>1, <2>2
<1>8. CreditsArePaidOrders'
  BY <1>2 DEF Data, PaymentsCreditOnce, CreditsArePaidOrders, TopupRef
<1>9. ASSUME NEW x \in Orders, orders'[x].bonus > 0
      PROVE  CreditedOnce(wallet', "topup_bonus", BonusRef(x), orders'[x].user, orders'[x].bonus)
  <2>1. orders'[x] = orders[x] /\ orders[x].bonus > 0
    BY <1>3, <1>9
  <2>2. CreditedOnce(wallet, "topup_bonus", BonusRef(x), orders[x].user, orders[x].bonus)
    BY <2>1 DEF Data, BonusIsCreditedOnce
  <2> QED BY <2>1, <2>2
<1>10. ASSUME NEW u \in Users, NEW i \in DOMAIN wallet'[u].rows,
              wallet'[u].rows[i].kind = "topup_bonus"
       PROVE  \E x \in Orders : /\ orders'[x].state = "paid"
                                /\ orders'[x].bonus > 0
                                /\ wallet'[u].rows[i].ref = BonusRef(x)
  BY <1>2, <1>10 DEF Data, BonusIsCreditedOnce
<1>11. BonusIsCreditedOnce'
  BY <1>9, <1>10 DEF BonusIsCreditedOnce, BonusRef
<1> QED BY <1>1, <1>4, <1>5, <1>6, <1>7, <1>8, <1>11 DEF Data, PaymentsCreditOnce

\* A step that makes an order paid.
LEMMA PaidOrderStep ==
    ASSUME TypeOK, Data, NEW id \in Orders, NEW o \in OrderRecord,
           orders[id].state # "paid",
           o.user \in Users, o.provider \in {"click", "paynet"}, o.amount \in Amounts,
           o.txn # NoTxn, ~TxnTaken(o.provider, o.txn, id),
           PayOrder(id, o)
    PROVE  Data'
<1>1. /\ WalletTypeOK'
      /\ orders' \in [Orders -> OrderRecord]
      /\ orders'[id].state = "paid"
      /\ <<orders'[id].user, orders'[id].provider, orders'[id].txn, orders'[id].amount,
           orders'[id].prepared>> = <<o.user, o.provider, o.txn, o.amount, o.prepared>>
      /\ \A x \in Orders : x # id => orders'[x] = orders[x]
      /\ LedgerExplainsBalance'
      /\ PaymentsCreditOnce'
      /\ BonusIsCreditedOnce'
  BY PayOrderStep DEF Data
<1>2. OrdersAreWhole'
  BY <1>1 DEF Data, OrdersAreWhole
<1>3. TxnsAreBoundOnce'
  BY <1>1 DEF Data, TxnsAreBoundOnce, TxnTaken
<1> QED BY <1>1, <1>2, <1>3 DEF Data

-----------------------------------------------------------------------------
(***************************************************************************)
(* Every action keeps Data.                                                *)
(***************************************************************************)

\* A typed state has typed orders and a bonus percent the proofs can use.
LEMMA OrderFacts ==
    ASSUME TypeOK, OrdersAreWhole, NEW id \in Orders
    PROVE  /\ orders \in [Orders -> OrderRecord]
           /\ orders[id] \in OrderRecord
           /\ orders[id].state \in States
           /\ orders[id].state = "none" => orders[id] = NoRow
           /\ orders[id].state # "none" => /\ orders[id].user \in Users
                                           /\ orders[id].provider \in {"click", "paynet"}
                                           /\ orders[id].amount \in Amounts
           /\ orders[id].state # "paid" => orders[id].bonus = 0
  BY DEF TypeOK, OrdersAreWhole, OrderRecord

\* A request about to attach, settle or cancel names an order of Click's.
LEMMA RequestFacts ==
    ASSUME TypeOK, OrdersAreWhole, RequestsHold, NEW h \in Handlers,
           req[h].pc \in {"attach", "settle", "cancel", "attached", "settled", "closed"}
    PROVE  LET id == req[h].order  txn == req[h].txn  o == orders[id] IN
           /\ id \in Orders /\ txn \in ClickTxns
           /\ txn # NoTxn
           /\ o \in OrderRecord /\ o.provider = "click" /\ o.state # "none"
           /\ o.user \in Users /\ o.amount \in Amounts
           /\ req[h].pc \in {"settle", "cancel", "settled", "closed"} => o.txn = txn
<1>1. RequestHolds(req[h])
  BY DEF RequestsHold
<1>2. req[h].order \in Orders /\ req[h].txn \in ClickTxns /\ orders[req[h].order].provider = "click"
      /\ (req[h].pc \in {"settle", "cancel", "settled", "closed"} => orders[req[h].order].txn = req[h].txn)
  BY <1>1 DEF RequestHolds
<1>3. req[h].txn # NoTxn
  BY <1>2, PaymentsAssumption DEF Txns
<1>4. orders[req[h].order].state # "none"
  BY <1>2, OrderFacts DEF NoRow
<1> QED BY <1>2, <1>3, <1>4, OrderFacts

LEMMA CreateOrderData ==
    ASSUME Inv, NEW u \in Users, NEW amount \in Amounts, NEW id \in Orders,
           CreateOrder(u, amount, id)
    PROVE  Data'
<1> DEFINE o == [NoRow EXCEPT !.state = "created", !.provider = "click",
                              !.user = u, !.amount = amount]
<1>1. Data /\ TypeOK /\ OrdersAreWhole
  BY DEF Inv, Data, TypeOK
<1>2. amount \in Nat
  BY PaymentsAssumption
<1>3. o \in OrderRecord /\ o.state = "created" /\ o.bonus = 0 /\ o.user = u
      /\ o.provider = "click" /\ o.amount = amount /\ o.txn = NoTxn
  BY <1>2 DEF OrderRecord, NoRow, States
<1>4. orders' = [orders EXCEPT ![id] = o] /\ wallet' = wallet /\ orders[id].state = "none"
  BY DEF CreateOrder
<1> HIDE DEF o
<1> QED BY <1>1, <1>3, <1>4, UnpaidOrderStep

LEMMA AttachData ==
    ASSUME Inv, NEW h \in Handlers, Attach(h)
    PROVE  Data'
<1> DEFINE id == req[h].order
           o == [orders[id] EXCEPT !.state = "pending", !.txn = req[h].txn, !.prepared = TRUE]
<1>1. Data /\ TypeOK /\ OrdersAreWhole /\ RequestsHold
  BY DEF Inv, Data, TypeOK
<1>2. /\ req[h].pc = "attach" /\ orders[id].state \in Open /\ ~TxnTaken("click", req[h].txn, id)
      /\ wallet' = wallet
      /\ orders' = [orders EXCEPT ![id].state = "pending", ![id].txn = req[h].txn,
                                  ![id].prepared = TRUE]
  BY DEF Attach, Attachable
<1>3. /\ id \in Orders /\ orders[id] \in OrderRecord /\ req[h].txn \in Txns
      /\ orders[id].provider = "click" /\ orders[id].user \in Users /\ orders[id].amount \in Amounts
      /\ orders[id].bonus = 0
  BY <1>1, <1>2, RequestFacts, OrderFacts DEF Open, Txns
<1>4. orders' = [orders EXCEPT ![id] = o]
  BY <1>1, <1>2, <1>3 DEF Data
<1>5. o \in OrderRecord /\ o.state = "pending" /\ o.bonus = 0 /\ o.user = orders[id].user
      /\ o.provider = "click" /\ o.amount = orders[id].amount /\ o.txn = req[h].txn
  BY <1>3 DEF OrderRecord, States
<1> HIDE DEF o, id
<1>6. orders[id].state # "paid"
  BY <1>2 DEF Open
<1> QED BY <1>1, <1>2, <1>3, <1>4, <1>5, <1>6, UnpaidOrderStep, ZenonT(60)

LEMMA CancelData ==
    ASSUME Inv, NEW h \in Handlers, Cancel(h)
    PROVE  Data'
<1> DEFINE id == req[h].order
           o == [orders[id] EXCEPT !.state = "cancelled", !.token = NoToken]
<1>1. Data /\ TypeOK /\ OrdersAreWhole /\ RequestsHold
  BY DEF Inv, Data, TypeOK
<1>2. CASE orders[id].state \notin Open
  <2>1. UNCHANGED <<wallet, orders>>
    BY <1>2 DEF Cancel
  <2> QED BY <1>1, <2>1, QuietStep
<1>3. CASE orders[id].state \in Open
  <2>1. /\ req[h].pc = "cancel" /\ wallet' = wallet
        /\ orders' = [orders EXCEPT ![id].state = "cancelled", ![id].token = NoToken]
    BY <1>3 DEF Cancel
  <2>2. /\ id \in Orders /\ orders[id] \in OrderRecord
        /\ orders[id].provider = "click" /\ orders[id].user \in Users /\ orders[id].amount \in Amounts
        /\ orders[id].bonus = 0
    BY <1>1, <1>3, <2>1, RequestFacts, OrderFacts DEF Open
  <2>3. orders' = [orders EXCEPT ![id] = o]
    BY <1>1, <2>1, <2>2 DEF Data
  <2>4. o \in OrderRecord /\ o.state = "cancelled" /\ o.bonus = 0 /\ o.user = orders[id].user
        /\ o.provider = "click" /\ o.amount = orders[id].amount /\ o.txn = orders[id].txn
    BY <2>2 DEF OrderRecord, States
  <2>5. o.txn # NoTxn => ~TxnTaken("click", o.txn, id)
    BY <1>1, <2>2, <2>4 DEF Data, TxnsAreBoundOnce, TxnTaken
  <2> HIDE DEF o, id
  <2>6. orders[id].state # "paid"
    BY <1>3 DEF Open
  <2> QED BY <1>1, <2>1, <2>2, <2>3, <2>4, <2>5, <2>6, UnpaidOrderStep, ZenonT(60)
<1> QED BY <1>2, <1>3

LEMMA SettleData ==
    ASSUME Inv, NEW h \in Handlers, Settle(h)
    PROVE  Data'
<1> DEFINE id == req[h].order
           o == orders[id]
<1>1. Data /\ TypeOK /\ OrdersAreWhole /\ RequestsHold
  BY DEF Inv, Data, TypeOK
<1>2. req[h].pc = "settle" /\ o.state \in Open /\ PayOrder(id, o)
  BY DEF Settle
<1>3. /\ id \in Orders /\ o \in OrderRecord /\ o.txn # NoTxn
      /\ o.provider = "click" /\ o.user \in Users /\ o.amount \in Amounts
  BY <1>1, <1>2, RequestFacts
<1>4. ~TxnTaken(o.provider, o.txn, id)
  BY <1>1, <1>3 DEF Data, TxnsAreBoundOnce, TxnTaken
<1>5. orders[id].state # "paid"
  BY <1>2 DEF Open
<1> HIDE DEF o, id
<1> QED BY <1>1, <1>2, <1>3, <1>4, <1>5, PaidOrderStep DEF o

LEMMA PaynetPerformData ==
    ASSUME Inv, NEW h \in Handlers, NEW u \in Users, NEW amount \in Amounts,
           NEW txn \in PaynetTxns, NEW id \in Orders, PaynetPerform(h, u, amount, txn, id)
    PROVE  Data'
<1> DEFINE o == [NoRow EXCEPT !.provider = "paynet", !.user = u,
                              !.amount = amount, !.txn = txn]
<1>1. Data /\ TypeOK /\ OrdersAreWhole
  BY DEF Inv, Data, TypeOK
<1>2. amount \in Nat /\ txn \in Txns /\ txn # NoTxn
  BY PaymentsAssumption DEF Txns
<1>3. o \in OrderRecord /\ o.user = u /\ o.provider = "paynet" /\ o.amount = amount /\ o.txn = txn
  BY <1>2, ZenonT(60) DEF OrderRecord, NoRow, States
<1>4. PayOrder(id, o) /\ orders[id].state = "none" /\ ~TxnTaken("paynet", txn, id)
  BY DEF PaynetPerform
<1> HIDE DEF o
<1>5. orders[id].state # "paid"
  BY <1>4
<1> QED BY <1>1, <1>2, <1>3, <1>4, <1>5, PaidOrderStep

-----------------------------------------------------------------------------
(***************************************************************************)
(* The steps of Next, by what they write.                                  *)
(***************************************************************************)

\* Steps of a handler that write neither an order nor a wallet.
QuietHandlerStep(h) ==
    \/ \E id \in Orders, txn \in ClickTxns, amount \in Amounts :
          \/ PrepareRequest(h, id, txn, amount)
          \/ \E prepareOf \in Orders, failed \in BOOLEAN :
                CompleteRequest(h, id, txn, amount, prepareOf, failed)
    \/ AttachConflict(h) \/ AttachMiss(h) \/ PrepareAnswer(h)
    \/ SettleMiss(h) \/ CompleteAnswer(h) \/ CancelAnswer(h)
    \/ \E txn \in PaynetTxns, code \in {"EXISTS", "STATE_PAID"} : PaynetFound(h, txn, code)
    \/ Reply(h) \/ Fail(h) \/ Die(h)

QuietOfficeStep ==
    \/ \E p \in Percents : SetBonusPercent(p)
    \/ \E u \in Users, b \in BOOLEAN : SetUserBan(u, b)

LEMMA StepKinds ==
    ASSUME [Next]_vars
    PROVE  \/ UNCHANGED vars
           \/ QuietOfficeStep
           \/ \E u \in Users, amount \in Amounts, id \in Orders : CreateOrder(u, amount, id)
           \/ \E h \in Handlers : \/ QuietHandlerStep(h)
                                  \/ Attach(h) \/ Settle(h) \/ Cancel(h)
                                  \/ \E u \in Users, amount \in Amounts, txn \in PaynetTxns,
                                        id \in Orders : PaynetPerform(h, u, amount, txn, id)
<1>1. ASSUME NEW h \in Handlers, HandlerStep(h)
      PROVE  \/ QuietHandlerStep(h)
             \/ Attach(h) \/ Settle(h) \/ Cancel(h)
             \/ \E u \in Users, amount \in Amounts, txn \in PaynetTxns,
                   id \in Orders : PaynetPerform(h, u, amount, txn, id)
  BY <1>1 DEF HandlerStep, ClickStep, PaynetStep, QuietHandlerStep
<1>2. ASSUME OfficeStep
      PROVE  \/ QuietOfficeStep
             \/ \E u \in Users, amount \in Amounts, id \in Orders : CreateOrder(u, amount, id)
  BY <1>2 DEF OfficeStep, QuietOfficeStep
<1> QED BY <1>1, <1>2 DEF Next

LEMMA QuietSteps ==
    /\ QuietOfficeStep \/ UNCHANGED vars => UNCHANGED <<wallet, orders, req>>
    /\ \A h \in Handlers : QuietHandlerStep(h) => UNCHANGED <<wallet, orders, banned, percent>>
<1>1. QuietOfficeStep \/ UNCHANGED vars => UNCHANGED <<wallet, orders, req>>
  BY DEF QuietOfficeStep, SetBonusPercent, SetUserBan, vars
<1>2. ASSUME NEW h \in Handlers, QuietHandlerStep(h)
      PROVE  UNCHANGED <<wallet, orders, banned, percent>>
  BY <1>2, ZenonT(60) DEF QuietHandlerStep, PrepareRequest, CompleteRequest, AttachConflict, AttachMiss,
          PrepareAnswer, SettleMiss, CompleteAnswer, CancelAnswer, PaynetFound, Reply, Fail, Die
<1> QED BY <1>1, <1>2

\* Every step keeps Data.
LEMMA DataStep ==
    ASSUME Inv, [Next]_vars
    PROVE  Data'
<1>1. Data
  BY DEF Inv, Data, TypeOK
<1>2. CASE QuietOfficeStep \/ UNCHANGED vars
  BY <1>1, <1>2, QuietSteps, QuietStep
<1>3. CASE \E h \in Handlers : QuietHandlerStep(h)
  BY <1>1, <1>3, QuietSteps, QuietStep
<1> QED BY <1>2, <1>3, StepKinds, CreateOrderData, AttachData, SettleData, CancelData,
           PaynetPerformData

\* Every step only moves orders forward.
LEMMA ForwardStep ==
    ASSUME Inv, [Next]_vars, NEW x \in Orders
    PROVE  OrderOnlyMovesForward(orders[x], orders'[x])
<1> USE DEF OrderOnlyMovesForward, Final, Open
<1>1. TypeOK /\ OrdersAreWhole /\ RequestsHold /\ orders \in [Orders -> OrderRecord]
  BY DEF Inv, TypeOK
<1>2. CASE orders'[x] = orders[x]
  BY <1>2
<1>3. ASSUME NEW u \in Users, NEW amount \in Amounts, NEW id \in Orders,
             CreateOrder(u, amount, id)
      PROVE  OrderOnlyMovesForward(orders[x], orders'[x])
  <2>1. CASE x = id
    BY <1>1, <1>3, <2>1, OrderFacts DEF CreateOrder, NoRow
  <2>2. CASE x # id
    BY <1>1, <1>2, <1>3, <2>2 DEF CreateOrder
  <2> QED BY <2>1, <2>2
<1>4. ASSUME NEW h \in Handlers, Attach(h)
      PROVE  OrderOnlyMovesForward(orders[x], orders'[x])
  <2>1. CASE x = req[h].order
    <3>1. orders[x] \in OrderRecord
      BY <1>1
    <3>2. /\ orders[x].state \in Open /\ orders[x].txn \in {NoTxn, req[h].txn}
          /\ orders' = [orders EXCEPT ![x].state = "pending", ![x].txn = req[h].txn,
                                      ![x].prepared = TRUE]
      BY <1>4, <2>1 DEF Attach, Attachable
    <3>3. orders'[x] = [orders[x] EXCEPT !.state = "pending", !.txn = req[h].txn,
                                         !.prepared = TRUE]
      BY <1>1, <3>2
    <3>4. /\ orders'[x].state = "pending" /\ orders'[x].txn = req[h].txn
          /\ orders'[x].prepared = TRUE /\ orders'[x].user = orders[x].user
          /\ orders'[x].amount = orders[x].amount /\ orders'[x].provider = orders[x].provider
      BY <3>1, <3>3, SMTT(40) DEF OrderRecord
    <3> QED BY <3>2, <3>4
  <2>2. CASE x # req[h].order
    BY <1>1, <1>2, <1>4, <2>2 DEF Attach
  <2> QED BY <2>1, <2>2
<1>5. ASSUME NEW h \in Handlers, Settle(h)
      PROVE  OrderOnlyMovesForward(orders[x], orders'[x])
  <2>1. CASE x = req[h].order
    <3> DEFINE o == orders[x]
               p == [o EXCEPT !.state = "paid", !.token = NoToken,
                              !.bonus = CreditedBonus(x, o.amount)]
    <3>1. orders[x] \in OrderRecord /\ orders[x].state \in Open
      BY <1>1, <1>5, <2>1 DEF Settle
    <3>2. orders' = [orders EXCEPT ![x] = p]
      BY <1>5, <2>1 DEF Settle, PayOrder
    <3>3. orders'[x] = p
      BY <1>1, <3>2
    <3>4. /\ p.state = "paid" /\ p.txn = orders[x].txn
          /\ p.prepared = orders[x].prepared /\ p.user = orders[x].user
          /\ p.amount = orders[x].amount /\ p.provider = orders[x].provider
      BY <3>1 DEF OrderRecord
    <3> HIDE DEF p
    <3> QED BY <3>1, <3>3, <3>4
  <2>2. CASE x # req[h].order
    BY <1>1, <1>2, <1>5, <2>2 DEF Settle, PayOrder
  <2> QED BY <2>1, <2>2
<1>6. ASSUME NEW h \in Handlers, Cancel(h)
      PROVE  OrderOnlyMovesForward(orders[x], orders'[x])
  <2>1. CASE x = req[h].order /\ orders[x].state \in Open
    <3>1. orders[x] \in OrderRecord
      BY <1>1
    <3>2. orders' = [orders EXCEPT ![x].state = "cancelled", ![x].token = NoToken]
      BY <1>6, <2>1 DEF Cancel
    <3>3. orders'[x] = [orders[x] EXCEPT !.state = "cancelled", !.token = NoToken]
      BY <1>1, <3>2
    <3>4. /\ orders'[x].state = "cancelled" /\ orders'[x].txn = orders[x].txn
          /\ orders'[x].prepared = orders[x].prepared /\ orders'[x].user = orders[x].user
          /\ orders'[x].amount = orders[x].amount /\ orders'[x].provider = orders[x].provider
      BY <3>1, <3>3, SMTT(40) DEF OrderRecord
    <3> QED BY <2>1, <3>4
  <2>2. CASE ~(x = req[h].order /\ orders[x].state \in Open)
    BY <1>1, <1>2, <1>6, <2>2, ZenonT(60) DEF Cancel
  <2> QED BY <2>1, <2>2
<1>7. ASSUME NEW h \in Handlers, NEW u \in Users, NEW amount \in Amounts,
             NEW txn \in PaynetTxns, NEW id \in Orders, PaynetPerform(h, u, amount, txn, id)
      PROVE  OrderOnlyMovesForward(orders[x], orders'[x])
  <2>1. CASE x = id
    <3> DEFINE o == [NoRow EXCEPT !.provider = "paynet", !.user = u,
                                  !.amount = amount, !.txn = txn]
    <3>1. orders'[x] = [o EXCEPT !.state = "paid", !.token = NoToken,
                                 !.bonus = CreditedBonus(id, o.amount)]
      BY <1>1, <1>7, <2>1 DEF PaynetPerform, PayOrder
    <3>2. orders'[x].state = "paid"
      BY <3>1 DEF NoRow
    <3>3. orders[x] = NoRow
      BY <1>1, <1>7, <2>1, OrderFacts DEF PaynetPerform
    <3> QED BY <3>2, <3>3 DEF NoRow
  <2>2. CASE x # id
    BY <1>1, <1>2, <1>7, <2>2 DEF PaynetPerform, PayOrder
  <2> QED BY <2>1, <2>2
<1> QED BY <1>2, <1>3, <1>4, <1>5, <1>6, <1>7, StepKinds, QuietSteps

-----------------------------------------------------------------------------
(***************************************************************************)
(* What the handlers know.                                                 *)
(***************************************************************************)

\* Orders that only move forward leave what a handler knows true.
LEMMA RequestFrame ==
    ASSUME Inv, [Next]_vars, NEW h \in Handlers, req'[h] = req[h]
    PROVE  RequestHolds(req[h])'
<1> DEFINE r == req[h]
           id == req[h].order
<1>1. RequestHolds(r) /\ OrdersAreWhole /\ r \in Request
  BY DEF Inv, RequestsHold, TypeOK
<1>2. \A x \in Orders : OrderOnlyMovesForward(orders[x], orders'[x])
  BY ForwardStep
<1>3. ASSUME id \in Orders, r.txn \in ClickTxns
      PROVE  /\ orders[id].provider = "click" => orders'[id].provider = "click"
             /\ orders[id].txn = r.txn => orders'[id].txn = r.txn
             /\ orders[id].prepared => orders'[id].prepared
             /\ orders[id].state = "paid" => orders'[id].state = "paid"
             /\ orders[id].state = "cancelled" => orders'[id].state = "cancelled"
  <2>1. r.txn # NoTxn
    BY <1>3, PaymentsAssumption DEF Txns
  <2>2. orders[id].provider = "click" => orders[id].state # "none"
    BY <1>1, <1>3 DEF OrdersAreWhole, NoRow
  <2> QED BY <1>2, <1>3, <2>1, <2>2 DEF OrderOnlyMovesForward, Final
<1>4. PaynetPaid(r.txn) => PaynetPaid(r.txn)'
  <2> SUFFICES ASSUME NEW x \in Orders, orders[x].provider = "paynet", orders[x].txn = r.txn,
                      orders[x].state = "paid"
               PROVE  orders'[x].provider = "paynet" /\ orders'[x].txn = r.txn
                      /\ orders'[x].state = "paid"
    BY DEF PaynetPaid
  <2> QED BY <1>1, <1>2 DEF OrderOnlyMovesForward, Final, OrdersAreWhole
<1>5. r.pc = "reply" => AnswerHolds(r)'
  BY <1>1, <1>3, <1>4 DEF RequestHolds, AnswerHolds
<1> QED BY <1>1, <1>3, <1>5 DEF RequestHolds, AnswerHolds, Final

\* A handler's own step establishes what it knows next.
LEMMA QuietHandlerKnows ==
    ASSUME Inv, NEW h \in Handlers, QuietHandlerStep(h)
    PROVE  /\ req'[h] \in Request
           /\ req' = [req EXCEPT ![h] = req'[h]]
           /\ RequestHolds(req[h])'
<1> DEFINE id == req[h].order
           r == req'[h]
<1>1. /\ TypeOK /\ OrdersAreWhole /\ RequestsHold /\ req \in [Handlers -> Request]
      /\ req[h] \in Request
  BY DEF Inv, TypeOK
<1>2. orders' = orders
  BY QuietSteps
<1>3. Idle \in Request /\ Idle = [pc |-> "idle", order |-> NoOrder, txn |-> NoTxn,
                                  hit |-> FALSE, code |-> "none"]
  BY DEF Idle, Request, Codes
<1> USE DEF Final
<1>4. ASSUME NEW o \in Orders, NEW txn \in ClickTxns, NEW amount \in Amounts,
             PrepareRequest(h, o, txn, amount)
      PROVE  /\ r \in Request /\ req' = [req EXCEPT ![h] = req'[h]]
             /\ RequestHolds(req[h])'
  <2>1. r = [Idle EXCEPT !.pc = "attach", !.order = o, !.txn = txn]
        /\ req' = [req EXCEPT ![h] = req'[h]]
    BY <1>1, <1>4 DEF PrepareRequest, Serve
  <2>2. r = [pc |-> "attach", order |-> o, txn |-> txn, hit |-> FALSE, code |-> "none"]
    BY <2>1, <1>3
  <2>3. r \in Request
    BY <2>2 DEF Request, Codes, Txns
  <2> QED BY <2>1, <2>2, <2>3, <1>2, <1>4 DEF RequestHolds, PrepareRequest, Accepted
<1>5. ASSUME NEW o \in Orders, NEW txn \in ClickTxns, NEW amount \in Amounts,
             NEW prepareOf \in Orders, NEW failed \in BOOLEAN,
             CompleteRequest(h, o, txn, amount, prepareOf, failed)
      PROVE  /\ r \in Request /\ req' = [req EXCEPT ![h] = req'[h]]
             /\ RequestHolds(req[h])'
  <2> DEFINE pc == IF failed THEN "cancel" ELSE "settle"
  <2>1. r = [Idle EXCEPT !.pc = pc, !.order = o, !.txn = txn]
        /\ req' = [req EXCEPT ![h] = req'[h]]
    BY <1>1, <1>5 DEF CompleteRequest, Serve
  <2>2. r = [pc |-> pc, order |-> o, txn |-> txn, hit |-> FALSE, code |-> "none"]
    BY <2>1, <1>3
  <2>3. r \in Request
    BY <2>2 DEF Request, Codes, Txns
  <2>4. orders'[o].provider = "click" /\ orders'[o].txn = txn
    BY <1>2, <1>5 DEF CompleteRequest, Accepted, MatchesPrepare
  <2> QED BY <2>1, <2>2, <2>3, <2>4 DEF RequestHolds
<1>6. CASE AttachConflict(h)
  <2>1. r = [req[h] EXCEPT !.pc = "reply", !.code = "UPDATE_FAILED"]
        /\ req' = [req EXCEPT ![h] = req'[h]]
    BY <1>1, <1>6 DEF AttachConflict, Answer
  <2>2. r \in Request /\ r.pc = "reply" /\ r.code = "UPDATE_FAILED"
    BY <1>1, <2>1 DEF Request, Codes
  <2> QED BY <2>1, <2>2 DEF RequestHolds, AnswerHolds
<1>7. CASE AttachMiss(h)
  <2>1. r = [req[h] EXCEPT !.pc = "attached", !.hit = FALSE]
        /\ req' = [req EXCEPT ![h] = req'[h]] 
    BY <1>1, <1>7 DEF AttachMiss, Goto
  <2>2. r \in Request /\ r.pc = "attached" /\ r.hit = FALSE /\ r.order = id /\ r.txn = req[h].txn
    BY <1>1, <2>1 DEF Request
  <2>3. id \in Orders /\ req[h].txn \in ClickTxns /\ orders[id].provider = "click"
    BY <1>1, <1>7, RequestFacts DEF AttachMiss
  <2> QED BY <1>2, <2>1, <2>2, <2>3 DEF RequestHolds
<1>8. CASE PrepareAnswer(h)
  <2> DEFINE code == IF (req[h].hit \/ (orders[id].state \in Final /\ orders[id].txn = req[h].txn))
                          /\ orders[id].prepared THEN "PREPARED" ELSE "UPDATE_FAILED"
  <2>1. r = [req[h] EXCEPT !.pc = "reply", !.code = code]
        /\ req' = [req EXCEPT ![h] = req'[h]]
    BY <1>1, <1>8, SMTT(40) DEF PrepareAnswer, Answer
  <2>2. r \in Request /\ r.pc = "reply" /\ r.code = code /\ r.order = id /\ r.txn = req[h].txn
    BY <1>1, <2>1 DEF Request, Codes
  <2>3. id \in Orders /\ req[h].txn \in ClickTxns
    BY <1>1, <1>8, RequestFacts DEF PrepareAnswer
  <2>4. RequestHolds(req[h]) /\ req[h].pc = "attached"
    BY <1>1, <1>8 DEF RequestsHold, PrepareAnswer
  <2>5. code = "PREPARED" => orders[id].txn = req[h].txn /\ orders[id].prepared
    BY <2>4 DEF RequestHolds
  <2>6. code \in {"PREPARED", "UPDATE_FAILED"}
    OBVIOUS
  <2> HIDE DEF code
  <2> QED BY <1>2, <2>1, <2>2, <2>3, <2>5, <2>6 DEF RequestHolds, AnswerHolds
<1>9. CASE SettleMiss(h)
  <2>1. r = [req[h] EXCEPT !.pc = "settled", !.hit = FALSE]
        /\ req' = [req EXCEPT ![h] = req'[h]]
    BY <1>1, <1>9 DEF SettleMiss, Goto
  <2>2. r \in Request /\ r.pc = "settled" /\ r.hit = FALSE /\ r.order = id /\ r.txn = req[h].txn
    BY <1>1, <2>1 DEF Request
  <2>3. id \in Orders /\ req[h].txn \in ClickTxns /\ orders[id].provider = "click"
        /\ orders[id].txn = req[h].txn /\ orders[id].state # "none"
    BY <1>1, <1>9, RequestFacts DEF SettleMiss
  <2>4. orders[id].state \in Final
    BY <1>1, <1>9, <2>3, OrderFacts DEF SettleMiss, States, Open
  <2> QED BY <1>2, <2>1, <2>2, <2>3, <2>4 DEF RequestHolds
<1>10. CASE CompleteAnswer(h)
  <2> DEFINE code == IF req[h].hit THEN "COMPLETED"
                     ELSE IF orders[id].state = "cancelled" THEN "CANCELLED"
                     ELSE "ALREADY_PAID"
  <2>1. r = [req[h] EXCEPT !.pc = "reply", !.code = code]
        /\ req' = [req EXCEPT ![h] = req'[h]]
    BY <1>1, <1>10 DEF CompleteAnswer, Answer
  <2>2. r \in Request /\ r.pc = "reply" /\ r.code = code /\ r.order = id /\ r.txn = req[h].txn
    BY <1>1, <2>1 DEF Request, Codes
  <2>3. id \in Orders /\ req[h].txn \in ClickTxns /\ orders[id].txn = req[h].txn
    BY <1>1, <1>10, RequestFacts DEF CompleteAnswer
  <2>4. RequestHolds(req[h]) /\ req[h].pc = "settled"
    BY <1>1, <1>10 DEF RequestsHold, CompleteAnswer
  <2>5. /\ code \in {"COMPLETED", "CANCELLED", "ALREADY_PAID"}
        /\ code = "CANCELLED" => orders[id].state = "cancelled"
        /\ code \in {"COMPLETED", "ALREADY_PAID"} => orders[id].state = "paid"
    BY <2>4 DEF RequestHolds
  <2> HIDE DEF code
  <2> QED BY <1>2, <2>1, <2>2, <2>3, <2>5 DEF RequestHolds, AnswerHolds
<1>11. CASE CancelAnswer(h)
  <2> DEFINE code == IF ~req[h].hit /\ orders[id].state = "paid" THEN "ALREADY_PAID" ELSE "CANCELLED"
  <2>1. r = [req[h] EXCEPT !.pc = "reply", !.code = code]
        /\ req' = [req EXCEPT ![h] = req'[h]]
    BY <1>1, <1>11 DEF CancelAnswer, Answer
  <2>2. r \in Request /\ r.pc = "reply" /\ r.code = code /\ r.order = id /\ r.txn = req[h].txn
    BY <1>1, <2>1 DEF Request, Codes
  <2>3. id \in Orders /\ req[h].txn \in ClickTxns /\ orders[id].txn = req[h].txn
    BY <1>1, <1>11, RequestFacts DEF CancelAnswer
  <2>4. RequestHolds(req[h]) /\ req[h].pc = "closed"
    BY <1>1, <1>11 DEF RequestsHold, CancelAnswer
  <2>5. /\ code \in {"CANCELLED", "ALREADY_PAID"}
        /\ code = "CANCELLED" => orders[id].state = "cancelled"
        /\ code = "ALREADY_PAID" => orders[id].state = "paid"
    BY <2>4 DEF RequestHolds
  <2> HIDE DEF code
  <2> QED BY <1>2, <2>1, <2>2, <2>3, <2>5 DEF RequestHolds, AnswerHolds
<1>12. ASSUME NEW txn \in PaynetTxns, NEW code \in {"EXISTS", "STATE_PAID"}, PaynetFound(h, txn, code)
       PROVE  /\ r \in Request /\ req' = [req EXCEPT ![h] = req'[h]]
              /\ RequestHolds(req[h])'
  <2>1. r = [Idle EXCEPT !.pc = "reply", !.txn = txn, !.code = code]
        /\ req' = [req EXCEPT ![h] = req'[h]]
    BY <1>1, <1>12 DEF PaynetFound
  <2>2. r = [pc |-> "reply", order |-> NoOrder, txn |-> txn, hit |-> FALSE, code |-> code]
    BY <2>1, <1>3
  <2>3. r \in Request
    BY <2>2 DEF Request, Codes, Txns
  <2>4. PaynetPaid(txn)'
    BY <1>2, <1>12 DEF PaynetFound, PaynetPaid
  <2>5. PaynetPaid(req[h].txn)'
    BY <2>2, <2>4 DEF PaynetPaid
  <2> QED BY <2>1, <2>2, <2>3, <2>5 DEF RequestHolds, AnswerHolds
<1>13. CASE Reply(h) \/ Die(h)
  <2>1. r = Idle /\ req' = [req EXCEPT ![h] = req'[h]]
    BY <1>1, <1>13 DEF Reply, Die
  <2> QED BY <2>1, <1>3 DEF RequestHolds
<1>14. CASE Fail(h)
  <2>1. r = [req[h] EXCEPT !.pc = "reply", !.code = "UPDATE_FAILED"]
        /\ req' = [req EXCEPT ![h] = req'[h]]
    BY <1>1, <1>14 DEF Fail, Answer
  <2>2. r \in Request /\ r.pc = "reply" /\ r.code = "UPDATE_FAILED"
    BY <1>1, <2>1 DEF Request, Codes
  <2> QED BY <2>1, <2>2 DEF RequestHolds, AnswerHolds
<1> QED BY <1>4, <1>5, <1>6, <1>7, <1>8, <1>9, <1>10, <1>11, <1>12, <1>13, <1>14
        DEF QuietHandlerStep

\* The same for the steps that write an order.
LEMMA WritingHandlerKnows ==
    ASSUME Inv, NEW h \in Handlers,
           \/ Attach(h) \/ Settle(h) \/ Cancel(h)
           \/ \E u \in Users, amount \in Amounts, txn \in PaynetTxns,
                 id \in Orders : PaynetPerform(h, u, amount, txn, id)
    PROVE  /\ req'[h] \in Request
           /\ req' = [req EXCEPT ![h] = req'[h]]
           /\ RequestHolds(req[h])'
<1> DEFINE id == req[h].order
           txn == req[h].txn
           r == req'[h]
<1>1. /\ TypeOK /\ OrdersAreWhole /\ RequestsHold /\ req \in [Handlers -> Request]
      /\ req[h] \in Request /\ orders \in [Orders -> OrderRecord]
  BY DEF Inv, TypeOK
<1> USE DEF Final
<1>2. CASE Attach(h)
  <2>1. /\ id \in Orders /\ orders[id] \in OrderRecord /\ orders[id].provider = "click"
        /\ txn \in ClickTxns
    BY <1>1, <1>2, RequestFacts DEF Attach
  <2>2. r = [req[h] EXCEPT !.pc = "attached", !.hit = TRUE]
        /\ req' = [req EXCEPT ![h] = req'[h]]
    BY <1>1, <1>2 DEF Attach, Goto
  <2>3. r \in Request /\ r.pc = "attached" /\ r.order = id /\ r.txn = txn
    BY <1>1, <2>2 DEF Request
  <2>4. orders'[id] = [orders[id] EXCEPT !.state = "pending", !.txn = txn, !.prepared = TRUE]
    BY <1>1, <1>2, <2>1 DEF Attach
  <2>5. orders'[id].provider = "click" /\ orders'[id].txn = txn /\ orders'[id].prepared
    BY <2>1, <2>4 DEF OrderRecord
  <2> QED BY <2>1, <2>2, <2>3, <2>5 DEF RequestHolds
<1>3. CASE Settle(h)
  <2>1. /\ id \in Orders /\ orders[id] \in OrderRecord /\ orders[id].provider = "click"
        /\ txn \in ClickTxns /\ orders[id].txn = txn
    BY <1>1, <1>3, RequestFacts DEF Settle
  <2>2. r = [req[h] EXCEPT !.pc = "settled", !.hit = TRUE]
        /\ req' = [req EXCEPT ![h] = req'[h]]
    BY <1>1, <1>3 DEF Settle, Goto
  <2>3. r \in Request /\ r.pc = "settled" /\ r.hit /\ r.order = id /\ r.txn = txn
    BY <1>1, <2>2 DEF Request
  <2>4. orders'[id] = [orders[id] EXCEPT !.state = "paid", !.token = NoToken,
                          !.bonus = CreditedBonus(id, orders[id].amount)]
    BY <1>1, <1>3, <2>1 DEF Settle, PayOrder
  <2>5. orders'[id].provider = "click" /\ orders'[id].txn = txn /\ orders'[id].state = "paid"
    BY <2>1, <2>4 DEF OrderRecord
  <2> QED BY <2>1, <2>2, <2>3, <2>5 DEF RequestHolds
<1>4. CASE Cancel(h)
  <2> DEFINE open == orders[id].state \in Open
  <2>1. /\ id \in Orders /\ orders[id] \in OrderRecord /\ orders[id].provider = "click"
        /\ txn \in ClickTxns /\ orders[id].txn = txn /\ orders[id].state # "none"
    BY <1>1, <1>4, RequestFacts DEF Cancel
  <2>2. r = [req[h] EXCEPT !.pc = "closed", !.hit = open]
        /\ req' = [req EXCEPT ![h] = req'[h]]
    BY <1>1, <1>4 DEF Cancel, Goto
  <2>3. r \in Request /\ r.pc = "closed" /\ r.hit = open /\ r.order = id /\ r.txn = txn
    <3>1. open \in BOOLEAN
      OBVIOUS
    <3> HIDE DEF open
    <3> QED BY <1>1, <2>2, <3>1 DEF Request
  <2>4. CASE open
    <3>1. orders'[id] = [orders[id] EXCEPT !.state = "cancelled", !.token = NoToken]
      BY <1>1, <1>4, <2>1, <2>4 DEF Cancel
    <3>2. orders'[id].provider = "click" /\ orders'[id].txn = txn
          /\ orders'[id].state = "cancelled"
      BY <2>1, <3>1 DEF OrderRecord
    <3> QED BY <2>1, <2>2, <2>3, <2>4, <3>2 DEF RequestHolds
  <2>5. CASE ~open
    <3>1. orders'[id] = orders[id]
      BY <1>4, <2>5 DEF Cancel
    <3>2. orders[id].state \in Final
      BY <1>1, <2>1, <2>5, OrderFacts DEF States, Open
    <3> QED BY <2>1, <2>2, <2>3, <2>5, <3>1, <3>2 DEF RequestHolds
  <2> QED BY <2>4, <2>5
<1>5. ASSUME NEW u \in Users, NEW amount \in Amounts, NEW t \in PaynetTxns, NEW o \in Orders,
             PaynetPerform(h, u, amount, t, o)
      PROVE  /\ req'[h] \in Request
             /\ req' = [req EXCEPT ![h] = req'[h]]
             /\ RequestHolds(req[h])'
  <2> DEFINE q == [NoRow EXCEPT !.provider = "paynet", !.user = u, !.amount = amount, !.txn = t]
  <2>1. r = [Idle EXCEPT !.pc = "reply", !.order = o, !.txn = t, !.code = "PERFORMED"]
        /\ req' = [req EXCEPT ![h] = req'[h]]
    BY <1>1, <1>5 DEF PaynetPerform
  <2>2. r = [pc |-> "reply", order |-> o, txn |-> t, hit |-> FALSE, code |-> "PERFORMED"]
    BY <2>1 DEF Idle
  <2>3. r \in Request
    BY <2>2 DEF Request, Codes, Txns
  <2>4. orders'[o] = [q EXCEPT !.state = "paid", !.token = NoToken,
                               !.bonus = CreditedBonus(o, q.amount)]
    BY <1>1, <1>5 DEF PaynetPerform, PayOrder
  <2>5. orders'[o].provider = "paynet" /\ orders'[o].txn = t /\ orders'[o].state = "paid"
    BY <2>4 DEF NoRow
  <2>6. PaynetPaid(req[h].txn)'
    BY <2>2, <2>5 DEF PaynetPaid
  <2> QED BY <2>1, <2>2, <2>3, <2>6 DEF RequestHolds, AnswerHolds
<1> QED BY <1>2, <1>3, <1>4, <1>5

\* Every step keeps what every handler knows.
LEMMA RequestsStep ==
    ASSUME Inv, [Next]_vars
    PROVE  (req \in [Handlers -> Request])' /\ RequestsHold'
<1>1. req \in [Handlers -> Request]
  BY DEF Inv, TypeOK
<1>2. CASE req' = req
  BY <1>1, <1>2, RequestFrame DEF RequestsHold
<1>3. ASSUME NEW h \in Handlers,
             \/ QuietHandlerStep(h)
             \/ Attach(h) \/ Settle(h) \/ Cancel(h)
             \/ \E u \in Users, amount \in Amounts, txn \in PaynetTxns,
                   id \in Orders : PaynetPerform(h, u, amount, txn, id)
      PROVE  (req \in [Handlers -> Request])' /\ RequestsHold'
  <2>1. /\ req'[h] \in Request
        /\ req' = [req EXCEPT ![h] = req'[h]]
        /\ RequestHolds(req[h])'
    BY <1>3, QuietHandlerKnows, WritingHandlerKnows
  <2>2. req' \in [Handlers -> Request]
    BY <1>1, <2>1
  <2>3. \A g \in Handlers : g # h => req'[g] = req[g]
    BY <1>1, <2>1
  <2>4. ASSUME NEW g \in Handlers PROVE RequestHolds(req[g])'
    BY <2>1, <2>3, RequestFrame
  <2> QED BY <2>2, <2>4 DEF RequestsHold
<1>4. CASE \E u \in Users, amount \in Amounts, id \in Orders : CreateOrder(u, amount, id)
  BY <1>2, <1>4 DEF CreateOrder
<1> QED BY <1>2, <1>3, <1>4, StepKinds, QuietSteps

-----------------------------------------------------------------------------
(***************************************************************************)
(* The theorems.                                                           *)
(***************************************************************************)
LEMMA InitInv == Init => Inv
<1> SUFFICES ASSUME Init PROVE Inv
  OBVIOUS
<1> USE DEF Init, WalletInit, EmptyWallet, NoRow, Idle
<1>1. TypeOK
  <2>1. EmptyWallet \in WalletRecord
    BY DEF WalletRecord, Never
  <2>2. NoRow \in OrderRecord
    BY DEF OrderRecord, States
  <2>3. Idle \in Request
    BY DEF Request, Codes
  <2> QED BY <2>1, <2>2, <2>3 DEF TypeOK, WalletTypeOK
<1>2. OrdersAreWhole /\ TxnsAreBoundOnce
  BY DEF OrdersAreWhole, TxnsAreBoundOnce
<1>3. RequestsHold
  BY DEF RequestsHold, RequestHolds
<1>4. LedgerExplainsBalance
  <2>1. Len(<<>>) = 0 /\ 1..0 = {}
    OBVIOUS
  <2>2. \A u \in Users : wallet[u].balance = 0 /\ wallet[u].rows = <<>>
    OBVIOUS
  <2>3. ASSUME NEW u \in Users PROVE Explained(wallet[u])
    BY <2>1, <2>2 DEF Explained, BalanceAfter
  <2> QED BY <2>3 DEF LedgerExplainsBalance
<1>5. PaymentsCreditOnce
  BY DEF PaymentsCreditOnce, PaidOrdersAreCredited, CreditsArePaidOrders
<1>6. BonusIsCreditedOnce
  BY DEF BonusIsCreditedOnce
<1> QED BY <1>1, <1>2, <1>3, <1>4, <1>5, <1>6 DEF Inv

LEMMA NextInv == Inv /\ [Next]_vars => Inv'
<1> SUFFICES ASSUME Inv, [Next]_vars PROVE Inv'
  OBVIOUS
<1>1. Data'
  BY DataStep
<1>2. (req \in [Handlers -> Request])' /\ RequestsHold'
  BY RequestsStep
<1>3. banned' \in [Users -> BOOLEAN] /\ percent' \in Percents
  <2>1. banned \in [Users -> BOOLEAN] /\ percent \in Percents
    BY DEF Inv, TypeOK
  <2>2. CASE QuietOfficeStep \/ UNCHANGED vars
    BY <2>1, <2>2 DEF QuietOfficeStep, SetBonusPercent, SetUserBan, vars
  <2>3. CASE ~(QuietOfficeStep \/ UNCHANGED vars)
    <3>1. UNCHANGED <<banned, percent>>
      BY <2>3, StepKinds, QuietSteps, ZenonT(60)
         DEF CreateOrder, Attach, Settle, Cancel, PaynetPerform
    <3> QED BY <2>1, <3>1
  <2> QED BY <2>2, <2>3
<1> QED BY <1>1, <1>2, <1>3 DEF Inv, Data, TypeOK

\* The inductive invariant holds in every reachable state.
THEOREM Invariant == Spec => []Inv
<1>1. Init => Inv
  BY InitInv
<1>2. Inv /\ [Next]_vars => Inv'
  BY NextInv
<1> QED BY <1>1, <1>2, PTL DEF Spec

\* Type correctness: balances stay integers, ledgers stay sequences of rows,
\* orders and requests stay in their state machines' states.
THEOREM TypeCorrect == Spec => []TypeOK
<1>1. Inv => TypeOK
  BY DEF Inv
<1> QED BY <1>1, Invariant, PTL

\* No interleaving of callbacks, retries, failures and crashes lets a balance
\* and its ledger part (ledger.py's invariants on balance_after and on the sum).
THEOREM LedgerExplains == Spec => []LedgerExplainsBalance
<1>1. Inv => LedgerExplainsBalance
  BY DEF Inv
<1> QED BY <1>1, Invariant, PTL

\* settle_order and PerformTransaction credit a paid order exactly once, and
\* nothing else ever credits a top-up.
THEOREM CreditOnce == Spec => []PaymentsCreditOnce
<1>1. Inv => PaymentsCreditOnce
  BY DEF Inv
<1> QED BY <1>1, Invariant, PTL

\* credit_topup pays the bonus it stores in bonus_amount, once.
THEOREM BonusOnce == Spec => []BonusIsCreditedOnce
<1>1. Inv => BonusIsCreditedOnce
  BY DEF Inv
<1> QED BY <1>1, Invariant, PTL

\* One provider transaction is bound to one order (the unique index of m027
\* together with attach_transaction's conditional UPDATE).
THEOREM TxnsBoundOnce == Spec => []TxnsAreBoundOnce
<1>1. Inv => TxnsAreBoundOnce
  BY DEF Inv
<1> QED BY <1>1, Invariant, PTL

\* What the Shop API and Paynet's endpoint answer is true when it is sent.
THEOREM AnswersAreTrue == Spec => []AnswersHold
<1>1. Inv => AnswersHold
  BY DEF Inv, RequestsHold, RequestHolds, AnswersHold
<1> QED BY <1>1, Invariant, PTL

\* paid and cancelled are final, and a bound transaction is never rebound.
THEOREM OrdersMoveForward == Spec => OrdersOnlyMoveForward
<1>1. Inv /\ [Next]_vars =>
        [\A id \in Orders : OrderOnlyMovesForward(orders[id], orders'[id])]_orders
  BY ForwardStep
<1> QED BY <1>1, Invariant, PTL DEF Spec, OrdersOnlyMoveForward

-----------------------------------------------------------------------------
(***************************************************************************)
(* Payments implements TopUps.                                             *)
(***************************************************************************)
\* What an amount may be worth.
WorthsOf == [a \in Amounts |-> {a + PaymentBonus(a, p) : p \in Percents}]

-----------------------------------------------------------------------------
\* A credit adds the amount and the bonus to the balance.
LEMMA CreditBalance ==
    ASSUME NEW w \in WalletRecord, NEW id, NEW o
    PROVE  CreditTopup(w, id, o).balance =
             IF CreditedBonus(id, o.amount) > 0
             THEN w.balance + o.amount + CreditedBonus(id, o.amount)
             ELSE w.balance + o.amount
<1> DEFINE b == CreditedBonus(id, o.amount)
           topped == ApplyBalanceChange(w, "topup", o.amount, TopupRef(id, o))
           both == ApplyBalanceChange(topped, "topup_bonus", b, BonusRef(id))
<1>1. topped.balance = w.balance + o.amount /\ "balance" \in DOMAIN topped
  BY DEF ApplyBalanceChange, WalletRecord
<1>2. both.balance = topped.balance + b
  BY <1>1 DEF ApplyBalanceChange, WalletRecord
<1>3. CreditTopup(w, id, o) = IF b > 0 THEN both ELSE topped
  BY DEF CreditTopup
<1> HIDE DEF b, topped, both
<1>4. CreditTopup(w, id, o).balance = IF b > 0 THEN w.balance + o.amount + b
                                      ELSE w.balance + o.amount
  BY <1>1, <1>2, <1>3
<1> QED BY <1>4 DEF b

\* An order that is not paid has no bonus row yet, so its bonus is not dropped.
LEMMA BonusOfUnpaid ==
    ASSUME Inv, NEW id \in Orders, orders[id].state # "paid", NEW amount \in Amounts
    PROVE  CreditedBonus(id, amount) = PaymentBonus(amount, percent)
<1>1. ~RefUsed("topup_bonus", BonusRef(id))
  BY DEF Inv, BonusIsCreditedOnce, RefUsed, BonusRef
<1> QED BY <1>1 DEF CreditedBonus

\* Making an order paid adds its worth to its owner's money.
LEMMA PayOrderEarns ==
    ASSUME Inv, NEW id \in Orders, orders[id].state # "paid",
           NEW o \in OrderRecord, o.user \in Users, o.amount \in Amounts, PayOrder(id, o)
    PROVE  /\ Promise!Earn(o.user, o.amount)
           /\ orders'[id].state = "paid" /\ orders'[id].user = o.user
           /\ orders'[id].amount = o.amount
           /\ \A x \in Orders : x # id => orders'[x] = orders[x]
<1> DEFINE w == wallet[o.user]
           b == PaymentBonus(o.amount, percent)
           worth == o.amount + b
<1>1. /\ w \in WalletRecord /\ wallet \in [Users -> WalletRecord]
      /\ percent \in Percents /\ percent \in 0..50
      /\ o.amount \in Nat /\ orders \in [Orders -> OrderRecord]
  BY PaymentsAssumption DEF Inv, TypeOK, WalletTypeOK
<1>2. b \in Nat
  BY <1>1, BonusIsNat
<1>3. CreditedBonus(id, o.amount) = b
  BY BonusOfUnpaid
<1>4. wallet' = [wallet EXCEPT ![o.user] = CreditTopup(w, id, o)]
  BY DEF PayOrder
<1>5. w.balance \in Int
  BY <1>1 DEF WalletRecord
<1> HIDE DEF b
<1>6. CreditTopup(w, id, o).balance = w.balance + worth
  BY <1>1, <1>2, <1>3, <1>5, CreditBalance
<1>7. worth \in WorthsOf[o.amount]
  BY <1>1 DEF WorthsOf, b
<1>8. [u \in Users |-> wallet'[u].balance]
        = [[u \in Users |-> wallet[u].balance] EXCEPT ![o.user] = @ + worth]
  BY <1>1, <1>4, <1>6
<1>9. Promise!Earn(o.user, o.amount)
  BY <1>7, <1>8 DEF Promise!Earn, WorthsOf
<1>10. orders' = [orders EXCEPT ![id] =
                    [o EXCEPT !.state = "paid", !.token = NoToken,
                              !.bonus = CreditedBonus(id, o.amount)]]
  BY DEF PayOrder
<1>11. orders'[id].state = "paid" /\ orders'[id].user = o.user /\ orders'[id].amount = o.amount
  BY <1>1, <1>10 DEF OrderRecord
<1>12. \A x \in Orders : x # id => orders'[x] = orders[x]
  BY <1>1, <1>10
<1> QED BY <1>9, <1>11, <1>12

-----------------------------------------------------------------------------
Abstract == Promise!abstractVars

\* A step that keeps what TopUps sees of every order, and every wallet.
LEMMA UnseenStep ==
    ASSUME wallet' = wallet,
           \A x \in Orders : /\ orders'[x].user = orders[x].user
                             /\ orders'[x].amount = orders[x].amount
                             /\ StatusOf(orders'[x].state) = StatusOf(orders[x].state)
    PROVE  UNCHANGED Abstract
<1>1. [x \in Orders |-> StatusOf(orders'[x].state)] = [x \in Orders |-> StatusOf(orders[x].state)]
  OBVIOUS
<1>2. [x \in Orders |-> orders'[x].user] = [x \in Orders |-> orders[x].user]
  OBVIOUS
<1>3. [x \in Orders |-> orders'[x].amount] = [x \in Orders |-> orders[x].amount]
  OBVIOUS
<1> QED BY <1>1, <1>2, <1>3 DEF Abstract, Promise!abstractVars, StatusOf

\* A step that changes the status of one order.
LEMMA StatusStep ==
    ASSUME NEW id \in Orders, NEW state,
           StatusOf(orders'[id].state) = state,
           \A x \in Orders : x # id => orders'[x] = orders[x]
    PROVE  Promise!Become(id, state)
<1>1. [x \in Orders |-> StatusOf(orders'[x].state)]
        = [[x \in Orders |-> StatusOf(orders[x].state)] EXCEPT ![id] = state]
  OBVIOUS
<1> QED BY <1>1 DEF Promise!Become, StatusOf

\* A step that keeps owners and prices, or sets those of one order.
LEMMA AskStep ==
    ASSUME NEW id \in Orders, NEW u, NEW amount,
           orders'[id].user = u, orders'[id].amount = amount,
           \A x \in Orders : x # id => orders'[x] = orders[x]
    PROVE  /\ Promise!Ask(id, u, amount)
           /\ orders[id].user = u /\ orders[id].amount = amount =>
                /\ [x \in Orders |-> orders'[x].user] = [x \in Orders |-> orders[x].user]
                /\ [x \in Orders |-> orders'[x].amount] = [x \in Orders |-> orders[x].amount]
<1>1. [x \in Orders |-> orders'[x].user]
        = [[x \in Orders |-> orders[x].user] EXCEPT ![id] = u]
  OBVIOUS
<1>2. [x \in Orders |-> orders'[x].amount]
        = [[x \in Orders |-> orders[x].amount] EXCEPT ![id] = amount]
  OBVIOUS
<1>3. orders[id].user = u /\ orders[id].amount = amount =>
        /\ [x \in Orders |-> orders'[x].user] = [x \in Orders |-> orders[x].user]
        /\ [x \in Orders |-> orders'[x].amount] = [x \in Orders |-> orders[x].amount]
  OBVIOUS
<1> QED BY <1>1, <1>2, <1>3 DEF Promise!Ask

LEMMA RefineInit == Init => Promise!AbstractInit
<1> SUFFICES ASSUME Init PROVE Promise!AbstractInit
  OBVIOUS
<1>1. StatusOf("none") = "unknown"
  BY DEF StatusOf, Open
<1>2. \A x \in Orders : /\ StatusOf(orders[x].state) = "unknown"
                       /\ orders[x].user = NoUser /\ orders[x].amount = 0
  BY <1>1 DEF Init, NoRow
<1>3. \A u \in Users : wallet[u].balance = 0
  BY DEF Init, WalletInit, EmptyWallet
<1>4. [x \in Orders |-> StatusOf(orders[x].state)] = [x \in Orders |-> "unknown"]
  BY <1>2
<1>5. [x \in Orders |-> orders[x].user] = [x \in Orders |-> NoUser]
  BY <1>2
<1>6. [x \in Orders |-> orders[x].amount] = [x \in Orders |-> 0]
  BY <1>2
<1>7. [u \in Users |-> wallet[u].balance] = [u \in Users |-> 0]
  BY <1>3
<1> QED BY <1>4, <1>5, <1>6, <1>7 DEF Promise!AbstractInit

\* Every step of Payments is a step of TopUps, or one it does not see.
LEMMA RefineNext ==
    ASSUME Inv, [Next]_vars
    PROVE  [Promise!AbstractNext]_Abstract
<1>1. /\ TypeOK /\ OrdersAreWhole /\ RequestsHold
      /\ orders \in [Orders -> OrderRecord]
  BY DEF Inv, TypeOK
<1>2. CASE UNCHANGED <<wallet, orders>>
  BY <1>2, UnseenStep
<1>3. ASSUME NEW u \in Users, NEW amount \in Amounts, NEW id \in Orders,
             CreateOrder(u, amount, id)
      PROVE  Promise!OpenPayment(id, u, amount)
  <2>1. orders[id].state = "none" /\ wallet' = wallet
        /\ orders' = [orders EXCEPT ![id] =
                        [NoRow EXCEPT !.state = "created", !.provider = "click",
                                      !.user = u, !.amount = amount]]
    BY <1>3 DEF CreateOrder
  <2>2. /\ orders'[id].state = "created" /\ orders'[id].user = u /\ orders'[id].amount = amount
        /\ \A x \in Orders : x # id => orders'[x] = orders[x]
    BY <1>1, <2>1 DEF NoRow
  <2>3. StatusOf("created") = "open" /\ StatusOf("none") = "unknown"
    BY DEF StatusOf, Open
  <2>4. Promise!Become(id, "open") /\ Promise!Ask(id, u, amount)
    BY <2>2, <2>3, StatusStep, AskStep
  <2> QED BY <2>1, <2>3, <2>4 DEF Promise!OpenPayment
<1>4. ASSUME NEW h \in Handlers, Attach(h)
      PROVE  UNCHANGED Abstract
  <2> DEFINE id == req[h].order
  <2>1. /\ id \in Orders /\ orders[id] \in OrderRecord /\ orders[id].state \in Open
        /\ wallet' = wallet
        /\ orders' = [orders EXCEPT ![id].state = "pending", ![id].txn = req[h].txn,
                                    ![id].prepared = TRUE]
    BY <1>1, <1>4, RequestFacts DEF Attach, Attachable
  <2>2. orders'[id] = [orders[id] EXCEPT !.state = "pending", !.txn = req[h].txn,
                                         !.prepared = TRUE]
        /\ \A x \in Orders : x # id => orders'[x] = orders[x]
    BY <1>1, <2>1
  <2> HIDE DEF id
  <2>3. orders'[id].state = "pending" /\ orders'[id].user = orders[id].user
        /\ orders'[id].amount = orders[id].amount
    <3>1. orders[id] \in OrderRecord
      BY <2>1
    <3> QED BY <2>2, <3>1 DEF OrderRecord
  <2>4. StatusOf("pending") = "open" /\ StatusOf(orders[id].state) = "open"
    BY <2>1 DEF StatusOf, Open
  <2> QED BY <2>1, <2>2, <2>3, <2>4, UnseenStep
<1>5. ASSUME NEW h \in Handlers, Settle(h)
      PROVE  \E id \in Orders : Promise!PayOpen(id)
  <2>1. PICK id \in Orders, o \in OrderRecord :
           /\ o = orders[id] /\ o.state \in Open /\ o.state # "paid"
           /\ o.user \in Users /\ o.amount \in Amounts /\ PayOrder(id, o)
    BY <1>1, <1>5, RequestFacts DEF Settle, Open
  <2>2. /\ Promise!Earn(o.user, o.amount)
        /\ orders'[id].state = "paid" /\ orders'[id].user = o.user
        /\ orders'[id].amount = o.amount
        /\ \A x \in Orders : x # id => orders'[x] = orders[x]
    BY <2>1, PayOrderEarns
  <2>3. StatusOf("paid") = "paid" /\ StatusOf(o.state) = "open"
    BY <2>1 DEF StatusOf, Open
  <2>4. Promise!Become(id, "paid")
    BY <2>2, <2>3, StatusStep
  <2>5. /\ [x \in Orders |-> orders'[x].user] = [x \in Orders |-> orders[x].user]
        /\ [x \in Orders |-> orders'[x].amount] = [x \in Orders |-> orders[x].amount]
    BY <2>1, <2>2, AskStep
  <2>6. /\ [x \in Orders |-> StatusOf(orders[x].state)][id] = "open"
        /\ [x \in Orders |-> orders[x].user][id] = o.user
        /\ [x \in Orders |-> orders[x].amount][id] = o.amount
    BY <2>1, <2>3
  <2>7. Promise!PayOpen(id)
    BY <2>2, <2>4, <2>5, <2>6 DEF Promise!PayOpen, Promise!Earn
  <2> QED BY <2>7
<1>6. ASSUME NEW h \in Handlers, Cancel(h), orders[req[h].order].state \in Open
      PROVE  Promise!VoidOpen(req[h].order)
  <2> DEFINE id == req[h].order
             o == orders[id]
  <2>1. /\ id \in Orders /\ o \in OrderRecord /\ o.state \in Open /\ wallet' = wallet
        /\ orders' = [orders EXCEPT ![id].state = "cancelled", ![id].token = NoToken]
    BY <1>1, <1>6, RequestFacts DEF Cancel
  <2>2. orders'[id] = [o EXCEPT !.state = "cancelled", !.token = NoToken]
        /\ \A x \in Orders : x # id => orders'[x] = orders[x]
    BY <1>1, <2>1
  <2> HIDE DEF id, o
  <2>3. orders'[id].state = "cancelled" /\ orders'[id].user = o.user
        /\ orders'[id].amount = o.amount
    <3>1. o \in OrderRecord
      BY <2>1
    <3> QED BY <2>2, <3>1 DEF OrderRecord
  <2>4. StatusOf("cancelled") = "void" /\ StatusOf(o.state) = "open"
    BY <2>1 DEF StatusOf, Open
  <2>5. Promise!Become(id, "void")
    BY <2>1, <2>2, <2>3, <2>4, StatusStep
  <2>6. /\ [x \in Orders |-> orders'[x].user] = [x \in Orders |-> orders[x].user]
        /\ [x \in Orders |-> orders'[x].amount] = [x \in Orders |-> orders[x].amount]
    BY <2>1, <2>2, <2>3, AskStep DEF o
  <2> QED BY <2>1, <2>4, <2>5, <2>6 DEF Promise!VoidOpen, o, id
<1>7. ASSUME NEW h \in Handlers, Cancel(h), orders[req[h].order].state \notin Open
      PROVE  UNCHANGED <<wallet, orders>>
  BY <1>7 DEF Cancel
<1>8. ASSUME NEW h \in Handlers, NEW u \in Users, NEW amount \in Amounts,
             NEW txn \in PaynetTxns, NEW id \in Orders, PaynetPerform(h, u, amount, txn, id)
      PROVE  Promise!PayAtOnce(id, u, amount)
  <2> DEFINE o == [NoRow EXCEPT !.provider = "paynet", !.user = u,
                                !.amount = amount, !.txn = txn]
  <2>1. amount \in Nat /\ txn \in Txns
    BY PaymentsAssumption DEF Txns
  <2>2. o \in OrderRecord /\ o.user = u /\ o.amount = amount
    BY <2>1 DEF OrderRecord, NoRow, States
  <2>3. PayOrder(id, o) /\ orders[id].state = "none" /\ orders[id].state # "paid"
    BY <1>8 DEF PaynetPerform
  <2> HIDE DEF o
  <2>4. /\ Promise!Earn(u, amount)
        /\ orders'[id].state = "paid" /\ orders'[id].user = u
        /\ orders'[id].amount = amount
        /\ \A x \in Orders : x # id => orders'[x] = orders[x]
    BY <2>2, <2>3, PayOrderEarns
  <2>5. StatusOf("paid") = "paid" /\ StatusOf("none") = "unknown"
    BY DEF StatusOf, Open
  <2>6. Promise!Become(id, "paid") /\ Promise!Ask(id, u, amount)
    BY <2>4, <2>5, StatusStep, AskStep
  <2> QED BY <2>3, <2>4, <2>5, <2>6 DEF Promise!PayAtOnce
<1> HIDE DEF Abstract
<1>9. Amounts = DOMAIN WorthsOf
  BY DEF WorthsOf
<1>10. CASE UNCHANGED vars \/ QuietOfficeStep \/ \E h \in Handlers : QuietHandlerStep(h)
  BY <1>2, <1>10, QuietSteps
<1>11. CASE \E u \in Users, amount \in Amounts, id \in Orders : CreateOrder(u, amount, id)
  <2>1. PICK u \in Users, amount \in Amounts, id \in Orders : Promise!OpenPayment(id, u, amount)
    BY <1>3, <1>11
  <2>2. amount \in DOMAIN WorthsOf
    BY <1>9
  <2> QED BY <2>1, <2>2 DEF Promise!AbstractNext, WorthsOf
<1>12. CASE \E h \in Handlers : Attach(h)
  BY <1>4, <1>12
<1>13. CASE \E h \in Handlers : Settle(h)
  BY <1>5, <1>13 DEF Promise!AbstractNext
<1>14. CASE \E h \in Handlers : Cancel(h)
  <2>1. PICK h \in Handlers : Cancel(h) /\ req[h].order \in Orders
    BY <1>1, <1>14, RequestFacts DEF Cancel
  <2>2. CASE orders[req[h].order].state \in Open
    BY <1>6, <2>1, <2>2 DEF Promise!AbstractNext
  <2>3. CASE orders[req[h].order].state \notin Open
    BY <1>2, <1>7, <2>1, <2>3
  <2> QED BY <2>2, <2>3
<1>15. CASE \E h \in Handlers, u \in Users, amount \in Amounts, txn \in PaynetTxns,
             id \in Orders : PaynetPerform(h, u, amount, txn, id)
  <2>1. PICK u \in Users, amount \in Amounts, id \in Orders : Promise!PayAtOnce(id, u, amount)
    BY <1>8, <1>15
  <2>2. amount \in DOMAIN WorthsOf
    BY <1>9
  <2> QED BY <2>1, <2>2 DEF Promise!AbstractNext, WorthsOf
<1> QED BY <1>10, <1>11, <1>12, <1>13, <1>14, <1>15, StepKinds

\* The order table, the Click and Paynet protocols, their races and crashes
\* implement the promise of TopUps.
THEOREM Implements == Spec => ImplementsTopUps
<1>1. Inv /\ [Next]_vars => [Promise!AbstractNext]_Promise!abstractVars
  BY RefineNext DEF Abstract
<1> QED BY <1>1, RefineInit, Invariant, PTL
        DEF Spec, ImplementsTopUps, Promise!AbstractSpec
-----------------------------------------------------------------------------
(***************************************************************************)
(* Steps that put a token on an order, or take it off.                     *)
(***************************************************************************)
TokenStep(id, k) ==
  /\ orders[id].state # "none"
  /\ orders' = [orders EXCEPT ![id].token = k]
  /\ UNCHANGED <<wallet, banned, percent, req>>

\* Nothing but the token of that order changes.
LEMMA OnlyTheToken ==
    ASSUME Inv, NEW id \in Orders, NEW k \in CardTokens \cup {NoToken}, TokenStep(id, k)
    PROVE  /\ orders' \in [Orders -> OrderRecord]
           /\ \A x \in Orders :
                 /\ orders'[x].state = orders[x].state
                 /\ orders'[x].provider = orders[x].provider
                 /\ orders'[x].user = orders[x].user
                 /\ orders'[x].amount = orders[x].amount
                 /\ orders'[x].txn = orders[x].txn
                 /\ orders'[x].prepared = orders[x].prepared
                 /\ orders'[x].bonus = orders[x].bonus
                 /\ orders'[x].token = IF x = id THEN k ELSE orders[x].token
                 /\ x # id => orders'[x] = orders[x]
<1>1. orders \in [Orders -> OrderRecord]
  BY DEF Inv, TypeOK
<1> DEFINE o == [orders[id] EXCEPT !.token = k]
<1>2. /\ o \in OrderRecord
      /\ o.state = orders[id].state /\ o.provider = orders[id].provider
      /\ o.user = orders[id].user /\ o.amount = orders[id].amount
      /\ o.txn = orders[id].txn /\ o.prepared = orders[id].prepared
      /\ o.bonus = orders[id].bonus /\ o.token = k
  BY <1>1 DEF OrderRecord
<1>3. orders' = [orders EXCEPT ![id] = o]
  BY DEF TokenStep
<1> HIDE DEF o
<1> QED BY <1>1, <1>2, <1>3

LEMMA TokenStepInv ==
    ASSUME Inv, NEW id \in Orders, NEW k \in CardTokens \cup {NoToken}, TokenStep(id, k)
    PROVE  Inv' /\ UNCHANGED Abstract
<1>1. /\ orders' \in [Orders -> OrderRecord]
      /\ \A x \in Orders :
            /\ orders'[x].state = orders[x].state
            /\ orders'[x].provider = orders[x].provider
            /\ orders'[x].user = orders[x].user
            /\ orders'[x].amount = orders[x].amount
            /\ orders'[x].txn = orders[x].txn
            /\ orders'[x].prepared = orders[x].prepared
            /\ orders'[x].bonus = orders[x].bonus
            /\ x # id => orders'[x] = orders[x]
  BY OnlyTheToken
<1>2. UNCHANGED <<wallet, banned, percent, req>> /\ orders[id].state # "none"
  BY DEF TokenStep
<1>3. TypeOK'
  BY <1>1, <1>2 DEF Inv, TypeOK, WalletTypeOK
<1>4. OrdersAreWhole'
  BY <1>1, <1>2 DEF Inv, OrdersAreWhole
<1>5. TxnsAreBoundOnce'
  BY <1>1 DEF Inv, TxnsAreBoundOnce
<1>6. LedgerExplainsBalance'
  BY <1>2 DEF Inv, LedgerExplainsBalance, Explained, BalanceAfter
<1>7. \A x \in Orders : TopupRef(x, orders'[x]) = TopupRef(x, orders[x])
  BY <1>1 DEF TopupRef
<1>8. PaidOrdersAreCredited'
  <2> SUFFICES ASSUME NEW x \in Orders, orders'[x].state = "paid"
               PROVE  CreditedOnce(wallet, "topup", TopupRef(x, orders[x]),
                                   orders[x].user, orders[x].amount)
    BY <1>1, <1>2, <1>7 DEF PaidOrdersAreCredited
  <2> QED BY <1>1 DEF Inv, PaymentsCreditOnce, PaidOrdersAreCredited
<1>9. CreditsArePaidOrders'
  BY <1>1, <1>2, <1>7 DEF Inv, PaymentsCreditOnce, CreditsArePaidOrders
<1>10. BonusIsCreditedOnce'
  BY <1>1, <1>2 DEF Inv, BonusIsCreditedOnce, BonusRef
<1>11. RequestsHold'
  <2> SUFFICES ASSUME NEW h \in Handlers PROVE RequestHolds(req[h])'
    BY DEF RequestsHold
  <2>1. RequestHolds(req[h])
    BY DEF Inv, RequestsHold
  <2>2. PaynetPaid(req[h].txn) => PaynetPaid(req[h].txn)'
    BY <1>1, <1>2 DEF PaynetPaid
  <2>3. req[h].order \in Orders /\ req[h].txn \in ClickTxns
          => (req[h].pc = "reply" /\ AnswerHolds(req[h]) => AnswerHolds(req[h])')
    BY <1>1, <1>2, <2>2 DEF AnswerHolds
  <2> QED BY <1>1, <1>2, <2>1, <2>2 DEF RequestHolds, AnswerHolds
<1>12. UNCHANGED Abstract
  BY <1>1, <1>2, UnseenStep
<1> QED BY <1>3, <1>4, <1>5, <1>6, <1>8, <1>9, <1>10, <1>11, <1>12 DEF Inv, PaymentsCreditOnce

-----------------------------------------------------------------------------
(***************************************************************************)
(* What the callbacks do to the tokens: an order they close loses its own. *)
(***************************************************************************)
TokenShrinks(id) ==
  \/ orders'[id].token = NoToken
  \/ /\ orders'[id].token = orders[id].token
     /\ orders'[id].state \in Final => orders[id].state \in Final

LEMMA CallbacksShrinkTokens ==
    ASSUME Inv, [Next]_vars, NEW id \in Orders
    PROVE  TokenShrinks(id)
<1>1. TypeOK /\ OrdersAreWhole /\ RequestsHold /\ orders \in [Orders -> OrderRecord]
  BY DEF Inv, TypeOK
<1>2. CASE orders' = orders
  BY <1>2 DEF TokenShrinks
<1>3. ASSUME NEW x \in Orders, NEW o, orders' = [orders EXCEPT ![x] = o],
             o.token = NoToken \/ (o.token = orders[x].token /\ o.state \notin Final)
      PROVE  TokenShrinks(id)
  BY <1>1, <1>3 DEF TokenShrinks
<1>4. ASSUME NEW u \in Users, NEW amount \in Amounts, NEW x \in Orders,
             CreateOrder(u, amount, x)
      PROVE  TokenShrinks(id)
  <2> DEFINE o == [NoRow EXCEPT !.state = "created", !.provider = "click",
                                !.user = u, !.amount = amount]
  <2>1. o.token = NoToken
    BY DEF NoRow
  <2>2. orders' = [orders EXCEPT ![x] = o]
    BY <1>4 DEF CreateOrder
  <2> HIDE DEF o
  <2> QED BY <1>3, <2>1, <2>2
<1>5. ASSUME NEW h \in Handlers, Attach(h) PROVE TokenShrinks(id)
  <2> DEFINE x == req[h].order
             o == [orders[x] EXCEPT !.state = "pending", !.txn = req[h].txn,
                                    !.prepared = TRUE]
  <2>1. x \in Orders /\ orders[x] \in OrderRecord
    BY <1>1, <1>5, RequestFacts DEF Attach
  <2>2. o.token = orders[x].token /\ o.state = "pending"
    BY <2>1 DEF OrderRecord
  <2>3. orders' = [orders EXCEPT ![x] = o]
    BY <1>1, <1>5, <2>1 DEF Attach
  <2> HIDE DEF o, x
  <2> QED BY <1>3, <2>1, <2>2, <2>3 DEF Final
<1>6. ASSUME NEW h \in Handlers, Settle(h) PROVE TokenShrinks(id)
  <2> DEFINE x == req[h].order
             o == [orders[x] EXCEPT !.state = "paid", !.token = NoToken,
                                    !.bonus = CreditedBonus(x, orders[x].amount)]
  <2>1. x \in Orders /\ orders[x] \in OrderRecord
    BY <1>1, <1>6, RequestFacts DEF Settle
  <2>2. o.token = NoToken
    BY <2>1 DEF OrderRecord
  <2>3. orders' = [orders EXCEPT ![x] = o]
    BY <1>6 DEF Settle, PayOrder
  <2> HIDE DEF o, x
  <2> QED BY <1>3, <2>1, <2>2, <2>3
<1>7. ASSUME NEW h \in Handlers, Cancel(h) PROVE TokenShrinks(id)
  <2> DEFINE x == req[h].order
             o == [orders[x] EXCEPT !.state = "cancelled", !.token = NoToken]
  <2>1. x \in Orders /\ orders[x] \in OrderRecord
    BY <1>1, <1>7, RequestFacts DEF Cancel
  <2>2. o.token = NoToken
    BY <2>1 DEF OrderRecord
  <2>3. orders' = orders \/ orders' = [orders EXCEPT ![x] = o]
    BY <1>1, <1>7, <2>1 DEF Cancel
  <2> HIDE DEF o, x
  <2> QED BY <1>2, <1>3, <2>1, <2>2, <2>3
<1>8. ASSUME NEW h \in Handlers, NEW u \in Users, NEW amount \in Amounts,
             NEW txn \in PaynetTxns, NEW x \in Orders, PaynetPerform(h, u, amount, txn, x)
      PROVE  TokenShrinks(id)
  <2> DEFINE p == [NoRow EXCEPT !.provider = "paynet", !.user = u,
                                !.amount = amount, !.txn = txn]
             o == [p EXCEPT !.state = "paid", !.token = NoToken,
                            !.bonus = CreditedBonus(x, p.amount)]
  <2>1. o.token = NoToken
    BY DEF NoRow
  <2>2. orders' = [orders EXCEPT ![x] = o]
    BY <1>8 DEF PaynetPerform, PayOrder
  <2> HIDE DEF o
  <2> QED BY <1>3, <2>1, <2>2
<1> QED BY <1>2, <1>4, <1>5, <1>6, <1>7, <1>8, StepKinds, QuietSteps

-----------------------------------------------------------------------------
(***************************************************************************)
(* The inductive invariant of the tokens.                                  *)
(***************************************************************************)
Paying(c, k) == card[c].pc = "paying" /\ card[c].token = k

\* Card requests name an order, and a token once they are past its reading.
CardShape ==
  /\ card \in [Clients -> CardRequest]
  /\ issued \in [CardTokens -> Orders \cup {NoOrder}]
  /\ charges \in [CardTokens -> Nat]
  /\ \A c \in Clients :
        /\ card[c].pc # "idle" \/ card[c].token # NoToken => card[c].order \in Orders
        /\ card[c].pc \in {"verifying", "paying"} => card[c].token \in CardTokens

\* A token stays with the order it was issued for.
TokensStayHome ==
  /\ \A id \in Orders, k \in CardTokens : orders[id].token = k => issued[k] = id
  /\ \A c \in Clients, k \in CardTokens : card[c].token = k => issued[k] = card[c].order

\* It is on the order, or with one request that pays, or charged, or dropped.
TokensMoveOn ==
  \A k \in CardTokens :
     /\ charges[k] <= 1
     /\ issued[k] = NoOrder => charges[k] = 0
     /\ \A id \in Orders : orders[id].token = k =>
           charges[k] = 0 /\ \A c \in Clients : ~Paying(c, k)
     /\ \A c \in Clients : Paying(c, k) =>
           charges[k] = 0 /\ \A d \in Clients : Paying(d, k) => d = c

TokenInv == CardShape /\ TokensStayHome /\ TokensMoveOn /\ ClosedOrdersHoldNoToken

CardInv == Inv /\ TokenInv

\* Tokens that only leave orders, and requests that only end.
LEMMA TokensLeave ==
    ASSUME CardInv, UNCHANGED <<issued, charges>>,
           \A id \in Orders : TokenShrinks(id),
           \/ card' = card
           \/ \E c \in Clients : EndCard(c)
    PROVE  TokenInv'
<1>1. CardShape'
  BY DEF CardInv, TokenInv, CardShape, EndCard, CardIdle, CardRequest
<1>2. \A c \in Clients : card'[c] = card[c] \/ card'[c] = CardIdle
  BY DEF CardInv, TokenInv, CardShape, EndCard
<1>3. CardIdle.pc = "idle" /\ CardIdle.token = NoToken
  BY DEF CardIdle
<1>4. \A id \in Orders, k \in CardTokens : orders'[id].token = k => orders[id].token = k
  BY PaymentsAssumption DEF TokenShrinks
<1>5. \A c \in Clients, k \in CardTokens :
         /\ card'[c].token = k => card[c].token = k /\ card'[c].order = card[c].order
         /\ Paying(c, k)' => Paying(c, k)
  BY <1>2, <1>3, PaymentsAssumption DEF Paying
<1>6. TokensStayHome'
  BY <1>4, <1>5 DEF CardInv, TokenInv, TokensStayHome
<1>7. TokensMoveOn'
  BY <1>4, <1>5 DEF CardInv, TokenInv, TokensMoveOn
<1>8. ClosedOrdersHoldNoToken'
  BY DEF CardInv, TokenInv, ClosedOrdersHoldNoToken, TokenShrinks
<1> QED BY <1>1, <1>6, <1>7, <1>8 DEF TokenInv

-----------------------------------------------------------------------------
(***************************************************************************)
(* Every step keeps it.                                                    *)
(***************************************************************************)
\* A step that the callbacks' side does not see.
LEMMA SameCallbacks ==
    ASSUME Inv, UNCHANGED vars
    PROVE  Inv' /\ UNCHANGED Abstract
<1>1. Inv'
  BY NextInv
<1>2. UNCHANGED Abstract
  BY UnseenStep DEF vars
<1> QED BY <1>1, <1>2

\* One request goes on; the others stay where they are.
LEMMA Served ==
    ASSUME CardShape, NEW c \in Clients, NEW pc \in {"requesting", "verifying", "paying"},
           NEW id \in Orders, NEW k \in CardTokens \cup {NoToken}, ServeCard(c, pc, id, k)
    PROVE  /\ card' \in [Clients -> CardRequest]
           /\ card'[c].pc = pc /\ card'[c].order = id /\ card'[c].token = k
           /\ \A d \in Clients : d # c => card'[d] = card[d]
<1> DEFINE r == [pc |-> pc, order |-> id, token |-> k]
<1>1. r \in CardRequest /\ r.pc = pc /\ r.order = id /\ r.token = k
  BY DEF CardRequest
<1>2. card' = [card EXCEPT ![c] = r] /\ card \in [Clients -> CardRequest]
  BY DEF ServeCard, CardShape
<1> HIDE DEF r
<1> QED BY <1>1, <1>2

LEMMA StartCardStep ==
    ASSUME CardInv, NEW c \in Clients, NEW id \in Orders, StartCard(c, id)
    PROVE  TokenInv'
<1>1. UNCHANGED <<orders, issued, charges>>
  BY DEF StartCard, vars
<1>2. /\ card' \in [Clients -> CardRequest]
      /\ card'[c].pc = "requesting" /\ card'[c].order = id /\ card'[c].token = NoToken
      /\ \A d \in Clients : d # c => card'[d] = card[d]
  BY Served DEF CardInv, TokenInv, StartCard
<1>3. CardShape'
  BY <1>1, <1>2 DEF CardInv, TokenInv, CardShape
<1>4. \A d \in Clients, k \in CardTokens :
         /\ card'[d].token = k => card[d].token = k /\ card'[d].order = card[d].order
         /\ Paying(d, k)' => Paying(d, k)
  BY <1>2, PaymentsAssumption DEF Paying
<1>5. TokensStayHome'
  BY <1>1, <1>4 DEF CardInv, TokenInv, TokensStayHome
<1>6. TokensMoveOn'
  BY <1>1, <1>4 DEF CardInv, TokenInv, TokensMoveOn
<1>7. ClosedOrdersHoldNoToken'
  BY <1>1 DEF CardInv, TokenInv, ClosedOrdersHoldNoToken
<1> QED BY <1>3, <1>5, <1>6, <1>7 DEF TokenInv

LEMMA ConfirmCardStep ==
    ASSUME CardInv, NEW c \in Clients, NEW id \in Orders, ConfirmCard(c, id)
    PROVE  TokenInv'
<1>1. UNCHANGED <<orders, issued, charges>>
  BY DEF ConfirmCard, vars
<1> DEFINE k == orders[id].token
<1>2. k \in CardTokens
  BY DEF ConfirmCard, CardInv, Inv, TypeOK, OrderRecord
<1>3. ServeCard(c, "verifying", id, k)
  BY DEF ConfirmCard
<1> HIDE DEF k
<1>4. /\ card' \in [Clients -> CardRequest]
      /\ card'[c].pc = "verifying" /\ card'[c].order = id /\ card'[c].token = k
      /\ \A d \in Clients : d # c => card'[d] = card[d]
  BY <1>2, <1>3, Served DEF CardInv, TokenInv
<1>5. CardShape'
  BY <1>1, <1>2, <1>4 DEF CardInv, TokenInv, CardShape
<1>6. issued[k] = id
  BY <1>2 DEF CardInv, TokenInv, TokensStayHome, k
<1>7. \A d \in Clients, l \in CardTokens :
         /\ card'[d].token = l => issued[l] = card'[d].order
         /\ Paying(d, l)' => Paying(d, l)
  BY <1>4, <1>6 DEF Paying, CardInv, TokenInv, TokensStayHome
<1>8. TokensStayHome'
  BY <1>1, <1>7 DEF CardInv, TokenInv, TokensStayHome
<1>9. TokensMoveOn'
  BY <1>1, <1>7 DEF CardInv, TokenInv, TokensMoveOn
<1>10. ClosedOrdersHoldNoToken'
  BY <1>1 DEF CardInv, TokenInv, ClosedOrdersHoldNoToken
<1> QED BY <1>5, <1>8, <1>9, <1>10 DEF TokenInv

\* A request that has ended has no token.
LEMMA Ended ==
    ASSUME CardShape, NEW c \in Clients, EndCard(c)
    PROVE  /\ card' \in [Clients -> CardRequest]
           /\ card'[c].pc = "idle" /\ card'[c].token = NoToken
           /\ \A d \in Clients : d # c => card'[d] = card[d]
<1>1. CardIdle \in CardRequest /\ CardIdle.pc = "idle" /\ CardIdle.token = NoToken
  BY DEF CardIdle, CardRequest
<1> QED BY <1>1 DEF EndCard, CardShape

\* The new token has never been anywhere: no order, request or charge has it.
LEMMA SaveTokenStep ==
    ASSUME CardInv, NEW c \in Clients, NEW k \in CardTokens, SaveToken(c, k)
    PROVE  TokenInv' /\ Inv' /\ UNCHANGED Abstract
<1> DEFINE id == card[c].order
<1>1. id \in Orders /\ issued[k] = NoOrder /\ charges' = charges
      /\ issued' = [issued EXCEPT ![k] = id] /\ EndCard(c)
  BY DEF SaveToken, CardInv, TokenInv, CardShape
<1>2. /\ card' \in [Clients -> CardRequest]
      /\ card'[c].pc = "idle" /\ card'[c].token = NoToken
      /\ \A d \in Clients : d # c => card'[d] = card[d]
  BY <1>1, Ended DEF CardInv, TokenInv
<1>3. \/ orders' = orders /\ UNCHANGED vars
      \/ orders[id].state \in Open /\ TokenStep(id, k)
  BY DEF SaveToken, TokenStep, vars, Open
<1> HIDE DEF id
<1>4. Inv' /\ UNCHANGED Abstract
  BY <1>1, <1>3, TokenStepInv, SameCallbacks DEF CardInv
<1>5. \A x \in Orders :
         /\ orders'[x].state = orders[x].state
         /\ \/ orders'[x].token = orders[x].token
            \/ x = id /\ orders'[x].token = k /\ orders[x].state \in Open
  BY <1>1, <1>3, OnlyTheToken DEF CardInv
<1>6. NoOrder \notin Orders /\ NoToken \notin CardTokens
  BY PaymentsAssumption
<1>7. /\ \A x \in Orders : orders[x].token # k
      /\ \A d \in Clients : card[d].token # k
      /\ charges[k] = 0
  <2>1. ASSUME NEW d \in Clients, card[d].token = k PROVE FALSE
    <3>1. issued[k] = card[d].order
      BY <2>1 DEF CardInv, TokenInv, TokensStayHome
    <3>2. card[d].order \in Orders
      BY <1>6, <2>1 DEF CardInv, TokenInv, CardShape
    <3> QED BY <1>1, <1>6, <3>1, <3>2
  <2>2. ASSUME NEW x \in Orders, orders[x].token = k PROVE FALSE
    BY <1>1, <1>6, <2>2 DEF CardInv, TokenInv, TokensStayHome
  <2>3. charges[k] = 0
    BY <1>1 DEF CardInv, TokenInv, TokensMoveOn
  <2> QED BY <2>1, <2>2, <2>3
<1>8. issued' \in [CardTokens -> Orders \cup {NoOrder}] /\ issued'[k] = id
      /\ \A l \in CardTokens : l # k => issued'[l] = issued[l]
  BY <1>1 DEF CardInv, TokenInv, CardShape
<1>9. \A d \in Clients, l \in CardTokens :
         /\ card'[d].token = l => l # k /\ card[d].token = l /\ card'[d].order = card[d].order
         /\ Paying(d, l)' => l # k /\ Paying(d, l)
  BY <1>2, <1>6, <1>7 DEF Paying
<1>10. \A x \in Orders, l \in CardTokens : orders'[x].token = l =>
          \/ l # k /\ orders[x].token = l
          \/ l = k /\ x = id
  BY <1>5, <1>7
<1>11. CardShape'
  BY <1>1, <1>2, <1>8 DEF CardInv, TokenInv, CardShape
<1>12. TokensStayHome'
  BY <1>8, <1>9, <1>10 DEF CardInv, TokenInv, TokensStayHome
<1>13. TokensMoveOn'
  <2> SUFFICES ASSUME NEW l \in CardTokens
               PROVE  /\ charges[l] <= 1
                      /\ issued'[l] = NoOrder => charges[l] = 0
                      /\ \A x \in Orders : orders'[x].token = l =>
                            charges[l] = 0 /\ \A d \in Clients : ~Paying(d, l)'
                      /\ \A d \in Clients : Paying(d, l)' =>
                            charges[l] = 0 /\ \A e \in Clients : Paying(e, l)' => e = d
    BY <1>1 DEF TokensMoveOn
  <2>1. CASE l = k
    BY <1>7, <1>9, <2>1
  <2>2. CASE l # k
    BY <1>8, <1>9, <1>10, <2>2 DEF CardInv, TokenInv, TokensMoveOn
  <2> QED BY <2>1, <2>2
<1>14. ClosedOrdersHoldNoToken'
  BY <1>5 DEF CardInv, TokenInv, ClosedOrdersHoldNoToken, Open, Final
<1> QED BY <1>4, <1>11, <1>12, <1>13, <1>14 DEF TokenInv

\* The conditional UPDATE takes the token off the order it was read from: only
\* one request finds it there.
LEMMA ClaimTokenStep ==
    ASSUME CardInv, NEW c \in Clients, ClaimToken(c)
    PROVE  TokenInv' /\ Inv' /\ UNCHANGED Abstract
<1> DEFINE id == card[c].order
           k == card[c].token
<1>1. /\ id \in Orders /\ k \in CardTokens /\ UNCHANGED <<issued, charges>>
      /\ orders[id].token = k /\ ServeCard(c, "paying", id, k)
      /\ orders[id].state \in Open /\ TokenStep(id, NoToken)
  BY DEF ClaimToken, Claimable, TokenStep, Open, CardInv, TokenInv, CardShape
<1> HIDE DEF id, k
<1>2. /\ card' \in [Clients -> CardRequest]
      /\ card'[c].pc = "paying" /\ card'[c].order = id /\ card'[c].token = k
      /\ \A d \in Clients : d # c => card'[d] = card[d]
  BY <1>1, Served DEF CardInv, TokenInv
<1>3. Inv' /\ UNCHANGED Abstract
  BY <1>1, TokenStepInv DEF CardInv
<1>4. \A x \in Orders :
         /\ orders'[x].state = orders[x].state
         /\ orders'[x].token = IF x = id THEN NoToken ELSE orders[x].token
  BY <1>1, OnlyTheToken DEF CardInv
<1>5. NoToken \notin CardTokens
  BY PaymentsAssumption
<1>6. charges[k] = 0 /\ \A d \in Clients : ~Paying(d, k)
  BY <1>1 DEF CardInv, TokenInv, TokensMoveOn
<1>7. \A x \in Orders : orders[x].token = k => x = id
  BY <1>1 DEF CardInv, TokenInv, TokensStayHome
<1>8. \A x \in Orders, l \in CardTokens :
         orders'[x].token = l => l # k /\ orders[x].token = l
  BY <1>4, <1>5, <1>7
<1>9. \A d \in Clients, l \in CardTokens :
         Paying(d, l)' => (d = c /\ l = k) \/ (d # c /\ l # k /\ Paying(d, l))
  BY <1>2, <1>6 DEF Paying
<1>10. CardShape'
  BY <1>1, <1>2 DEF CardInv, TokenInv, CardShape
<1>11. TokensStayHome'
  <2>1. issued[k] = id
    BY <1>1 DEF CardInv, TokenInv, TokensStayHome
  <2>2. \A x \in Orders, l \in CardTokens : orders'[x].token = l => issued'[l] = x
    BY <1>1, <1>8 DEF CardInv, TokenInv, TokensStayHome
  <2>3. \A d \in Clients, l \in CardTokens :
           card'[d].token = l => issued'[l] = card'[d].order
    BY <1>1, <1>2, <2>1 DEF CardInv, TokenInv, TokensStayHome
  <2> QED BY <2>2, <2>3 DEF TokensStayHome
<1>12. TokensMoveOn'
  <2> SUFFICES ASSUME NEW l \in CardTokens
               PROVE  /\ charges[l] <= 1
                      /\ issued[l] = NoOrder => charges[l] = 0
                      /\ \A x \in Orders : orders'[x].token = l =>
                            charges[l] = 0 /\ \A d \in Clients : ~Paying(d, l)'
                      /\ \A d \in Clients : Paying(d, l)' =>
                            charges[l] = 0 /\ \A e \in Clients : Paying(e, l)' => e = d
    BY <1>1 DEF TokensMoveOn
  <2>1. CASE l = k
    BY <1>6, <1>8, <1>9, <2>1
  <2>2. CASE l # k
    BY <1>8, <1>9, <2>2 DEF CardInv, TokenInv, TokensMoveOn
  <2> QED BY <2>1, <2>2
<1>13. ClosedOrdersHoldNoToken'
  BY <1>4 DEF CardInv, TokenInv, ClosedOrdersHoldNoToken
<1> QED BY <1>3, <1>10, <1>11, <1>12, <1>13 DEF TokenInv

LEMMA SubmitChargeStep ==
    ASSUME CardInv, NEW c \in Clients, SubmitCharge(c)
    PROVE  TokenInv'
<1> DEFINE k == card[c].token
<1>1. /\ k \in CardTokens /\ UNCHANGED <<orders, issued>> /\ EndCard(c) /\ Paying(c, k)
      /\ charges' = [charges EXCEPT ![k] = @ + 1]
  BY DEF SubmitCharge, vars, Paying, CardInv, TokenInv, CardShape
<1>2. issued[k] = card[c].order /\ card[c].order \in Orders
  BY <1>1 DEF CardInv, TokenInv, TokensStayHome, CardShape, Paying
<1> HIDE DEF k
<1>3. /\ card' \in [Clients -> CardRequest]
      /\ card'[c].pc = "idle" /\ card'[c].token = NoToken
      /\ \A d \in Clients : d # c => card'[d] = card[d]
  BY <1>1, Ended DEF CardInv, TokenInv
<1>4. NoToken \notin CardTokens /\ NoOrder \notin Orders
  BY PaymentsAssumption
<1>5. /\ charges[k] = 0 /\ \A d \in Clients : Paying(d, k) => d = c
      /\ \A x \in Orders : orders[x].token # k
  BY <1>1 DEF CardInv, TokenInv, TokensMoveOn
<1>6. /\ charges' \in [CardTokens -> Nat] /\ charges'[k] = 1
      /\ \A l \in CardTokens : l # k => charges'[l] = charges[l]
  BY <1>1, <1>5 DEF CardInv, TokenInv, CardShape
<1>7. \A d \in Clients, l \in CardTokens :
         /\ card'[d].token = l => card[d].token = l /\ card'[d].order = card[d].order
         /\ Paying(d, l)' => l # k /\ Paying(d, l)
  BY <1>3, <1>4, <1>5 DEF Paying
<1>8. CardShape'
  BY <1>1, <1>3, <1>6 DEF CardInv, TokenInv, CardShape
<1>9. TokensStayHome'
  BY <1>1, <1>7 DEF CardInv, TokenInv, TokensStayHome
<1>10. TokensMoveOn'
  <2> SUFFICES ASSUME NEW l \in CardTokens
               PROVE  /\ charges'[l] <= 1
                      /\ issued[l] = NoOrder => charges'[l] = 0
                      /\ \A x \in Orders : orders[x].token = l =>
                            charges'[l] = 0 /\ \A d \in Clients : ~Paying(d, l)'
                      /\ \A d \in Clients : Paying(d, l)' =>
                            charges'[l] = 0 /\ \A e \in Clients : Paying(e, l)' => e = d
    BY <1>1 DEF TokensMoveOn
  <2>1. CASE l = k
    BY <1>2, <1>4, <1>5, <1>6, <1>7, <2>1
  <2>2. CASE l # k
    BY <1>6, <1>7, <2>2 DEF CardInv, TokenInv, TokensMoveOn
  <2> QED BY <2>1, <2>2
<1>11. ClosedOrdersHoldNoToken'
  BY <1>1 DEF CardInv, TokenInv, ClosedOrdersHoldNoToken
<1> QED BY <1>8, <1>9, <1>10, <1>11 DEF TokenInv

LEMMA ExpireTokenStep ==
    ASSUME CardInv, NEW id \in Orders, ExpireToken(id)
    PROVE  TokenInv' /\ Inv' /\ UNCHANGED Abstract
<1>1. orders[id].state # "none"
  BY DEF ExpireToken, CardInv, Inv, OrdersAreWhole, NoRow
<1>2. TokenStep(id, NoToken) /\ UNCHANGED <<card, issued, charges>>
  BY <1>1 DEF ExpireToken, TokenStep, cardVars
<1>3. Inv' /\ UNCHANGED Abstract
  BY <1>2, TokenStepInv DEF CardInv
<1>4. \A x \in Orders : TokenShrinks(x)
  BY <1>2, OnlyTheToken DEF TokenShrinks, CardInv
<1> QED BY <1>2, <1>3, <1>4, TokensLeave

LEMMA CardStepInv ==
    ASSUME CardInv, NEW c \in Clients, CardStep(c)
    PROVE  CardInv' /\ UNCHANGED Abstract
<1>1. ASSUME UNCHANGED vars PROVE Inv' /\ UNCHANGED Abstract
  BY <1>1, SameCallbacks DEF CardInv
<1>2. ASSUME NEW id \in Orders, StartCard(c, id) \/ ConfirmCard(c, id)
      PROVE  CardInv' /\ UNCHANGED Abstract
  BY <1>1, <1>2, StartCardStep, ConfirmCardStep DEF StartCard, ConfirmCard, CardInv
<1>3. ASSUME NEW k \in CardTokens, SaveToken(c, k)
      PROVE  CardInv' /\ UNCHANGED Abstract
  BY <1>3, SaveTokenStep DEF CardInv
<1>4. CASE ClaimToken(c)
  BY <1>4, ClaimTokenStep DEF CardInv
<1>5. CASE SubmitCharge(c)
  BY <1>1, <1>5, SubmitChargeStep DEF SubmitCharge, CardInv
<1>6. CASE ClaimMiss(c) \/ EndCardRequest(c)
  <2>1. EndCard(c) /\ UNCHANGED <<vars, issued, charges>>
    BY <1>6 DEF ClaimMiss, EndCardRequest
  <2>2. \A x \in Orders : TokenShrinks(x)
    BY <2>1 DEF TokenShrinks, vars
  <2> QED BY <1>1, <2>1, <2>2, TokensLeave DEF CardInv
<1> QED BY <1>2, <1>3, <1>4, <1>5, <1>6 DEF CardStep

\* A step of the callbacks with the card requests at rest, or no step at all.
LEMMA CallbackStepInv ==
    ASSUME CardInv, [Next]_vars, UNCHANGED cardVars
    PROVE  CardInv'
<1>1. Inv'
  BY NextInv DEF CardInv
<1>2. \A id \in Orders : TokenShrinks(id)
  BY CallbacksShrinkTokens DEF CardInv
<1>3. UNCHANGED <<card, issued, charges>>
  BY DEF cardVars
<1>4. TokenInv'
  BY <1>2, <1>3, TokensLeave
<1> QED BY <1>1, <1>4 DEF CardInv

LEMMA CardInitInv == CardInit => CardInv
<1> SUFFICES ASSUME CardInit PROVE CardInv
  OBVIOUS
<1>1. Inv
  BY InitInv DEF CardInit
<1>2. /\ \A c \in Clients : card[c].pc = "idle" /\ card[c].token = NoToken
      /\ card \in [Clients -> CardRequest]
  BY DEF CardInit, CardIdle, CardRequest
<1>3. \A id \in Orders : orders[id].token = NoToken
  BY DEF CardInit, Init, NoRow
<1>4. CardShape
  BY <1>2 DEF CardInit, CardShape
<1>5. TokensStayHome
  BY <1>2, <1>3, PaymentsAssumption DEF TokensStayHome
<1>6. TokensMoveOn
  BY <1>2, <1>3, PaymentsAssumption DEF TokensMoveOn, Paying, CardInit
<1>7. ClosedOrdersHoldNoToken
  BY <1>3 DEF ClosedOrdersHoldNoToken
<1> QED BY <1>1, <1>4, <1>5, <1>6, <1>7 DEF CardInv, TokenInv

\* Every step, and what TopUps sees of it.
LEMMA CardNextInv ==
    ASSUME CardInv, [CardNext]_allVars
    PROVE  /\ CardInv'
           /\ [Promise!AbstractNext]_Abstract
<1>1. CASE [Next]_vars /\ UNCHANGED cardVars
  BY <1>1, CallbackStepInv, RefineNext DEF CardInv
<1>2. ASSUME NEW c \in Clients, CardStep(c)
      PROVE  CardInv' /\ UNCHANGED Abstract
  BY <1>2, CardStepInv
<1>3. ASSUME NEW id \in Orders, ExpireToken(id)
      PROVE  CardInv' /\ UNCHANGED Abstract
  BY <1>3, ExpireTokenStep DEF CardInv
<1>4. UNCHANGED allVars => UNCHANGED vars /\ UNCHANGED cardVars
  BY DEF allVars
<1> QED BY <1>1, <1>2, <1>3, <1>4 DEF CardNext

-----------------------------------------------------------------------------
(***************************************************************************)
(* The theorems.                                                           *)
(***************************************************************************)
\* The invariant of the callbacks and of the tokens holds beside each other.
THEOREM CardInvariant == CardSpec => []CardInv
<1>1. CardInv /\ [CardNext]_allVars => CardInv'
  BY CardNextInv
<1> QED BY <1>1, CardInitInv, PTL DEF CardSpec

LEMMA TokensInOnePlace == TokenInv => TokensAreSafe
<1> SUFFICES ASSUME TokenInv PROVE TokensAreSafe
  OBVIOUS
<1>1. ASSUME NEW k \in CardTokens, NEW x \in HoldersOf(k), NEW y \in HoldersOf(k)
      PROVE  x = y
  <2>1. /\ \A id \in Orders : orders[id].token = k => issued[k] = id
        /\ \A id \in Orders : orders[id].token = k =>
              charges[k] = 0 /\ \A c \in Clients : ~Paying(c, k)
        /\ \A c \in Clients : Paying(c, k) =>
              charges[k] = 0 /\ \A d \in Clients : Paying(d, k) => d = c
        /\ charges[k] \in Nat /\ charges[k] <= 1
    BY DEF TokenInv, TokensStayHome, TokensMoveOn, CardShape
  <2>2. \A z \in HoldersOf(k) :
           \/ \E id \in Orders : z = <<"order", id>> /\ orders[id].token = k
           \/ \E c \in Clients : z = <<"payer", c>> /\ Paying(c, k)
           \/ \E i \in 1..charges[k] : z = <<"charge", i>>
    BY DEF HoldersOf, Paying
  <2>3. \A i \in 1..charges[k] : i = 1 /\ charges[k] = 1
    BY <2>1
  <2>4. CASE \E id \in Orders : x = <<"order", id>> /\ orders[id].token = k
    BY <2>1, <2>2, <2>3, <2>4
  <2>5. CASE \E c \in Clients : x = <<"payer", c>> /\ Paying(c, k)
    BY <2>1, <2>2, <2>3, <2>5
  <2>6. CASE \E i \in 1..charges[k] : x = <<"charge", i>>
    BY <2>1, <2>2, <2>3, <2>6
  <2> QED BY <2>2, <2>4, <2>5, <2>6
<1>2. TokensAreSpentOnce
  BY <1>1 DEF TokenInv, TokensStayHome, TokensAreSpentOnce
<1> QED BY <1>2 DEF TokenInv, TokensAreSafe

\* However card requests, callbacks and crashes race, a card token charges at
\* most once, for the order it was issued for, and no closed order keeps one.
THEOREM TokensSafe == CardSpec => []TokensAreSafe
  BY CardInvariant, TokensInOnePlace, PTL DEF CardInv

\* Beside the card requests too, a paid order is credited once ...
THEOREM CardsCreditOnce == CardSpec => []PaymentsCreditOnce
<1>1. CardInv => PaymentsCreditOnce
  BY DEF CardInv, Inv
<1> QED BY <1>1, CardInvariant, PTL

\* ... and what Click and Paynet are answered is true when it is sent.
THEOREM CardsKeepAnswers == CardSpec => []AnswersHold
<1>1. CardInv => AnswersHold
  BY DEF CardInv, Inv, RequestsHold, RequestHolds, AnswersHold
<1> QED BY <1>1, CardInvariant, PTL

\* Card requests add nothing to what TopUps promises of an order: the order
\* table, the callbacks and the card requests together implement it.
THEOREM CardsImplement == CardSpec => ImplementsTopUps
<1>1. CardInv /\ [CardNext]_allVars => [Promise!AbstractNext]_Promise!abstractVars
  BY CardNextInv DEF Abstract
<1>2. CardInit => Promise!AbstractInit
  BY RefineInit DEF CardInit
<1> QED BY <1>1, <1>2, CardInvariant, PTL
        DEF CardSpec, ImplementsTopUps, Promise!AbstractSpec
=============================================================================
