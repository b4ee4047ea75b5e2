---------------------------- MODULE WalletProofs -----------------------------
(***************************************************************************)
(* Theorems about everything but top-ups that changes a wallet: purchases, *)
(* an admin's changes, resets and grants (WalletOps), and the rewards of   *)
(* referrals (Referrals), for every value of the constants.                *)
(*                                                                         *)
(* In the second half, about the database that all of it is stored in: the *)
(* schema that the bot and the API bring up to date as they start          *)
(* (Schema), in any order and for any number of stops.                     *)
(***************************************************************************)
EXTENDS Referrals, Schema, SequenceTheorems, FiniteSetTheorems, WellFoundedInduction, TLAPS

-----------------------------------------------------------------------------
(***************************************************************************)
(* One row more. Every change of a wallet appends one row to one user's    *)
(* ledger.                                                                 *)
(***************************************************************************)
\* The wallet v is w with one row more, which explains the balance.
OneRow(w, v, kind, amount) ==
    /\ v \in WalletRecord
    /\ \E row \in Row : /\ v.rows = Append(w.rows, row)
                        /\ row.kind = kind /\ row.amount = amount /\ row.after = v.balance
    /\ v.balance = w.balance + amount

\* The user u's wallet becomes v, and nobody else's changes.
OnlyChanges(u, v) ==
    /\ wallet' \in [Users -> WalletRecord]
    /\ wallet'[u] = v
    /\ \A x \in Users : x # u => wallet'[x] = wallet[x]

\* What one row more leaves of the rows before it.
LEMMA RowsAfter ==
    ASSUME NEW w \in WalletRecord, NEW v, NEW kind, NEW amount, OneRow(w, v, kind, amount)
    PROVE  /\ Len(w.rows) \in Nat /\ DOMAIN w.rows = 1..Len(w.rows)
           /\ DOMAIN v.rows = 1..(Len(w.rows) + 1) /\ Len(v.rows) = Len(w.rows) + 1
           /\ \A i \in 1..Len(w.rows) : v.rows[i] = w.rows[i]
           /\ v.rows[Len(w.rows) + 1].kind = kind
           /\ v.rows[Len(w.rows) + 1].amount = amount
           /\ v.rows[Len(w.rows) + 1].after = v.balance
<1>1. PICK row \in Row : /\ v.rows = Append(w.rows, row)
                         /\ row.kind = kind /\ row.amount = amount /\ row.after = v.balance
  BY DEF OneRow
<1>2. w.rows \in Seq(Row)
  BY DEF WalletRecord
<1> QED BY <1>1, <1>2

\* One row more explains what the rows before it explained.
LEMMA OneRowExplains ==
    ASSUME NEW w \in WalletRecord, NEW v, NEW kind, NEW amount \in Int,
           OneRow(w, v, kind, amount), Explained(w)
    PROVE  Explained(v)
<1> DEFINE n == Len(w.rows)
<1>1. /\ n \in Nat /\ Len(v.rows) = n + 1
      /\ \A i \in 1..n : v.rows[i] = w.rows[i]
      /\ v.rows[n + 1].amount = amount /\ v.rows[n + 1].after = v.balance
  BY RowsAfter
<1>2. /\ w.balance \in Int /\ v.balance = w.balance + amount
      /\ w.balance = BalanceAfter(w.rows, n)
      /\ \A i \in 1..n : w.rows[i].after = BalanceAfter(w.rows, i - 1) + w.rows[i].amount
  BY DEF WalletRecord, OneRow, Explained
<1> HIDE DEF n
<1>3. \A i \in 0..n : BalanceAfter(v.rows, i) = BalanceAfter(w.rows, i)
  BY <1>1 DEF BalanceAfter
<1>4. BalanceAfter(v.rows, n + 1) = v.balance
  BY <1>1 DEF BalanceAfter
<1>5. ASSUME NEW i \in 1..(n + 1)
      PROVE  v.rows[i].after = BalanceAfter(v.rows, i - 1) + v.rows[i].amount
  <2>1. CASE i = n + 1
    <3>1. BalanceAfter(v.rows, n) = w.balance
      BY <1>1, <1>2, <1>3
    <3> QED BY <1>1, <1>2, <2>1, <3>1
  <2>2. CASE i \in 1..n
    <3>1. BalanceAfter(v.rows, i - 1) = BalanceAfter(w.rows, i - 1)
      BY <1>1, <1>3, <2>2
    <3> QED BY <1>1, <1>2, <2>2, <3>1
  <2> QED BY <1>1, <2>1, <2>2
<1> QED BY <1>1, <1>4, <1>5 DEF Explained

\* apply_balance_change appends one row.
LEMMA BalanceChangeIsOneRow ==
    ASSUME NEW w \in WalletRecord, NEW kind \in Kinds, NEW amount \in Int
    PROVE  LET v == ApplyBalanceChange(w, kind, amount, NoReference) IN
           OneRow(w, v, kind, amount) /\ v.pro = w.pro /\ v.until = w.until
<1> DEFINE v == ApplyBalanceChange(w, kind, amount, NoReference)
           row == [kind |-> kind, amount |-> amount, after |-> w.balance + amount,
                   ref |-> NoReference]
<1>1. w.balance \in Int /\ w.balance + amount \in Int /\ w.rows \in Seq(Row)
  BY DEF WalletRecord
<1>2. row \in Row
  BY <1>1 DEF Row
<1>3. /\ v.rows = Append(w.rows, row) /\ v.balance = w.balance + amount
      /\ v.pro = w.pro /\ v.until = w.until
  BY DEF ApplyBalanceChange, WalletRecord
<1>4. Append(w.rows, row) \in Seq(Row)
  BY <1>1, <1>2
<1>5. v \in WalletRecord
  BY <1>1, <1>4 DEF ApplyBalanceChange, WalletRecord
<1>6. row.kind = kind /\ row.amount = amount /\ row.after = v.balance
  BY <1>3
<1> HIDE DEF v, row
<1>7. OneRow(w, v, kind, amount)
  BY <1>2, <1>3, <1>5, <1>6 DEF OneRow
<1> QED BY <1>3, <1>7 DEF v

LEMMA PurchaseIsOneRow ==
    ASSUME NEW w \in WalletRecord, NEW charged \in Int
    PROVE  LET v == ActivatePro(w, charged) IN
           OneRow(w, v, "pro_activation", -charged) /\ v.pro = TRUE
<1> DEFINE c == ApplyBalanceChange(w, "pro_activation", -charged, NoReference)
           v == ActivatePro(w, charged)
<1>1. OneRow(w, c, "pro_activation", -charged)
  <2>1. "pro_activation" \in Kinds /\ -charged \in Int
    BY DEF Kinds
  <2> QED BY <2>1, BalanceChangeIsOneRow
<1>2. c \in WalletRecord
  BY <1>1 DEF OneRow
<1>3. v = [c EXCEPT !.pro = TRUE]
  BY DEF ActivatePro
<1> HIDE DEF c, v
<1>4. v \in WalletRecord /\ v.rows = c.rows /\ v.balance = c.balance /\ v.pro = TRUE
  BY <1>2, <1>3 DEF WalletRecord
<1>5. OneRow(w, v, "pro_activation", -charged)
  BY <1>1, <1>4 DEF OneRow
<1> QED BY <1>4, <1>5 DEF v

\* A wallet with other rows, another balance and another flag is a wallet.
LEMMA OtherWallet ==
    ASSUME NEW w \in WalletRecord, NEW b \in Int, NEW p \in BOOLEAN, NEW rows \in Seq(Row)
    PROVE  [w EXCEPT !.balance = b, !.pro = p, !.rows = rows] \in WalletRecord
  BY DEF WalletRecord

LEMMA ResetIsOneRow ==
    ASSUME NEW w \in WalletRecord
    PROVE  LET v == ResetUser(w, w.balance) IN
           OneRow(w, v, "admin_reset", -w.balance) /\ v.balance = 0
<1> DEFINE v == ResetUser(w, w.balance)
           row == [kind |-> "admin_reset", amount |-> -w.balance, after |-> 0,
                   ref |-> NoReference]
<1>1. w.balance \in Int /\ w.rows \in Seq(Row)
  BY DEF WalletRecord
<1>2. row \in Row
  BY <1>1 DEF Row, Kinds
<1>3. v.rows = Append(w.rows, row) /\ v.balance = 0
  BY DEF ResetUser, WalletRecord
<1>4. Append(w.rows, row) \in Seq(Row)
  BY <1>1, <1>2
<1>5. v \in WalletRecord
  <2>1. v = [w EXCEPT !.balance = 0, !.pro = FALSE, !.rows = Append(w.rows, row)]
    BY DEF ResetUser
  <2>2. 0 \in Int /\ FALSE \in BOOLEAN
    OBVIOUS
  <2> HIDE DEF v, row
  <2> QED BY <1>4, <2>1, <2>2, OtherWallet
<1>6. row.kind = "admin_reset" /\ row.amount = -w.balance /\ row.after = v.balance
      /\ v.balance = w.balance + (-w.balance)
  BY <1>1, <1>3
<1> HIDE DEF v, row
<1>7. OneRow(w, v, "admin_reset", -w.balance)
  BY <1>2, <1>3, <1>5, <1>6 DEF OneRow
<1> QED BY <1>3, <1>7 DEF v

LEMMA GrantIsOneRow ==
    ASSUME NEW w \in WalletRecord, NEW p \in BOOLEAN, NEW until \in Int
    PROVE  LET v == [ApplyBalanceChange(w, "adjustment", 0, NoReference)
                        EXCEPT !.pro = p, !.until = until] IN
           OneRow(w, v, "adjustment", 0)
<1> DEFINE c == ApplyBalanceChange(w, "adjustment", 0, NoReference)
           v == [c EXCEPT !.pro = p, !.until = until]
<1>1. OneRow(w, c, "adjustment", 0)
  <2>1. "adjustment" \in Kinds
    BY DEF Kinds
  <2> QED BY <2>1, BalanceChangeIsOneRow
<1>2. c \in WalletRecord
  BY <1>1 DEF OneRow
<1> HIDE DEF c
<1>3. v \in WalletRecord /\ v.rows = c.rows /\ v.balance = c.balance
  BY <1>2 DEF WalletRecord
<1> HIDE DEF v
<1>4. OneRow(w, v, "adjustment", 0)
  BY <1>1, <1>3 DEF OneRow
<1> QED BY <1>4 DEF v, c

\* Change writes one user's wallet.
LEMMA ChangeIsOfOne ==
    ASSUME WalletTypeOK, NEW u \in Users, NEW v \in WalletRecord, Change(u, v)
    PROVE  OnlyChanges(u, v)
  BY DEF WalletTypeOK, Change, OnlyChanges

-----------------------------------------------------------------------------
(***************************************************************************)
(* The invariant.                                                          *)
(***************************************************************************)
OpsShape ==
    /\ OpsTypeOK
    /\ \A r \in Requests : work[r].pc # "idle" => work[r].user \in Users

\* An update knows its newcomer once it inserts one, and the inviter of the
\* newcomer's row once it has.
ReferralsShape ==
    /\ refBy \in [Newcomers -> Users \cup {NoUser, Unknown}]
    /\ payouts \subseteq Payout /\ IsFiniteSet(payouts)
    /\ reward \in Rewards
    /\ updates \in [Updates -> Update]
    /\ \A m \in Updates : updates[m].pc # "idle" => updates[m].user \in Newcomers
    /\ \A m \in Updates : updates[m].pc \in {"reward", "pay"} =>
          updates[m].inviter \in Users /\ refBy[updates[m].user] = updates[m].inviter

Undoing == {"admin_reset", "adjustment"}

\* Who has paid for Pro, and was not reset or overruled since, has it.
ProIsCharged ==
    \A u \in Users : \A i \in DOMAIN wallet[u].rows :
        /\ KindAt(u, i) = "pro_activation"
        /\ \A k \in i..Len(wallet[u].rows) : KindAt(u, k) \notin Undoing
        => wallet[u].pro = TRUE

\* A change with a key has a claim until the claim has run out.
ClaimsLast ==
    \A a \in audit : /\ a.at <= now
                     /\ a.key # NoKey =>
                           \/ a.at + TTL < now
                           \/ \E c \in keys : c.key = a.key /\ c.at = a.at

Inv ==
    /\ OpsShape
    /\ ReferralsShape
    /\ LedgerExplainsBalance
    /\ PurchasesAreCovered
    /\ ProIsCharged
    /\ AuditMatchesLedger
    /\ ClaimsLast
    /\ ReferralsPayOnce

LEMMA WalletConstants ==
    /\ Prices \subseteq Nat /\ Changes \subseteq Int /\ Rewards \subseteq Nat
    /\ NoKey \notin Keys /\ NoUser \notin Users /\ TTL \in Nat
    /\ GrantTimes \subseteq Nat /\ Never \in Int /\ MaxTime \in Nat
    /\ Unknown \notin Users \cup {NoUser} /\ Newcomers \cap Users = {}
  BY WalletOpsAssumption, ReferralsAssumption DEF Never

LEMMA InitInv == ReferralsInit => Inv
<1> SUFFICES ASSUME ReferralsInit PROVE Inv
  OBVIOUS
<1> USE DEF ReferralsInit, OpsInit
<1>1. /\ EmptyWallet \in WalletRecord /\ EmptyWallet.rows = <<>> /\ EmptyWallet.balance = 0
      /\ Len(EmptyWallet.rows) = 0 /\ DOMAIN EmptyWallet.rows = {}
  BY DEF EmptyWallet, WalletRecord, Never
<1>2. \A u \in Users : wallet[u] = EmptyWallet
  BY DEF WalletInit
<1>3. OpsShape
  BY <1>1, WalletConstants DEF OpsShape, OpsTypeOK, WalletTypeOK, WalletInit, NoWork, Work
<1>4. ReferralsShape
  BY FS_EmptySet DEF ReferralsShape, NoUpdate, Update
<1>5. LedgerExplainsBalance
  <2>1. BalanceAfter(EmptyWallet.rows, Len(EmptyWallet.rows)) = EmptyWallet.balance
    BY <1>1 DEF BalanceAfter
  <2>2. 1..Len(EmptyWallet.rows) = {}
    BY <1>1
  <2> QED BY <1>2, <2>1, <2>2 DEF LedgerExplainsBalance, Explained
<1>6. PurchasesAreCovered /\ ProIsCharged
  BY <1>1, <1>2 DEF PurchasesAreCovered, ProIsCharged
<1>7. AuditMatchesLedger /\ ClaimsLast
  BY <1>1, <1>2 DEF AuditMatchesLedger, ClaimsLast
<1>8. ReferralsPayOnce
  <2>1. \A u \in Users : RewardRows(u) = {}
    BY <1>1, <1>2 DEF RewardRows
  <2>2. \A u \in Users : {p \in payouts : p.inviter = u} = {}
    OBVIOUS
  <2> QED BY <2>1, <2>2 DEF ReferralsPayOnce
<1> QED BY <1>3, <1>4, <1>5, <1>6, <1>7, <1>8 DEF Inv

-----------------------------------------------------------------------------
(***************************************************************************)
(* What a step does to the wallets.                                        *)
(***************************************************************************)
WalletStep(u, kind, amount) ==
    /\ u \in Users /\ amount \in Int
    /\ OneRow(wallet[u], wallet'[u], kind, amount)
    /\ OnlyChanges(u, wallet'[u])
    /\ wallet[u].balance >= 0 => wallet'[u].balance >= 0
    /\ kind = "pro_activation" => wallet[u].pro = FALSE /\ wallet'[u].pro = TRUE
    /\ kind \in {"admin_credit", "referral_reward"} => wallet'[u].pro = wallet[u].pro

LEMMA BuyStep ==
    ASSUME OpsShape, NEW r \in Requests, BuyPro(r)
    PROVE  WalletStep(work[r].user, "pro_activation", -work[r].read)
<1> DEFINE u == work[r].user
           v == ActivatePro(wallet[u], work[r].read)
<1>1. u \in Users /\ work[r].read \in Int /\ WalletTypeOK /\ wallet[u] \in WalletRecord
  BY DEF OpsShape, OpsTypeOK, Work, BuyPro, WalletTypeOK
<1>2. OneRow(wallet[u], v, "pro_activation", -work[r].read) /\ v.pro = TRUE
  BY <1>1, PurchaseIsOneRow
<1>3. Change(u, v) /\ wallet[u].balance >= work[r].read /\ ~wallet[u].pro
  BY DEF BuyPro, CanActivatePro
<1>4. wallet[u].balance \in Int /\ wallet[u].pro \in BOOLEAN
  BY <1>1 DEF WalletRecord
<1>5. v \in WalletRecord /\ v.balance = wallet[u].balance + (-work[r].read)
  BY <1>2 DEF OneRow
<1>6. v.balance >= 0
  BY <1>1, <1>3, <1>4, <1>5
<1> HIDE DEF v
<1>7. OnlyChanges(u, v) /\ wallet'[u] = v
  BY <1>1, <1>3, <1>5, ChangeIsOfOne DEF OnlyChanges
<1> QED BY <1>1, <1>2, <1>3, <1>4, <1>6, <1>7 DEF WalletStep, u

LEMMA ChangeBalanceStep ==
    ASSUME OpsShape, NEW u \in Users, NEW amount \in Changes, NEW key \in Keys \cup {NoKey},
           ChangeBalance(u, amount, key)
    PROVE  WalletStep(u, "admin_credit", amount)
<1> DEFINE v == ApplyBalanceChange(wallet[u], "admin_credit", amount, NoReference)
<1>1. amount \in Int /\ WalletTypeOK /\ wallet[u] \in WalletRecord /\ "admin_credit" \in Kinds
  BY WalletConstants DEF OpsShape, OpsTypeOK, WalletTypeOK, Kinds
<1>2. OneRow(wallet[u], v, "admin_credit", amount) /\ v.pro = wallet[u].pro
  BY <1>1, BalanceChangeIsOneRow
<1>3. Change(u, v) /\ (amount < 0 => wallet[u].balance >= -amount)
  BY DEF ChangeBalance, Sufficient
<1>4. wallet[u].balance \in Int
  BY <1>1 DEF WalletRecord
<1>5. v \in WalletRecord /\ v.balance = wallet[u].balance + amount
  BY <1>2 DEF OneRow
<1>6. wallet[u].balance >= 0 => v.balance >= 0
  BY <1>1, <1>3, <1>4, <1>5
<1> HIDE DEF v
<1>7. OnlyChanges(u, v) /\ wallet'[u] = v
  BY <1>1, <1>3, <1>5, ChangeIsOfOne DEF OnlyChanges
<1> QED BY <1>1, <1>2, <1>6, <1>7 DEF WalletStep

LEMMA ResetStep ==
    ASSUME OpsShape, NEW r \in Requests, ResetBalance(r)
    PROVE  WalletStep(work[r].user, "admin_reset", -wallet[work[r].user].balance)
<1> DEFINE u == work[r].user
           v == ResetUser(wallet[u], wallet[u].balance)
<1>1. u \in Users /\ WalletTypeOK /\ wallet[u] \in WalletRecord
  BY DEF OpsShape, OpsTypeOK, Work, ResetBalance, WalletTypeOK
<1>2. OneRow(wallet[u], v, "admin_reset", -wallet[u].balance) /\ v.balance = 0
  BY <1>1, ResetIsOneRow
<1>3. Change(u, v)
  <2>1. MatchedBalance(work[r].read, u) = wallet[u].balance
    BY SMTT(40) DEF MatchedBalance
  <2> QED BY <2>1 DEF ResetBalance
<1> HIDE DEF u, v
<1>4. v \in WalletRecord /\ -wallet[u].balance \in Int
  BY <1>1, <1>2 DEF OneRow, WalletRecord
<1>5. OnlyChanges(u, v) /\ wallet'[u] = v
  BY <1>1, <1>3, <1>4, ChangeIsOfOne DEF OnlyChanges
<1> HIDE DEF u
<1> QED BY <1>1, <1>2, <1>4, <1>5 DEF WalletStep, u

LEMMA SetProStep ==
    ASSUME OpsShape, NEW u \in Users, NEW p \in BOOLEAN, NEW until \in Int, SetUserPro(u, p, until)
    PROVE  WalletStep(u, "adjustment", 0)
<1> DEFINE v == [ApplyBalanceChange(wallet[u], "adjustment", 0, NoReference)
                    EXCEPT !.pro = p, !.until = until]
<1>1. WalletTypeOK /\ wallet[u] \in WalletRecord /\ wallet[u].balance \in Int
  BY DEF OpsShape, OpsTypeOK, WalletTypeOK, WalletRecord
<1>2. OneRow(wallet[u], v, "adjustment", 0)
  BY <1>1, GrantIsOneRow
<1>3. Change(u, v)
  BY DEF SetUserPro
<1>4. v \in WalletRecord /\ v.balance = wallet[u].balance + 0
  BY <1>2 DEF OneRow
<1> HIDE DEF v
<1>5. OnlyChanges(u, v) /\ wallet'[u] = v
  BY <1>1, <1>3, <1>4, ChangeIsOfOne DEF OnlyChanges
<1> QED BY <1>1, <1>2, <1>4, <1>5 DEF WalletStep

LEMMA GrantStep ==
    ASSUME OpsShape, NEW u \in Users, GrantPro(u) \/ RevokePro(u)
    PROVE  WalletStep(u, "adjustment", 0) /\ UNCHANGED <<price, now, work, keys, audit>>
<1>1. now \in Int /\ Never \in Int /\ \A days \in GrantTimes : now + days \in Int
  BY WalletConstants DEF OpsShape, OpsTypeOK
<1>2. PICK p \in BOOLEAN, until \in Int : SetUserPro(u, p, until)
  BY <1>1 DEF GrantPro, RevokePro
<1> QED BY <1>2, SetProStep DEF SetUserPro

LEMMA PayStep ==
    ASSUME OpsShape, ReferralsShape, NEW m \in Updates, PayReward(m)
    PROVE  /\ updates[m].user \in Newcomers /\ updates[m].inviter \in Users
           /\ updates[m].amount \in Nat
           /\ refBy[updates[m].user] = updates[m].inviter
           /\ \/ UNCHANGED <<wallet, payouts>>
              \/ /\ ~PaidFor(updates[m].user)
                 /\ payouts' = payouts \cup {[user |-> updates[m].user,
                                              inviter |-> updates[m].inviter,
                                              amount |-> updates[m].amount]}
                 /\ WalletStep(updates[m].inviter, "referral_reward", updates[m].amount)
<1> DEFINE u == updates[m].inviter
           amount == updates[m].amount
           v == Rewarded(wallet[u], amount)
<1>1. /\ u \in Users /\ updates[m].user \in Newcomers /\ amount \in Nat /\ amount \in Int
      /\ refBy[updates[m].user] = u
      /\ WalletTypeOK /\ wallet[u] \in WalletRecord /\ "referral_reward" \in Kinds
  BY DEF OpsShape, OpsTypeOK, ReferralsShape, Update, PayReward, WalletTypeOK, Kinds
<1>2. OneRow(wallet[u], v, "referral_reward", amount) /\ v.pro = wallet[u].pro
  BY <1>1, BalanceChangeIsOneRow DEF Rewarded
<1> HIDE DEF v
<1>3. v \in WalletRecord /\ v.balance = wallet[u].balance + amount /\ wallet[u].balance \in Int
  <2>1. v \in WalletRecord /\ v.balance = wallet[u].balance + amount
    BY <1>2 DEF OneRow
  <2>2. wallet[u].balance \in Int
    <3> HIDE DEF u, amount
    <3> QED BY <1>1 DEF WalletRecord
  <2> QED BY <2>1, <2>2
<1>4. CASE PaidFor(updates[m].user)
  BY <1>1, <1>4 DEF PayReward
<1>5. CASE ~PaidFor(updates[m].user)
  <2>1. Change(u, v) /\ payouts' = payouts \cup {[user |-> updates[m].user, inviter |-> u,
                                                   amount |-> amount]}
    BY <1>5 DEF PayReward, v
  <2>2. OnlyChanges(u, v) /\ wallet'[u] = v
    BY <1>1, <1>3, <2>1, ChangeIsOfOne DEF OnlyChanges
  <2>3. wallet[u].balance >= 0 => wallet'[u].balance >= 0
    BY <1>1, <1>3, <2>2
  <2>4. WalletStep(u, "referral_reward", amount)
    <3> HIDE DEF u, amount
    <3> QED BY <1>1, <1>2, <2>2, <2>3 DEF WalletStep
  <2> QED BY <1>1, <1>5, <2>1, <2>4
<1> QED BY <1>4, <1>5

\* A step that changes no wallet, or one of four that do.
LEMMA StepKinds ==
    ASSUME Inv, [ReferralsNext]_allVars
    PROVE  \/ UNCHANGED <<wallet, audit, keys, payouts>> /\ now' \in {now, now + 1}
           \/ \E u \in Users, kind \in {"pro_activation"} \cup Undoing, amount \in Int :
                 WalletStep(u, kind, amount) /\ UNCHANGED <<audit, keys, now, payouts>>
           \/ \E u \in Users, amount \in Changes, key \in Keys \cup {NoKey} :
                 /\ ChangeBalance(u, amount, key) /\ WalletStep(u, "admin_credit", amount)
                 /\ UNCHANGED payouts
           \/ \E m \in Updates : PayReward(m)
<1> DEFINE quiet == UNCHANGED <<wallet, audit, keys, payouts>> /\ now' \in {now, now + 1}
<1>0. OpsShape
  BY DEF Inv
<1>1. CASE UNCHANGED allVars
  BY <1>1 DEF allVars, opsVars, refVars
<1>2. CASE OpsNext /\ UNCHANGED refVars
  <2>1. UNCHANGED payouts
    BY <1>2 DEF refVars
  <2>2. ASSUME NEW r \in Requests, NEW u \in Users, ReadPrice(r, u) \/ ReadBalance(r, u) PROVE quiet
    BY <2>1, <2>2 DEF ReadPrice, ReadBalance
  <2>3. ASSUME NEW r \in Requests, BuyPro(r)
        PROVE  \E u \in Users, kind \in {"pro_activation"} \cup Undoing, amount \in Int :
                  WalletStep(u, kind, amount) /\ UNCHANGED <<audit, keys, now, payouts>>
    <3>1. WalletStep(work[r].user, "pro_activation", -work[r].read)
      BY <1>0, <2>3, BuyStep
    <3>2. work[r].user \in Users /\ -work[r].read \in Int
      BY <3>1 DEF WalletStep
    <3>3. UNCHANGED <<audit, keys, now>>
      BY <2>3 DEF BuyPro
    <3> QED BY <2>1, <3>1, <3>2, <3>3
  <2>4. ASSUME NEW r \in Requests, ResetBalance(r)
        PROVE  \E u \in Users, kind \in {"pro_activation"} \cup Undoing, amount \in Int :
                  WalletStep(u, kind, amount) /\ UNCHANGED <<audit, keys, now, payouts>>
    <3>1. WalletStep(work[r].user, "admin_reset", -wallet[work[r].user].balance)
      BY <1>0, <2>4, ResetStep
    <3>2. work[r].user \in Users /\ -wallet[work[r].user].balance \in Int
      BY <3>1 DEF WalletStep
    <3>3. UNCHANGED <<audit, keys, now>>
      BY <2>4 DEF ResetBalance
    <3>4. "admin_reset" \in Undoing
      BY DEF Undoing
    <3> QED BY <2>1, <3>1, <3>2, <3>3, <3>4
  <2>5. ASSUME NEW r \in Requests, GiveUp(r) PROVE quiet
    BY <2>1, <2>5 DEF GiveUp
  <2>6. ASSUME NEW u \in Users, NEW amount \in Changes, NEW key \in Keys \cup {NoKey},
               ChangeBalance(u, amount, key)
        PROVE  ChangeBalance(u, amount, key) /\ WalletStep(u, "admin_credit", amount)
               /\ UNCHANGED payouts
    BY <1>0, <2>1, <2>6, ChangeBalanceStep
  <2>7. ASSUME NEW u \in Users, GrantPro(u) \/ RevokePro(u)
        PROVE  \E kind \in {"pro_activation"} \cup Undoing, amount \in Int :
                  WalletStep(u, kind, amount) /\ UNCHANGED <<audit, keys, now, payouts>>
    <3>1. WalletStep(u, "adjustment", 0) /\ UNCHANGED <<audit, keys, now>>
      BY <1>0, <2>7, GrantStep
    <3>2. "adjustment" \in Undoing /\ 0 \in Int
      BY DEF Undoing
    <3> QED BY <2>1, <3>1, <3>2
  <2>8. ASSUME NEW p \in Prices, SetProPrice(p) PROVE quiet
    BY <2>1, <2>8 DEF SetProPrice
  <2>9. ASSUME Tick PROVE quiet
    BY <2>1, <2>9 DEF Tick
  <2> HIDE DEF quiet
  <2>10. CASE \E r \in Requests :
          \/ \E u \in Users : ReadPrice(r, u) \/ ReadBalance(r, u)
          \/ BuyPro(r) \/ ResetBalance(r) \/ GiveUp(r)
    BY <2>2, <2>3, <2>4, <2>5, <2>10 DEF quiet
  <2>11. CASE \E u \in Users :
          \/ \E amount \in Changes, key \in Keys \cup {NoKey} : ChangeBalance(u, amount, key)
          \/ GrantPro(u) \/ RevokePro(u)
    BY <2>6, <2>7, <2>11
  <2>12. CASE (\E p \in Prices : SetProPrice(p)) \/ Tick
    BY <2>8, <2>9, <2>12 DEF quiet
  <2> QED BY <1>2, <2>10, <2>11, <2>12 DEF OpsNext
<1>3. CASE \E m \in Updates :
          \/ \E n \in Newcomers, inviter \in Users \cup {NoUser} : FirstMessage(m, n, inviter)
          \/ InsertUser(m) \/ ReadReward(m) \/ DropUpdate(m)
  BY <1>3 DEF FirstMessage, InsertUser, ReadReward, DropUpdate, opsVars
<1>4. CASE (\E n \in Newcomers : ApiInsertsUser(n)) \/ (\E amount \in Rewards : SetReward(amount))
  BY <1>4 DEF ApiInsertsUser, SetReward, opsVars
<1> HIDE DEF quiet
<1> QED BY <1>1, <1>2, <1>3, <1>4 DEF ReferralsNext

-----------------------------------------------------------------------------
(***************************************************************************)
(* The state keeps its shape.                                              *)
(***************************************************************************)
\* The change of one wallet leaves the wallets their type.
LEMMA WalletsKeepType ==
    ASSUME NEW u, NEW v, OnlyChanges(u, v)
    PROVE  WalletTypeOK'
  BY DEF OnlyChanges, WalletTypeOK

LEMMA NoWorkIsWork == NoWork \in Work /\ NoWork.pc = "idle"
  BY DEF NoWork, Work

\* One request gets other work, and no wallet, key or audit row is written.
LEMMA WorkKeepsShape ==
    ASSUME OpsShape, NEW r \in Requests, NEW h \in Work, work' = [work EXCEPT ![r] = h],
           h.pc # "idle" => h.user \in Users,
           WalletTypeOK', UNCHANGED <<price, now, keys, audit>>
    PROVE  OpsShape'
  BY DEF OpsShape, OpsTypeOK

LEMMA ReadKeepsShape ==
    ASSUME OpsShape, NEW r \in Requests, NEW u \in Users, ReadPrice(r, u) \/ ReadBalance(r, u)
    PROVE  OpsShape'
<1>1. WalletTypeOK /\ price \in Int /\ wallet[u] \in WalletRecord /\ wallet[u].balance \in Int
  BY WalletConstants DEF OpsShape, OpsTypeOK, WalletTypeOK, WalletRecord
<1>2. UNCHANGED <<wallet, price, now, keys, audit>> /\ WalletTypeOK'
  BY <1>1 DEF ReadPrice, ReadBalance, WalletTypeOK
<1>3. CASE ReadPrice(r, u)
  <2> DEFINE h == [pc |-> "buying", user |-> u, read |-> price]
  <2>1. h \in Work /\ h.user \in Users
    BY <1>1 DEF Work
  <2>2. work' = [work EXCEPT ![r] = h]
    BY <1>3 DEF ReadPrice
  <2> HIDE DEF h
  <2> QED BY <1>2, <2>1, <2>2, WorkKeepsShape
<1>4. CASE ReadBalance(r, u)
  <2> DEFINE h == [pc |-> "resetting", user |-> u, read |-> wallet[u].balance]
  <2>1. h \in Work /\ h.user \in Users
    BY <1>1 DEF Work
  <2>2. work' = [work EXCEPT ![r] = h]
    BY <1>4 DEF ReadBalance
  <2> HIDE DEF h
  <2> QED BY <1>2, <2>1, <2>2, WorkKeepsShape
<1> QED BY <1>3, <1>4

LEMMA ServedKeepsShape ==
    ASSUME OpsShape, NEW r \in Requests, BuyPro(r) \/ ResetBalance(r) \/ GiveUp(r)
    PROVE  OpsShape'
<1>1. WalletTypeOK'
  <2>1. CASE BuyPro(r)
    BY <2>1, BuyStep, WalletsKeepType DEF WalletStep
  <2>2. CASE ResetBalance(r)
    BY <2>2, ResetStep, WalletsKeepType DEF WalletStep
  <2>3. CASE GiveUp(r)
    BY <2>3 DEF GiveUp, OpsShape, OpsTypeOK, WalletTypeOK
  <2> QED BY <2>1, <2>2, <2>3
<1>2. work' = [work EXCEPT ![r] = NoWork] /\ UNCHANGED <<price, now, keys, audit>>
  BY DEF BuyPro, ResetBalance, GiveUp
<1> QED BY <1>1, <1>2, NoWorkIsWork, WorkKeepsShape

\* The records a balance change writes.
LEMMA ChangeBalanceWrites ==
    ASSUME OpsShape, NEW u \in Users, NEW amount \in Changes, NEW key \in Keys \cup {NoKey},
           ChangeBalance(u, amount, key)
    PROVE  LET tx == Len(wallet[u].rows) + 1
               c == [key |-> key, user |-> u, amount |-> amount, at |-> now, tx |-> tx]
               a == [user |-> u, tx |-> tx, amount |-> amount, key |-> key, at |-> now]
           IN  /\ tx \in Nat /\ a \in AuditRecord /\ (key # NoKey => c \in Claim)
               /\ audit' = audit \cup {a}
               /\ keys' = IF key = NoKey THEN keys ELSE {d \in keys : ~Expired(d)} \cup {c}
               /\ UNCHANGED <<price, now, work>>
<1>1. wallet[u].rows \in Seq(Row) /\ Len(wallet[u].rows) + 1 \in Nat /\ now \in Nat /\ amount \in Int
  BY WalletConstants DEF OpsShape, OpsTypeOK, WalletTypeOK, WalletRecord
<1> QED BY <1>1 DEF ChangeBalance, StoreClaim, AuditRecord, Claim

LEMMA ChangeBalanceKeepsShape ==
    ASSUME OpsShape, NEW u \in Users, NEW amount \in Changes, NEW key \in Keys \cup {NoKey},
           ChangeBalance(u, amount, key)
    PROVE  OpsShape'
<1>1. WalletTypeOK'
  BY ChangeBalanceStep, WalletsKeepType DEF WalletStep
<1>2. keys' \subseteq Claim /\ audit' \subseteq AuditRecord /\ UNCHANGED <<price, now, work>>
  BY ChangeBalanceWrites, ZenonT(60) DEF OpsShape, OpsTypeOK
<1> QED BY <1>1, <1>2 DEF OpsShape, OpsTypeOK

LEMMA ShapeStep == OpsShape /\ ReferralsShape /\ [ReferralsNext]_allVars => OpsShape'
<1> SUFFICES ASSUME OpsShape, ReferralsShape, [ReferralsNext]_allVars PROVE OpsShape'
  OBVIOUS
<1>1. ASSUME UNCHANGED opsVars PROVE OpsShape'
  BY <1>1 DEF opsVars, OpsShape, OpsTypeOK, WalletTypeOK
<1>2. CASE UNCHANGED allVars
  BY <1>1, <1>2 DEF allVars
<1>3. CASE OpsNext
  <2>1. ASSUME NEW u \in Users, GrantPro(u) \/ RevokePro(u) PROVE OpsShape'
    <3>1. WalletTypeOK' /\ UNCHANGED <<price, now, work, keys, audit>>
      BY <2>1, GrantStep, WalletsKeepType DEF WalletStep
    <3> QED BY <3>1 DEF OpsShape, OpsTypeOK
  <2>2. ASSUME NEW p \in Prices, SetProPrice(p) PROVE OpsShape'
    BY <2>2 DEF SetProPrice, OpsShape, OpsTypeOK, WalletTypeOK
  <2>3. ASSUME Tick PROVE OpsShape'
    BY <2>3, WalletConstants DEF Tick, OpsShape, OpsTypeOK, WalletTypeOK
  <2> QED BY <1>3, <2>1, <2>2, <2>3, ReadKeepsShape, ServedKeepsShape, ChangeBalanceKeepsShape
          DEF OpsNext
<1>4. CASE \E m \in Updates :
          \/ \E n \in Newcomers, inviter \in Users \cup {NoUser} : FirstMessage(m, n, inviter)
          \/ InsertUser(m) \/ ReadReward(m) \/ DropUpdate(m)
  BY <1>1, <1>4 DEF FirstMessage, InsertUser, ReadReward, DropUpdate
<1>5. CASE (\E n \in Newcomers : ApiInsertsUser(n)) \/ (\E amount \in Rewards : SetReward(amount))
  BY <1>1, <1>5 DEF ApiInsertsUser, SetReward
<1>6. ASSUME NEW m \in Updates, PayReward(m) PROVE OpsShape'
  <2>1. WalletTypeOK'
    <3>1. CASE UNCHANGED wallet
      BY <3>1 DEF OpsShape, OpsTypeOK, WalletTypeOK
    <3>2. CASE WalletStep(updates[m].inviter, "referral_reward", updates[m].amount)
      BY <3>2, WalletsKeepType DEF WalletStep
    <3> QED BY <1>6, <3>1, <3>2, PayStep
  <2>2. UNCHANGED <<price, now, work, keys, audit>>
    BY <1>6 DEF PayReward
  <2> QED BY <2>1, <2>2 DEF OpsShape, OpsTypeOK
<1> QED BY <1>2, <1>3, <1>4, <1>5, <1>6 DEF ReferralsNext

LEMMA NoUpdateIsAnUpdate == NoUpdate \in Update /\ NoUpdate.pc = "idle"
  BY DEF NoUpdate, Update

\* An update goes on, and the rows of newcomers that others know stay.
LEMMA GoKeepsShape ==
    ASSUME ReferralsShape, NEW m \in Updates, NEW h \in Update, Go(m, h),
           h.pc # "idle" => h.user \in Newcomers,
           h.pc \in {"reward", "pay"} => h.inviter \in Users /\ refBy'[h.user] = h.inviter,
           refBy' \in [Newcomers -> Users \cup {NoUser, Unknown}],
           \A n \in Newcomers : refBy[n] # Unknown => refBy'[n] = refBy[n],
           payouts' \subseteq Payout, IsFiniteSet(payouts'), reward' = reward
    PROVE  ReferralsShape'
<1>1. updates' \in [Updates -> Update]
  BY DEF Go, ReferralsShape
<1>2. \A x \in Updates : updates'[x] = IF x = m THEN h ELSE updates[x]
  BY DEF Go, ReferralsShape
<1>3. \A x \in Updates : updates'[x].pc # "idle" => updates'[x].user \in Newcomers
  BY <1>2 DEF ReferralsShape
<1>4. ASSUME NEW x \in Updates, updates'[x].pc \in {"reward", "pay"}
      PROVE  updates'[x].inviter \in Users /\ refBy'[updates'[x].user] = updates'[x].inviter
  <2>1. CASE x = m
    BY <1>2, <1>4, <2>1
  <2>2. CASE x # m
    BY <1>2, <1>4, <2>2, WalletConstants DEF ReferralsShape
  <2> QED BY <2>1, <2>2
<1>5. reward' \in Rewards
  BY DEF ReferralsShape
<1> QED BY <1>1, <1>3, <1>4, <1>5 DEF ReferralsShape

LEMMA ReferralsShapeStep ==
    OpsShape /\ ReferralsShape /\ [ReferralsNext]_allVars => ReferralsShape'
<1> SUFFICES ASSUME OpsShape, ReferralsShape, [ReferralsNext]_allVars PROVE ReferralsShape'
  OBVIOUS
<1>1. ASSUME UNCHANGED refVars PROVE ReferralsShape'
  BY <1>1 DEF refVars, ReferralsShape
<1>2. CASE UNCHANGED allVars
  BY <1>1, <1>2 DEF allVars
<1>3. /\ refBy \in [Newcomers -> Users \cup {NoUser, Unknown}]
      /\ payouts \subseteq Payout /\ IsFiniteSet(payouts) /\ reward \in Rewards
      /\ \A m \in Updates : updates[m] \in Update
  BY DEF ReferralsShape
<1>4. ASSUME NEW m \in Updates, NEW n \in Newcomers, NEW inviter \in Users \cup {NoUser},
             FirstMessage(m, n, inviter)
      PROVE  ReferralsShape'
  <2> DEFINE h == [pc |-> "insert", user |-> n, inviter |-> inviter, amount |-> 0]
  <2>1. h \in Update /\ h.pc = "insert" /\ h.user = n
    BY DEF Update
  <2>2. Go(m, h) /\ UNCHANGED <<refBy, payouts, reward>>
    BY <1>4 DEF FirstMessage
  <2> HIDE DEF h
  <2> QED BY <1>3, <2>1, <2>2, GoKeepsShape
<1>5. ASSUME NEW m \in Updates, InsertUser(m) PROVE ReferralsShape'
  <2> DEFINE n == updates[m].user
             inviter == updates[m].inviter
             h == IF Inserted(n) /\ inviter # NoUser
                  THEN [updates[m] EXCEPT !.pc = "reward"] ELSE NoUpdate
  <2>1. n \in Newcomers /\ inviter \in Users \cup {NoUser} /\ updates[m] \in Update
    BY <1>5 DEF InsertUser, ReferralsShape, Update
  <2>2. Go(m, h) /\ UNCHANGED <<payouts, reward>>
        /\ refBy' = [refBy EXCEPT ![n] = IF @ = Unknown THEN inviter ELSE @]
    BY <1>5 DEF InsertUser
  <2>3. /\ refBy' \in [Newcomers -> Users \cup {NoUser, Unknown}]
        /\ \A x \in Newcomers : refBy[x] # Unknown => refBy'[x] = refBy[x]
        /\ Inserted(n) => refBy'[n] = inviter
    BY <1>3, <2>1, <2>2 DEF Inserted
  <2>4. CASE Inserted(n) /\ inviter # NoUser
    <3>1. h \in Update /\ h.user = n /\ h.inviter = inviter
      BY <2>1, <2>4 DEF Update
    <3> HIDE DEF h
    <3> QED BY <1>3, <2>1, <2>2, <2>3, <2>4, <3>1, GoKeepsShape
  <2>5. CASE ~(Inserted(n) /\ inviter # NoUser)
    <3>1. h = NoUpdate
      BY <2>5
    <3> HIDE DEF h
    <3> QED BY <1>3, <2>2, <2>3, <3>1, NoUpdateIsAnUpdate, GoKeepsShape
  <2> QED BY <2>4, <2>5
<1>6. ASSUME NEW n \in Newcomers, ApiInsertsUser(n) PROVE ReferralsShape'
  <2>1. /\ refBy' \in [Newcomers -> Users \cup {NoUser, Unknown}]
        /\ \A x \in Newcomers : refBy[x] # Unknown => refBy'[x] = refBy[x]
    BY <1>3, <1>6 DEF ApiInsertsUser
  <2>2. UNCHANGED <<payouts, reward, updates>>
    BY <1>6 DEF ApiInsertsUser
  <2>3. \A m \in Updates : updates[m].pc \in {"reward", "pay"} =>
           refBy'[updates[m].user] = updates[m].inviter
    BY <2>1, WalletConstants DEF ReferralsShape
  <2> QED BY <2>1, <2>2, <2>3 DEF ReferralsShape
<1>7. ASSUME NEW m \in Updates, ReadReward(m) PROVE ReferralsShape'
  <2> DEFINE h == IF reward = 0 THEN NoUpdate
                  ELSE [updates[m] EXCEPT !.pc = "pay", !.amount = reward]
  <2>1. /\ updates[m] \in Update /\ updates[m].pc = "reward" /\ reward \in Nat
        /\ updates[m].user \in Newcomers /\ updates[m].inviter \in Users
        /\ refBy[updates[m].user] = updates[m].inviter
    BY <1>7, WalletConstants DEF ReadReward, ReferralsShape
  <2>2. Go(m, h) /\ UNCHANGED <<refBy, payouts, reward>>
    BY <1>7 DEF ReadReward
  <2>3. CASE reward = 0
    <3>1. h = NoUpdate
      BY <2>3
    <3> HIDE DEF h
    <3> QED BY <1>3, <2>2, <3>1, NoUpdateIsAnUpdate, GoKeepsShape
  <2>4. CASE reward # 0
    <3>1. /\ h \in Update /\ h.user = updates[m].user /\ h.inviter = updates[m].inviter
      BY <2>1, <2>4 DEF Update
    <3> HIDE DEF h
    <3> QED BY <1>3, <2>1, <2>2, <3>1, GoKeepsShape
  <2> QED BY <2>3, <2>4
<1>8. ASSUME NEW m \in Updates, PayReward(m) PROVE ReferralsShape'
  <2> DEFINE p == [user |-> updates[m].user, inviter |-> updates[m].inviter,
                   amount |-> updates[m].amount]
  <2>1. /\ Go(m, NoUpdate) /\ UNCHANGED <<refBy, reward>>
        /\ payouts' = payouts \/ payouts' = payouts \cup {p}
        /\ p \in Payout
    BY <1>8, PayStep DEF PayReward, Payout
  <2> HIDE DEF p
  <2>2. payouts' \subseteq Payout /\ IsFiniteSet(payouts')
    BY <1>3, <2>1, FS_AddElement
  <2> QED BY <1>3, <2>1, <2>2, NoUpdateIsAnUpdate, GoKeepsShape
<1>9. ASSUME NEW m \in Updates, DropUpdate(m) PROVE ReferralsShape'
  <2>1. Go(m, NoUpdate) /\ UNCHANGED <<refBy, payouts, reward>>
    BY <1>9 DEF DropUpdate
  <2> QED BY <1>3, <2>1, NoUpdateIsAnUpdate, GoKeepsShape
<1>10. ASSUME NEW amount \in Rewards, SetReward(amount) PROVE ReferralsShape'
  BY <1>10 DEF SetReward, ReferralsShape
<1> QED BY <1>1, <1>2, <1>4, <1>5, <1>6, <1>7, <1>8, <1>9, <1>10 DEF ReferralsNext

-----------------------------------------------------------------------------
(***************************************************************************)
(* What one row more preserves.                                            *)
(***************************************************************************)
StepKind == {"pro_activation", "admin_credit", "referral_reward"} \cup Undoing

\* The rows of every user before a step are rows after it.
LEMMA RowsStay ==
    ASSUME OpsShape, NEW u, NEW kind, NEW amount, WalletStep(u, kind, amount)
    PROVE  LET n == Len(wallet[u].rows) IN
           /\ u \in Users /\ n \in Nat
           /\ DOMAIN wallet[u].rows = 1..n /\ DOMAIN wallet'[u].rows = 1..(n + 1)
           /\ Len(wallet'[u].rows) = n + 1
           /\ \A i \in 1..n : wallet'[u].rows[i] = wallet[u].rows[i]
           /\ wallet'[u].rows[n + 1].kind = kind
           /\ wallet'[u].rows[n + 1].amount = amount
           /\ \A x \in Users : x # u => wallet'[x] = wallet[x]
<1>1. u \in Users /\ wallet[u] \in WalletRecord /\ OneRow(wallet[u], wallet'[u], kind, amount)
      /\ \A x \in Users : x # u => wallet'[x] = wallet[x]
  BY DEF WalletStep, OnlyChanges, OpsShape, OpsTypeOK, WalletTypeOK
<1> QED BY <1>1, RowsAfter

LEMMA LedgerStep ==
    ASSUME OpsShape, LedgerExplainsBalance,
           NEW u, NEW kind, NEW amount, WalletStep(u, kind, amount)
    PROVE  LedgerExplainsBalance'
<1>1. /\ u \in Users /\ amount \in Int /\ wallet[u] \in WalletRecord
      /\ OneRow(wallet[u], wallet'[u], kind, amount) /\ Explained(wallet[u])
      /\ \A x \in Users : x # u => wallet'[x] = wallet[x]
  BY DEF WalletStep, OnlyChanges, OpsShape, OpsTypeOK, WalletTypeOK, LedgerExplainsBalance
<1>2. Explained(wallet'[u])
  BY <1>1, OneRowExplains
<1> QED BY <1>1, <1>2 DEF LedgerExplainsBalance

LEMMA PurchaseStep ==
    ASSUME OpsShape, PurchasesAreCovered, ProIsCharged,
           NEW u, NEW kind \in StepKind, NEW amount, WalletStep(u, kind, amount)
    PROVE  PurchasesAreCovered' /\ ProIsCharged'
<1> DEFINE n == Len(wallet[u].rows)
           old(i) == wallet[u].rows[i].kind
           new(i) == wallet'[u].rows[i].kind
<1>1. /\ u \in Users /\ n \in Nat
      /\ DOMAIN wallet[u].rows = 1..n /\ DOMAIN wallet'[u].rows = 1..(n + 1)
      /\ Len(wallet'[u].rows) = n + 1
      /\ \A i \in 1..n : new(i) = old(i)
      /\ new(n + 1) = kind
      /\ \A x \in Users : x # u => wallet'[x] = wallet[x]
  BY RowsStay
<1>2. /\ wallet'[u].balance >= 0
      /\ kind = "pro_activation" => wallet[u].pro = FALSE /\ wallet'[u].pro = TRUE
      /\ kind \in {"admin_credit", "referral_reward"} => wallet'[u].pro = wallet[u].pro
  BY <1>1 DEF WalletStep, PurchasesAreCovered
<1>3. /\ \A i, j \in 1..n : i < j /\ old(i) = "pro_activation" /\ old(j) = "pro_activation" =>
            \E k \in i..j : old(k) \in Undoing
      /\ \A i \in 1..n : old(i) = "pro_activation" /\ wallet[u].pro # TRUE =>
            \E k \in i..n : old(k) \in Undoing
  BY <1>1 DEF PurchasesAreCovered, ProIsCharged, KindAt, Undoing
<1> HIDE DEF n, old, new
<1>4. ASSUME NEW i \in 1..(n + 1), NEW j \in 1..(n + 1), i < j,
             new(i) = "pro_activation", new(j) = "pro_activation"
      PROVE  \E k \in i..j : new(k) \in Undoing
  <2>1. i \in 1..n /\ old(i) = "pro_activation"
    BY <1>1, <1>4
  <2>2. CASE j \in 1..n
    <3>1. PICK k \in i..j : old(k) \in Undoing
      BY <1>1, <1>3, <1>4, <2>1, <2>2
    <3> QED BY <1>1, <2>1, <2>2, <3>1
  <2>3. CASE j = n + 1
    <3>1. PICK k \in i..n : old(k) \in Undoing
      BY <1>1, <1>2, <1>3, <1>4, <2>1, <2>3
    <3> QED BY <1>1, <2>1, <2>3, <3>1
  <2> QED BY <1>1, <2>2, <2>3
<1>5. ASSUME NEW i \in 1..(n + 1), new(i) = "pro_activation",
             \A k \in i..(n + 1) : new(k) \notin Undoing
      PROVE  wallet'[u].pro = TRUE
  <2>1. kind \notin Undoing
    BY <1>1, <1>5
  <2>2. CASE i = n + 1
    BY <1>1, <1>2, <1>5, <2>2
  <2>3. CASE i \in 1..n
    <3>1. ASSUME NEW k \in i..n PROVE old(k) \notin Undoing
      <4>1. k \in 1..n /\ k \in i..(n + 1)
        BY <1>1, <2>3
      <4> QED BY <1>1, <1>5, <4>1
    <3>2. old(i) = "pro_activation"
      BY <1>1, <1>5, <2>3
    <3>3. wallet[u].pro = TRUE
      BY <1>3, <2>3, <3>1, <3>2
    <3> QED BY <1>2, <2>1, <3>3 DEF StepKind
  <2>4. i = n + 1 \/ i \in 1..n
    BY <1>1
  <2> QED BY <2>2, <2>3, <2>4
<1>6. PurchasesAreCovered'
  <2>1. \A x \in Users : wallet'[x].balance >= 0
    BY <1>1, <1>2 DEF PurchasesAreCovered
  <2>2. ASSUME NEW x \in Users, NEW i \in DOMAIN wallet'[x].rows, NEW j \in DOMAIN wallet'[x].rows,
               i < j, wallet'[x].rows[i].kind = "pro_activation",
               wallet'[x].rows[j].kind = "pro_activation"
        PROVE  \E k \in i..j : wallet'[x].rows[k].kind \in Undoing
    <3>1. CASE x = u
      BY <1>1, <1>4, <2>2, <3>1 DEF new
    <3>2. CASE x # u
      BY <1>1, <2>2, <3>2 DEF PurchasesAreCovered, KindAt, Undoing
    <3> QED BY <3>1, <3>2
  <2> QED BY <2>1, <2>2 DEF PurchasesAreCovered, KindAt, Undoing
<1>7. ProIsCharged'
  <2>1. ASSUME NEW x \in Users, NEW i \in DOMAIN wallet'[x].rows,
               wallet'[x].rows[i].kind = "pro_activation",
               \A k \in i..Len(wallet'[x].rows) : wallet'[x].rows[k].kind \notin Undoing
        PROVE  wallet'[x].pro = TRUE
    <3>1. CASE x = u
      BY <1>1, <1>5, <2>1, <3>1 DEF new
    <3>2. CASE x # u
      BY <1>1, <2>1, <3>2 DEF ProIsCharged, KindAt
    <3> QED BY <3>1, <3>2
  <2> QED BY <2>1 DEF ProIsCharged, KindAt
<1> QED BY <1>6, <1>7

\* A row that is no credit of an admin needs no audit row.
LEMMA AuditStays ==
    ASSUME OpsShape, AuditMatchesLedger, ClaimsLast, NEW u, NEW kind, NEW amount,
           WalletStep(u, kind, amount), kind # "admin_credit", UNCHANGED <<audit, keys, now>>
    PROVE  AuditMatchesLedger' /\ ClaimsLast'
<1> DEFINE n == Len(wallet[u].rows)
<1>1. /\ u \in Users /\ n \in Nat
      /\ DOMAIN wallet[u].rows = 1..n /\ DOMAIN wallet'[u].rows = 1..(n + 1)
      /\ \A i \in 1..n : wallet'[u].rows[i] = wallet[u].rows[i]
      /\ wallet'[u].rows[n + 1].kind = kind
      /\ \A x \in Users : x # u => wallet'[x] = wallet[x]
  BY RowsStay
<1> HIDE DEF n
<1>2. ASSUME NEW x \in Users, NEW i \in DOMAIN wallet'[x].rows,
             wallet'[x].rows[i].kind = "admin_credit"
      PROVE  i \in DOMAIN wallet[x].rows /\ wallet'[x].rows[i] = wallet[x].rows[i]
  <2>1. CASE x = u
    <3>1. i \in 1..(n + 1) /\ i # n + 1
      BY <1>1, <1>2, <2>1
    <3>2. i \in 1..n
      BY <1>1, <3>1
    <3> QED BY <1>1, <2>1, <3>2
  <2>2. CASE x # u
    BY <1>1, <1>2, <2>2
  <2> QED BY <2>1, <2>2
<1>3. \A a \in audit : a.tx \in DOMAIN wallet'[a.user].rows
  <2>1. ASSUME NEW a \in audit PROVE a.tx \in DOMAIN wallet'[a.user].rows
    <3>1. a.user \in Users /\ a.tx \in DOMAIN wallet[a.user].rows
      BY DEF OpsShape, OpsTypeOK, AuditRecord, AuditMatchesLedger
    <3>2. CASE a.user = u
      BY <1>1, <3>1, <3>2
    <3>3. CASE a.user # u
      BY <1>1, <3>1, <3>3
    <3> QED BY <3>2, <3>3
  <2> QED BY <2>1
<1>4. \A x \in Users : \A i \in DOMAIN wallet'[x].rows :
         wallet'[x].rows[i].kind = "admin_credit" =>
            \E a \in audit : a.user = x /\ a.tx = i /\ a.amount = wallet'[x].rows[i].amount
  BY <1>2 DEF AuditMatchesLedger, KindAt
<1>5. AuditMatchesLedger'
  BY <1>3, <1>4 DEF AuditMatchesLedger, KindAt
<1> QED BY <1>5 DEF ClaimsLast

\* A balance change with a key that has no live claim leaves one claim, one
\* audit row and one row of the ledger that tell the same.
LEMMA ChangeStep ==
    ASSUME OpsShape, AuditMatchesLedger, ClaimsLast,
           NEW u \in Users, NEW amount \in Changes, NEW key \in Keys \cup {NoKey},
           ChangeBalance(u, amount, key), WalletStep(u, "admin_credit", amount)
    PROVE  AuditMatchesLedger' /\ ClaimsLast'
<1> DEFINE n == Len(wallet[u].rows)
           claim == [key |-> key, user |-> u, amount |-> amount, at |-> now, tx |-> n + 1]
           row == [user |-> u, tx |-> n + 1, amount |-> amount, key |-> key, at |-> now]
<1>1. /\ n \in Nat
      /\ DOMAIN wallet[u].rows = 1..n /\ DOMAIN wallet'[u].rows = 1..(n + 1)
      /\ \A i \in 1..n : wallet'[u].rows[i] = wallet[u].rows[i]
      /\ wallet'[u].rows[n + 1].amount = amount
      /\ \A x \in Users : x # u => wallet'[x] = wallet[x]
  BY RowsStay
<1>2. /\ audit' = audit \cup {row} /\ row \in AuditRecord /\ now' = now
      /\ keys' = IF key = NoKey THEN keys ELSE {c \in keys : ~Expired(c)} \cup {claim}
  BY ChangeBalanceWrites
<1>3. /\ row.user = u /\ row.tx = n + 1 /\ row.amount = amount /\ row.key = key /\ row.at = now
      /\ claim.user = u /\ claim.tx = n + 1 /\ claim.amount = amount /\ claim.key = key
      /\ claim.at = now
  OBVIOUS
<1>4. key # NoKey => \A c \in keys : c.key = key => c.at + TTL < now
  BY DEF ChangeBalance, Claimable, Expired
<1>5. /\ now \in Nat /\ TTL \in Nat /\ NoKey \notin Keys
      /\ \A a \in audit : a.user \in Users /\ a.tx \in Nat /\ a.at \in Nat
      /\ \A c \in keys : c.at \in Nat
  BY WalletConstants DEF OpsShape, OpsTypeOK, AuditRecord, Claim
<1>6. /\ \A a \in audit : a.tx \in DOMAIN wallet[a.user].rows
      /\ \A a, b \in audit : a.user = b.user /\ a.tx = b.tx => a = b
      /\ \A c \in keys : \E a \in audit :
            /\ <<a.key, a.user, a.tx, a.at>> = <<c.key, c.user, c.tx, c.at>>
            /\ a.amount = c.amount
      /\ \A a, b \in audit :
            a.key # NoKey /\ a.key = b.key /\ a # b => a.at + TTL < b.at \/ b.at + TTL < a.at
  BY DEF AuditMatchesLedger
<1>7. \A a \in audit : /\ a.at <= now
                       /\ a.key # NoKey => \/ a.at + TTL < now
                                           \/ \E c \in keys : c.key = a.key /\ c.at = a.at
  BY DEF ClaimsLast
<1> HIDE DEF n, claim, row
<1>8. \A x \in Users : \A i \in DOMAIN wallet'[x].rows :
         wallet'[x].rows[i].kind = "admin_credit" =>
            \E a \in audit' : a.user = x /\ a.tx = i /\ a.amount = wallet'[x].rows[i].amount
  <2>1. ASSUME NEW x \in Users, NEW i \in DOMAIN wallet'[x].rows,
               wallet'[x].rows[i].kind = "admin_credit"
        PROVE  \E a \in audit' : a.user = x /\ a.tx = i /\ a.amount = wallet'[x].rows[i].amount
    <3>1. CASE x = u /\ i = n + 1
      BY <1>1, <1>2, <1>3, <3>1
    <3>2. CASE ~(x = u /\ i = n + 1)
      <4>1. i \in DOMAIN wallet[x].rows /\ wallet'[x].rows[i] = wallet[x].rows[i]
        <5>1. CASE x = u
          BY <1>1, <2>1, <3>2, <5>1
        <5>2. CASE x # u
          BY <1>1, <2>1, <5>2
        <5> QED BY <5>1, <5>2
      <4> QED BY <1>2, <2>1, <4>1 DEF AuditMatchesLedger, KindAt
    <3> QED BY <3>1, <3>2
  <2> QED BY <2>1
<1>9. \A a \in audit' : a.tx \in DOMAIN wallet'[a.user].rows
  <2>1. ASSUME NEW a \in audit PROVE a.tx \in DOMAIN wallet'[a.user].rows
    <3>1. CASE a.user = u
      BY <1>1, <1>5, <1>6, <3>1
    <3>2. CASE a.user # u
      BY <1>1, <1>5, <1>6, <3>2
    <3> QED BY <3>1, <3>2
  <2> QED BY <1>1, <1>2, <1>3, <2>1
<1>10. \A a, b \in audit' : a.user = b.user /\ a.tx = b.tx => a = b
  <2>1. \A a \in audit : ~(a.user = u /\ a.tx = n + 1)
    BY <1>1, <1>6
  <2> QED BY <1>2, <1>3, <1>6, <2>1
<1>11. \A c \in keys' : \E a \in audit' :
          /\ <<a.key, a.user, a.tx, a.at>> = <<c.key, c.user, c.tx, c.at>>
          /\ a.amount = c.amount
  <2>1. ASSUME NEW c \in keys'
        PROVE  \E a \in audit' : /\ <<a.key, a.user, a.tx, a.at>> = <<c.key, c.user, c.tx, c.at>>
                                 /\ a.amount = c.amount
    <3>1. CASE c \in keys
      BY <1>2, <1>6, <3>1
    <3>2. CASE c = claim
      BY <1>2, <1>3, <3>2
    <3> QED BY <1>2, <3>1, <3>2
  <2> QED BY <2>1
<1>12. key # NoKey => \A a \in audit : a.key = key => a.at + TTL < now
  BY <1>4, <1>7
<1>13. \A a, b \in audit' :
          a.key # NoKey /\ a.key = b.key /\ a # b => a.at + TTL < b.at \/ b.at + TTL < a.at
  <2>1. ASSUME NEW a \in audit', NEW b \in audit', a.key # NoKey, a.key = b.key, a # b
        PROVE  a.at + TTL < b.at \/ b.at + TTL < a.at
    <3>1. CASE a \in audit /\ b \in audit
      BY <1>6, <2>1, <3>1
    <3>2. CASE a = row /\ b \in audit
      BY <1>3, <1>12, <2>1, <3>2
    <3>3. CASE a \in audit /\ b = row
      BY <1>3, <1>12, <2>1, <3>3
    <3> QED BY <1>2, <2>1, <3>1, <3>2, <3>3
  <2> QED BY <2>1
<1>14. AuditMatchesLedger'
  BY <1>8, <1>9, <1>10, <1>11, <1>13 DEF AuditMatchesLedger, KindAt
<1>15. ClaimsLast'
  <2>1. ASSUME NEW a \in audit'
        PROVE  /\ a.at <= now
               /\ a.key # NoKey => \/ a.at + TTL < now
                                   \/ \E c \in keys' : c.key = a.key /\ c.at = a.at
    <3>1. CASE a = row
      BY <1>2, <1>3, <1>5, <3>1
    <3>2. CASE a \in audit
      <4>1. ASSUME a.key # NoKey, NEW c \in keys, c.key = a.key, c.at = a.at
            PROVE  a.at + TTL < now \/ c \in keys'
        BY <1>2, <4>1 DEF Expired
      <4> QED BY <1>7, <3>2, <4>1
    <3> QED BY <1>2, <3>1, <3>2
  <2> QED BY <1>2, <2>1 DEF ClaimsLast
<1> QED BY <1>14, <1>15

\* The inviter in a newcomer's row stays.
LEMMA RefByStays ==
    ASSUME ReferralsShape, [ReferralsNext]_allVars
    PROVE  \A n \in Newcomers : refBy[n] # Unknown => refBy'[n] = refBy[n]
<1>1. refBy \in [Newcomers -> Users \cup {NoUser, Unknown}]
  BY DEF ReferralsShape
<1>2. ASSUME UNCHANGED refBy PROVE \A n \in Newcomers : refBy[n] # Unknown => refBy'[n] = refBy[n]
  BY <1>2
<1>3. ASSUME NEW m \in Updates, InsertUser(m)
      PROVE  \A n \in Newcomers : refBy[n] # Unknown => refBy'[n] = refBy[n]
  BY <1>1, <1>3 DEF InsertUser
<1>4. ASSUME NEW x \in Newcomers, ApiInsertsUser(x)
      PROVE  \A n \in Newcomers : refBy[n] # Unknown => refBy'[n] = refBy[n]
  BY <1>1, <1>4 DEF ApiInsertsUser
<1>5. ReferralsNext => \/ UNCHANGED refBy
                       \/ \E m \in Updates : InsertUser(m)
                       \/ \E n \in Newcomers : ApiInsertsUser(n)
  BY DEF ReferralsNext, refVars, FirstMessage, ReadReward, PayReward, DropUpdate, SetReward
<1> QED BY <1>2, <1>3, <1>4, <1>5 DEF allVars, refVars

\* A step that pays no reward.
LEMMA NoRewardStep ==
    ASSUME Inv, NEW u, NEW kind, NEW amount, WalletStep(u, kind, amount),
           kind # "referral_reward", payouts' = payouts, [ReferralsNext]_allVars
    PROVE  ReferralsPayOnce'
<1> DEFINE n == Len(wallet[u].rows)
<1>1. /\ u \in Users /\ n \in Nat
      /\ DOMAIN wallet[u].rows = 1..n /\ DOMAIN wallet'[u].rows = 1..(n + 1)
      /\ \A i \in 1..n : wallet'[u].rows[i] = wallet[u].rows[i]
      /\ wallet'[u].rows[n + 1].kind = kind
      /\ \A x \in Users : x # u => wallet'[x] = wallet[x]
  BY RowsStay DEF Inv
<1> HIDE DEF n
<1>2. ASSUME NEW x \in Users
      PROVE  /\ RewardRows(x)' = RewardRows(x)
             /\ \A i \in RewardRows(x) : wallet'[x].rows[i] = wallet[x].rows[i]
  <2>1. CASE x = u
    BY <1>1, <2>1 DEF RewardRows, KindAt
  <2>2. CASE x # u
    BY <1>1, <2>2 DEF RewardRows, KindAt
  <2> QED BY <2>1, <2>2
<1>3. \A p \in payouts : refBy'[p.user] = p.inviter
  BY RefByStays, WalletConstants DEF Inv, ReferralsShape, ReferralsPayOnce, Payout
<1> QED BY <1>2, <1>3 DEF Inv, ReferralsPayOnce

\* The reward of a newcomer nobody was paid for: one payout and one row more.
LEMMA RewardStep ==
    ASSUME Inv, NEW p \in Payout, ~PaidFor(p.user), refBy[p.user] = p.inviter,
           payouts' = payouts \cup {p}, WalletStep(p.inviter, "referral_reward", p.amount),
           [ReferralsNext]_allVars
    PROVE  ReferralsPayOnce'
<1> DEFINE u == p.inviter
           n == Len(wallet[u].rows)
           of(x) == {q \in payouts : q.inviter = x}
<1>1. /\ u \in Users /\ n \in Nat
      /\ DOMAIN wallet[u].rows = 1..n /\ DOMAIN wallet'[u].rows = 1..(n + 1)
      /\ \A i \in 1..n : wallet'[u].rows[i] = wallet[u].rows[i]
      /\ wallet'[u].rows[n + 1].kind = "referral_reward"
      /\ wallet'[u].rows[n + 1].amount = p.amount
      /\ \A x \in Users : x # u => wallet'[x] = wallet[x]
  <2>1. OpsShape
    BY DEF Inv
  <2>2. WalletStep(u, "referral_reward", p.amount)
    OBVIOUS
  <2> HIDE DEF u
  <2> QED BY <2>1, <2>2, RowsStay
<1>2. /\ payouts \subseteq Payout /\ IsFiniteSet(payouts) /\ p \notin payouts
      /\ p.user \in Newcomers
  BY DEF Inv, ReferralsShape, PaidFor, Payout
<1>3. /\ \A q \in payouts : refBy[q.user] = q.inviter
      /\ \A q, o \in payouts : q.user = o.user => q = o
      /\ \A x \in Users :
            /\ Cardinality(RewardRows(x)) = Cardinality(of(x))
            /\ \A i \in RewardRows(x) : \E q \in payouts :
                  q.inviter = x /\ q.amount = wallet[x].rows[i].amount
  BY DEF Inv, ReferralsPayOnce
<1> HIDE DEF n
<1>4. /\ RewardRows(u)' = RewardRows(u) \cup {n + 1}
      /\ RewardRows(u) \subseteq 1..n
      /\ \A i \in RewardRows(u) : wallet'[u].rows[i] = wallet[u].rows[i]
  BY <1>1 DEF RewardRows, KindAt
<1>5. ASSUME NEW x \in Users, x # u PROVE RewardRows(x)' = RewardRows(x)
  BY <1>1, <1>5 DEF RewardRows, KindAt
<1>6. \A q \in payouts' : refBy'[q.user] = q.inviter
  BY <1>1, <1>2, <1>3, RefByStays, WalletConstants DEF Inv, ReferralsShape, Payout
<1>7. \A q, o \in payouts' : q.user = o.user => q = o
  BY <1>3 DEF PaidFor
<1>8. Cardinality(RewardRows(u)') = Cardinality({q \in payouts' : q.inviter = u})
  <2>1. IsFiniteSet(RewardRows(u)) /\ n + 1 \notin RewardRows(u)
    <3>1. IsFiniteSet(1..n)
      BY <1>1, FS_Interval
    <3>2. n + 1 \notin 1..n
      BY <1>1
    <3> QED BY <1>4, <3>1, <3>2, FS_Subset
  <2>2. Cardinality(RewardRows(u)') = Cardinality(RewardRows(u)) + 1
    BY <1>4, <2>1, FS_AddElement
  <2>3. IsFiniteSet(of(u)) /\ p \notin of(u)
    BY <1>2, FS_Subset
  <2>4. {q \in payouts' : q.inviter = u} = of(u) \cup {p}
    OBVIOUS
  <2>5. Cardinality(of(u) \cup {p}) = Cardinality(of(u)) + 1
    <3> HIDE DEF of
    <3> QED BY <2>3, FS_AddElement
  <2>6. Cardinality(RewardRows(u)) = Cardinality(of(u))
    BY <1>1, <1>3
  <2> HIDE DEF of
  <2> QED BY <2>2, <2>4, <2>5, <2>6
<1>9. ASSUME NEW x \in Users, x # u
      PROVE  Cardinality(RewardRows(x)') = Cardinality({q \in payouts' : q.inviter = x})
  <2>1. {q \in payouts' : q.inviter = x} = of(x)
    BY <1>9
  <2> QED BY <1>3, <1>5, <1>9, <2>1
<1>10. ASSUME NEW x \in Users, NEW i \in RewardRows(x), wallet'[x].rows[i] = wallet[x].rows[i]
       PROVE  \E q \in payouts' : q.inviter = x /\ q.amount = wallet'[x].rows[i].amount
  <2>1. PICK q \in payouts : q.inviter = x /\ q.amount = wallet[x].rows[i].amount
    BY <1>3
  <2> QED BY <1>10, <2>1
<1>11. ASSUME NEW i \in RewardRows(u)'
       PROVE  \E q \in payouts' : q.inviter = u /\ q.amount = wallet'[u].rows[i].amount
  <2>1. CASE i = n + 1
    BY <1>1, <2>1
  <2>2. CASE i \in RewardRows(u)
    BY <1>1, <1>4, <1>10, <2>2
  <2> QED BY <1>4, <2>1, <2>2
<1>12. ASSUME NEW x \in Users
       PROVE  /\ Cardinality(RewardRows(x)') = Cardinality({q \in payouts' : q.inviter = x})
              /\ \A i \in RewardRows(x)' : \E q \in payouts' :
                    q.inviter = x /\ q.amount = wallet'[x].rows[i].amount
  <2>1. CASE x = u
    BY <1>8, <1>11, <2>1
  <2>2. CASE x # u
    <3>1. ASSUME NEW i \in RewardRows(x)'
          PROVE  \E q \in payouts' : q.inviter = x /\ q.amount = wallet'[x].rows[i].amount
      BY <1>1, <1>5, <1>10, <2>2
    <3> QED BY <1>9, <2>2, <3>1
  <2> QED BY <2>1, <2>2
<1> HIDE DEF of, u
<1> QED BY <1>6, <1>7, <1>12 DEF ReferralsPayOnce

-----------------------------------------------------------------------------
(***************************************************************************)
(* Every step preserves the invariant.                                     *)
(***************************************************************************)
LEMMA QuietStep ==
    ASSUME Inv, [ReferralsNext]_allVars,
           UNCHANGED <<wallet, audit, keys, payouts>>, now' \in {now, now + 1}
    PROVE  /\ LedgerExplainsBalance' /\ PurchasesAreCovered' /\ ProIsCharged'
           /\ AuditMatchesLedger' /\ ClaimsLast' /\ ReferralsPayOnce'
<1>1. LedgerExplainsBalance'
  BY DEF Inv, LedgerExplainsBalance
<1>2. PurchasesAreCovered' /\ ProIsCharged'
  BY DEF Inv, PurchasesAreCovered, ProIsCharged, KindAt
<1>3. AuditMatchesLedger'
  BY DEF Inv, AuditMatchesLedger, KindAt
<1>4. ClaimsLast'
  <2>1. now \in Nat /\ TTL \in Nat /\ \A a \in audit : a.at \in Nat
    BY WalletConstants DEF Inv, OpsShape, OpsTypeOK, AuditRecord
  <2> QED BY <2>1 DEF Inv, ClaimsLast
<1>5. ReferralsPayOnce'
  <2>1. \A x \in Users : RewardRows(x)' = RewardRows(x)
    BY DEF RewardRows, KindAt
  <2>2. \A p \in payouts : refBy'[p.user] = p.inviter
    BY RefByStays, WalletConstants DEF Inv, ReferralsShape, ReferralsPayOnce, Payout
  <2> QED BY <2>1, <2>2 DEF Inv, ReferralsPayOnce
<1> QED BY <1>1, <1>2, <1>3, <1>4, <1>5

LEMMA NextInv == Inv /\ [ReferralsNext]_allVars => Inv'
<1> SUFFICES ASSUME Inv, [ReferralsNext]_allVars PROVE Inv'
  OBVIOUS
<1>1. OpsShape' /\ ReferralsShape'
  BY ShapeStep, ReferralsShapeStep DEF Inv
<1> DEFINE told == /\ LedgerExplainsBalance' /\ PurchasesAreCovered' /\ ProIsCharged'
                   /\ AuditMatchesLedger' /\ ClaimsLast' /\ ReferralsPayOnce'
<1>2. ASSUME UNCHANGED <<wallet, audit, keys, payouts>>, now' \in {now, now + 1} PROVE told
  BY <1>2, QuietStep
<1>3. ASSUME NEW u \in Users, NEW kind \in {"pro_activation"} \cup Undoing, NEW amount \in Int,
             WalletStep(u, kind, amount), UNCHANGED <<audit, keys, now, payouts>>
      PROVE  told
  <2>1. kind \in StepKind /\ kind # "admin_credit" /\ kind # "referral_reward"
    BY DEF StepKind, Undoing
  <2>2. LedgerExplainsBalance' /\ PurchasesAreCovered' /\ ProIsCharged'
    BY <1>3, <2>1, LedgerStep, PurchaseStep DEF Inv
  <2>3. AuditMatchesLedger' /\ ClaimsLast'
    BY <1>3, <2>1, AuditStays DEF Inv
  <2>4. ReferralsPayOnce'
    BY <1>3, <2>1, NoRewardStep
  <2> QED BY <2>2, <2>3, <2>4
<1>4. ASSUME NEW u \in Users, NEW amount \in Changes, NEW key \in Keys \cup {NoKey},
             ChangeBalance(u, amount, key), WalletStep(u, "admin_credit", amount),
             UNCHANGED payouts
      PROVE  told
  <2>1. "admin_credit" \in StepKind
    BY DEF StepKind
  <2>2. LedgerExplainsBalance' /\ PurchasesAreCovered' /\ ProIsCharged'
    BY <1>4, <2>1, LedgerStep, PurchaseStep DEF Inv
  <2>3. AuditMatchesLedger' /\ ClaimsLast'
    BY <1>4, ChangeStep DEF Inv
  <2>4. ReferralsPayOnce'
    BY <1>4, NoRewardStep
  <2> QED BY <2>2, <2>3, <2>4
<1>5. ASSUME NEW m \in Updates, PayReward(m) PROVE told
  <2> DEFINE p == [user |-> updates[m].user, inviter |-> updates[m].inviter,
                   amount |-> updates[m].amount]
  <2>1. /\ p \in Payout /\ p.user = updates[m].user /\ p.inviter = updates[m].inviter
        /\ p.amount = updates[m].amount /\ refBy[p.user] = p.inviter
        /\ \/ UNCHANGED <<wallet, payouts>>
           \/ /\ ~PaidFor(p.user) /\ payouts' = payouts \cup {p}
              /\ WalletStep(p.inviter, "referral_reward", p.amount)
    BY <1>5, PayStep DEF Inv, Payout
  <2>2. UNCHANGED <<audit, keys, now>>
    BY <1>5 DEF PayReward
  <2> HIDE DEF p
  <2>3. CASE UNCHANGED <<wallet, payouts>>
    BY <1>2, <2>2, <2>3
  <2>4. CASE /\ ~PaidFor(p.user) /\ payouts' = payouts \cup {p}
             /\ WalletStep(p.inviter, "referral_reward", p.amount)
    <3>1. "referral_reward" \in StepKind /\ "referral_reward" # "admin_credit"
      BY DEF StepKind
    <3>2. LedgerExplainsBalance' /\ PurchasesAreCovered' /\ ProIsCharged'
      BY <2>4, <3>1, LedgerStep, PurchaseStep DEF Inv
    <3>3. AuditMatchesLedger' /\ ClaimsLast'
      BY <2>2, <2>4, <3>1, AuditStays DEF Inv
    <3>4. ReferralsPayOnce'
      BY <2>1, <2>4, RewardStep
    <3> QED BY <3>2, <3>3, <3>4
  <2> QED BY <2>1, <2>3, <2>4
<1> HIDE DEF told
<1>6. told
  BY <1>2, <1>3, <1>4, <1>5, StepKinds
<1> QED BY <1>1, <1>6 DEF Inv, told

-----------------------------------------------------------------------------
(***************************************************************************)
(* The theorems.                                                           *)
(***************************************************************************)

\* In every reachable state the wallets, the claims, the audit rows and the
\* payouts are as Inv tells.
THEOREM InvHolds == ReferralsSpec => []Inv
  BY InitInv, NextInv, PTL DEF ReferralsSpec

\* However purchases, credits, resets, grants and rewards interleave, every
\* balance is where the rows of its ledger end.
THEOREM OpsExplainBalance == ReferralsSpec => []LedgerExplainsBalance
<1>1. Inv => LedgerExplainsBalance
  BY DEF Inv
<1> QED BY <1>1, InvHolds, PTL

\* Purchases are covered by the balance and charged once, and an admin's change
\* is told by one audit row and applied once per idempotency key.
THEOREM OpsAccounted == ReferralsSpec => []OpsAreAccountedFor
<1>1. Inv => OpsAreAccountedFor
  BY DEF Inv, OpsAreAccountedFor
<1> QED BY <1>1, InvHolds, PTL

\* A newcomer pays one inviter, once, however many updates are handled at the
\* same time.
THEOREM NewcomersPayOnce == ReferralsSpec => []ReferralsPayOnce
<1>1. Inv => ReferralsPayOnce
  BY DEF Inv
<1> QED BY <1>1, InvHolds, PTL

-----------------------------------------------------------------------------
(***************************************************************************)
(* The schema. The programs, statement by statement.                       *)
(***************************************************************************)

Stmt(what, parts) == [do |-> what, parts |-> parts]

LEMMA MigrationsAre ==
  Len(Migrations) = 27 /\ DOMAIN Migrations = 1..27
BY DEF Migrations

\* t is s and one statement more, the nth.
Grown(T, t, s, e, n) ==
  t \in Seq(T) /\ Len(t) = n /\ t[n] = e /\ \A i \in 1..(n - 1) : t[i] = s[i]

LEMMA GrownBy ==
  ASSUME NEW T, NEW s \in Seq(T), NEW e \in T, NEW n \in Nat, Len(s) = n - 1, NEW t, t = s \o <<e>>
  PROVE  Grown(T, t, s, e, n)
<1>1. <<e>> \in Seq(T) /\ Len(<<e>>) = 1 /\ <<e>>[1] = e
  OBVIOUS
<1>2. /\ s \o <<e>> \in Seq(T) /\ Len(s \o <<e>>) = n
      /\ \A i \in 1..n : (s \o <<e>>)[i] = IF i <= n - 1 THEN s[i] ELSE <<e>>[i - (n - 1)]
  <2>1. (n - 1) + 1 = n
    OBVIOUS
  <2> QED BY <1>1, <2>1, ConcatProperties
<1>3. n \in 1..n /\ n - (n - 1) = 1
  BY Len(s) \in Nat
<1> QED BY <1>1, <1>2, <1>3 DEF Grown

Joined(u, s, t, n, k) ==
  /\ Len(u) = n + k /\ DOMAIN u = 1..(n + k)
  /\ \A i \in 1..n : u[i] = s[i]
  /\ \A i \in (n + 1)..(n + k) : u[i] = t[i - n]

LEMMA JoinedAre ==
  ASSUME NEW T, NEW s \in Seq(T), NEW t \in Seq(T), NEW n \in Nat, NEW k \in Nat,
         Len(s) = n, Len(t) = k, NEW u, u = s \o t
  PROVE  Joined(u, s, t, n, k)
<1>1. /\ Len(u) = n + k
      /\ \A i \in 1..(n + k) : u[i] = IF i <= n THEN s[i] ELSE t[i - n]
      /\ u \in Seq(T)
  BY ConcatProperties
<1>3. DOMAIN u = 1..(n + k)
  BY <1>1
<1>2. (\A i \in 1..n : i \in 1..(n + k) /\ i <= n)
      /\ (\A i \in (n + 1)..(n + k) : i \in 1..(n + k) /\ ~(i <= n))
  OBVIOUS
<1> QED BY <1>1, <1>2, <1>3 DEF Joined

\* The bot's program.
LEMMA BotIs ==
  /\ Len(BotProgram) = 39 /\ DOMAIN BotProgram = 1..39
  /\ BotProgram[1] = Stmt("create", {"users", "channels"})
  /\ BotProgram[2] = Stmt("saves_new", {})
  /\ BotProgram[3] = Stmt("saves", {})
  /\ BotProgram[4] = Stmt("create", {"regions", "webapp_sessions", "bot_handoff_tokens", "referral_payouts"})
  /\ BotProgram[5] = Stmt("commit", {})
  /\ BotProgram[6] = Stmt("look", UserColumns.bot)
  /\ BotProgram[7] = Stmt("column", UserColumns.bot)
  /\ BotProgram[8] = Stmt("look", SettingsColumns.bot)
  /\ BotProgram[9] = Stmt("column", SettingsColumns.bot)
  /\ BotProgram[10] = Stmt("regions", {})
  /\ BotProgram[11] = Stmt("commit", {})
  /\ BotProgram[12] = Stmt("locations", {})
  /\ \A i \in 13..39 : BotProgram[i] = Stmt("migrate", {Migrations[i - 12]})
<1> DEFINE T == {Stmt("create", {"users", "channels"}),
                 Stmt("saves_new", {}),
                 Stmt("saves", {}),
                 Stmt("create", {"regions", "webapp_sessions", "bot_handoff_tokens",
                 "referral_payouts"}),
                 Stmt("commit", {}),
                 Stmt("look", UserColumns.bot),
                 Stmt("column", UserColumns.bot),
                 Stmt("look", SettingsColumns.bot),
                 Stmt("column", SettingsColumns.bot),
                 Stmt("regions", {}),
                 Stmt("locations", {})}
                  \cup {Stmt("migrate", {Migrations[i]}) : i \in 1..27}
           b1 == All("create", {"users", "channels"})
           b2 == b1 \o Do("saves_new")
           b3 == b2 \o Do("saves")
           b4 == b3 \o All("create", {"regions", "webapp_sessions", "bot_handoff_tokens", "referral_payouts"})
           b5 == b4 \o Do("commit")
           b6 == b5 \o All("look", UserColumns.bot)
           b7 == b6 \o All("column", UserColumns.bot)
           b8 == b7 \o All("look", SettingsColumns.bot)
           b9 == b8 \o All("column", SettingsColumns.bot)
           b10 == b9 \o Do("regions")
           b11 == b10 \o Do("commit")
           b12 == b11 \o Do("locations")
           m == Each("migrate", Migrations)
<1>1. BotProgram = b12 \o m
  BY DEF BotProgram
<1>2. /\ m \in Seq(T) /\ Len(m) = 27
      /\ \A i \in 1..27 : m[i] = Stmt("migrate", {Migrations[i]})
  BY MigrationsAre DEF Each, Stmt
<1> HIDE DEF m
<1>3. b1 \in Seq(T) /\ Len(b1) = 1 /\ b1[1] = Stmt("create", {"users", "channels"})
  BY DEF All, Do, Stmt
<1> HIDE DEF b1
<1>4. Grown(T, b2, b1, Stmt("saves_new", {}), 2)
  <2>1. /\ Stmt("saves_new", {}) \in T
        /\ b2 = b1 \o <<Stmt("saves_new", {})>>
    BY DEF All, Do, Stmt
  <2> HIDE DEF b2, T
  <2>2. b1 \in Seq(T) /\ Len(b1) = 2 - 1
    BY <1>3 DEF Grown
  <2> QED BY <2>1, <2>2, GrownBy
<1> HIDE DEF b2
<1>5. Grown(T, b3, b2, Stmt("saves", {}), 3)
  <2>1. /\ Stmt("saves", {}) \in T
        /\ b3 = b2 \o <<Stmt("saves", {})>>
    BY DEF All, Do, Stmt
  <2> HIDE DEF b3, T
  <2>2. b2 \in Seq(T) /\ Len(b2) = 3 - 1
    BY <1>4 DEF Grown
  <2> QED BY <2>1, <2>2, GrownBy
<1> HIDE DEF b3
<1>6. Grown(T, b4, b3, Stmt("create", {"regions", "webapp_sessions", "bot_handoff_tokens", "referral_payouts"}), 4)
  <2>1. /\ Stmt("create", {"regions", "webapp_sessions", "bot_handoff_tokens", "referral_payouts"}) \in T
        /\ b4 = b3 \o <<Stmt("create", {"regions", "webapp_sessions", "bot_handoff_tokens", "referral_payouts"})>>
    BY DEF All, Do, Stmt
  <2> HIDE DEF b4, T
  <2>2. b3 \in Seq(T) /\ Len(b3) = 4 - 1
    BY <1>5 DEF Grown
  <2> QED BY <2>1, <2>2, GrownBy
<1> HIDE DEF b4
<1>7. Grown(T, b5, b4, Stmt("commit", {}), 5)
  <2>1. /\ Stmt("commit", {}) \in T
        /\ b5 = b4 \o <<Stmt("commit", {})>>
    BY DEF All, Do, Stmt
  <2> HIDE DEF b5, T
  <2>2. b4 \in Seq(T) /\ Len(b4) = 5 - 1
    BY <1>6 DEF Grown
  <2> QED BY <2>1, <2>2, GrownBy
<1> HIDE DEF b5
<1>8. Grown(T, b6, b5, Stmt("look", UserColumns.bot), 6)
  <2>1. /\ Stmt("look", UserColumns.bot) \in T
        /\ b6 = b5 \o <<Stmt("look", UserColumns.bot)>>
    BY DEF All, Do, Stmt
  <2> HIDE DEF b6, T
  <2>2. b5 \in Seq(T) /\ Len(b5) = 6 - 1
    BY <1>7 DEF Grown
  <2> QED BY <2>1, <2>2, GrownBy
<1> HIDE DEF b6
<1>9. Grown(T, b7, b6, Stmt("column", UserColumns.bot), 7)
  <2>1. /\ Stmt("column", UserColumns.bot) \in T
        /\ b7 = b6 \o <<Stmt("column", UserColumns.bot)>>
    BY DEF All, Do, Stmt
  <2> HIDE DEF b7, T
  <2>2. b6 \in Seq(T) /\ Len(b6) = 7 - 1
    BY <1>8 DEF Grown
  <2> QED BY <2>1, <2>2, GrownBy
<1> HIDE DEF b7
<1>10. Grown(T, b8, b7, Stmt("look", SettingsColumns.bot), 8)
  <2>1. /\ Stmt("look", SettingsColumns.bot) \in T
        /\ b8 = b7 \o <<Stmt("look", SettingsColumns.bot)>>
    BY DEF All, Do, Stmt
  <2> HIDE DEF b8, T
  <2>2. b7 \in Seq(T) /\ Len(b7) = 8 - 1
    BY <1>9 DEF Grown
  <2> QED BY <2>1, <2>2, GrownBy
<1> HIDE DEF b8
<1>11. Grown(T, b9, b8, Stmt("column", SettingsColumns.bot), 9)
  <2>1. /\ Stmt("column", SettingsColumns.bot) \in T
        /\ b9 = b8 \o <<Stmt("column", SettingsColumns.bot)>>
    BY DEF All, Do, Stmt
  <2> HIDE DEF b9, T
  <2>2. b8 \in Seq(T) /\ Len(b8) = 9 - 1
    BY <1>10 DEF Grown
  <2> QED BY <2>1, <2>2, GrownBy
<1> HIDE DEF b9
<1>12. Grown(T, b10, b9, Stmt("regions", {}), 10)
  <2>1. /\ Stmt("regions", {}) \in T
        /\ b10 = b9 \o <<Stmt("regions", {})>>
    BY DEF All, Do, Stmt
  <2> HIDE DEF b10, T
  <2>2. b9 \in Seq(T) /\ Len(b9) = 10 - 1
    BY <1>11 DEF Grown
  <2> QED BY <2>1, <2>2, GrownBy
<1> HIDE DEF b10
<1>13. Grown(T, b11, b10, Stmt("commit", {}), 11)
  <2>1. /\ Stmt("commit", {}) \in T
        /\ b11 = b10 \o <<Stmt("commit", {})>>
    BY DEF All, Do, Stmt
  <2> HIDE DEF b11, T
  <2>2. b10 \in Seq(T) /\ Len(b10) = 11 - 1
    BY <1>12 DEF Grown
  <2> QED BY <2>1, <2>2, GrownBy
<1> HIDE DEF b11
<1>14. Grown(T, b12, b11, Stmt("locations", {}), 12)
  <2>1. /\ Stmt("locations", {}) \in T
        /\ b12 = b11 \o <<Stmt("locations", {})>>
    BY DEF All, Do, Stmt
  <2> HIDE DEF b12, T
  <2>2. b11 \in Seq(T) /\ Len(b11) = 12 - 1
    BY <1>13 DEF Grown
  <2> QED BY <2>1, <2>2, GrownBy
<1> HIDE DEF b12
<1> HIDE DEF T
<1>15. Joined(BotProgram, b12, m, 12, 27)
  <2>1. b12 \in Seq(T) /\ Len(b12) = 12
    BY <1>14 DEF Grown
  <2> QED BY <2>1, <1>1, <1>2, JoinedAre
<1>16. b12[1] = Stmt("create", {"users", "channels"})
  BY <1>3, <1>4, <1>5, <1>6, <1>7, <1>8, <1>9, <1>10, <1>11, <1>12, <1>13, <1>14 DEF Grown
<1>17. b12[2] = Stmt("saves_new", {})
  BY <1>4, <1>5, <1>6, <1>7, <1>8, <1>9, <1>10, <1>11, <1>12, <1>13, <1>14 DEF Grown
<1>18. b12[3] = Stmt("saves", {})
  BY <1>5, <1>6, <1>7, <1>8, <1>9, <1>10, <1>11, <1>12, <1>13, <1>14 DEF Grown
<1>19. b12[4] = Stmt("create", {"regions", "webapp_sessions", "bot_handoff_tokens", "referral_payouts"})
  BY <1>6, <1>7, <1>8, <1>9, <1>10, <1>11, <1>12, <1>13, <1>14 DEF Grown
<1>20. b12[5] = Stmt("commit", {})
  BY <1>7, <1>8, <1>9, <1>10, <1>11, <1>12, <1>13, <1>14 DEF Grown
<1>21. b12[6] = Stmt("look", UserColumns.bot)
  BY <1>8, <1>9, <1>10, <1>11, <1>12, <1>13, <1>14 DEF Grown
<1>22. b12[7] = Stmt("column", UserColumns.bot)
  BY <1>9, <1>10, <1>11, <1>12, <1>13, <1>14 DEF Grown
<1>23. b12[8] = Stmt("look", SettingsColumns.bot)
  BY <1>10, <1>11, <1>12, <1>13, <1>14 DEF Grown
<1>24. b12[9] = Stmt("column", SettingsColumns.bot)
  BY <1>11, <1>12, <1>13, <1>14 DEF Grown
<1>25. b12[10] = Stmt("regions", {})
  BY <1>12, <1>13, <1>14 DEF Grown
<1>26. b12[11] = Stmt("commit", {})
  BY <1>13, <1>14 DEF Grown
<1>27. b12[12] = Stmt("locations", {})
  BY <1>14 DEF Grown
<1>28. ASSUME NEW i \in 13..39 PROVE BotProgram[i] = Stmt("migrate", {Migrations[i - 12]})
  <2>1. i - 12 \in 1..27 /\ i \in (12 + 1)..(12 + 27)
    OBVIOUS
  <2>2. BotProgram[i] = m[i - 12]
    BY <2>1, <1>15 DEF Joined
  <2> QED BY <2>1, <2>2, <1>2
<1>29. Len(BotProgram) = 39 /\ DOMAIN BotProgram = 1..39 /\ \A i \in 1..12 : BotProgram[i] = b12[i]
  BY <1>15 DEF Joined
<1> QED BY <1>16, <1>17, <1>18, <1>19, <1>20, <1>21, <1>22, <1>23, <1>24, <1>25, <1>26, <1>27,
           <1>28, <1>29

\* The API's program.
LEMMA ApiIs ==
  /\ Len(ApiProgram) = 36 /\ DOMAIN ApiProgram = 1..36
  /\ ApiProgram[1] = Stmt("look", UserColumns.api)
  /\ ApiProgram[2] = Stmt("column", UserColumns.api)
  /\ ApiProgram[3] = Stmt("create", {"webapp_sessions", "bot_handoff_tokens", "resume_events",
                               "webapp_admin_settings"})
  /\ ApiProgram[4] = Stmt("look", SettingsColumns.api)
  /\ ApiProgram[5] = Stmt("column", SettingsColumns.api)
  /\ ApiProgram[6] = Stmt("insert", {})
  /\ ApiProgram[7] = Stmt("create", {"vacancy_cache", "posted_vacancies", "notification_settings"})
  /\ ApiProgram[8] = Stmt("indexes", {})
  /\ ApiProgram[9] = Stmt("commit", {})
  /\ \A i \in 10..36 : ApiProgram[i] = Stmt("migrate", {Migrations[i - 9]})
<1> DEFINE T == {Stmt("look", UserColumns.api),
                 Stmt("column", UserColumns.api),
                 Stmt("create", {"webapp_sessions", "bot_handoff_tokens", "resume_events",
                               "webapp_admin_settings"}),
                 Stmt("look", SettingsColumns.api),
                 Stmt("column", SettingsColumns.api),
                 Stmt("insert", {}),
                 Stmt("create", {"vacancy_cache", "posted_vacancies", "notification_settings"}),
                 Stmt("indexes", {}),
                 Stmt("commit", {})}
                  \cup {Stmt("migrate", {Migrations[i]}) : i \in 1..27}
           b1 == All("look", UserColumns.api)
           b2 == b1 \o All("column", UserColumns.api)
           b3 == b2 \o All("create", {"webapp_sessions", "bot_handoff_tokens", "resume_events",
                               "webapp_admin_settings"})
           b4 == b3 \o All("look", SettingsColumns.api)
           b5 == b4 \o All("column", SettingsColumns.api)
           b6 == b5 \o Do("insert")
           b7 == b6 \o All("create", {"vacancy_cache", "posted_vacancies", "notification_settings"})
           b8 == b7 \o Do("indexes")
           b9 == b8 \o Do("commit")
           m == Each("migrate", Migrations)
<1>1. ApiProgram = b9 \o m
  BY DEF ApiProgram
<1>2. /\ m \in Seq(T) /\ Len(m) = 27
      /\ \A i \in 1..27 : m[i] = Stmt("migrate", {Migrations[i]})
  BY MigrationsAre DEF Each, Stmt
<1> HIDE DEF m
<1>3. b1 \in Seq(T) /\ Len(b1) = 1 /\ b1[1] = Stmt("look", UserColumns.api)
  BY DEF All, Do, Stmt
<1> HIDE DEF b1
<1>4. Grown(T, b2, b1, Stmt("column", UserColumns.api), 2)
  <2>1. /\ Stmt("column", UserColumns.api) \in T
        /\ b2 = b1 \o <<Stmt("column", UserColumns.api)>>
    BY DEF All, Do, Stmt
  <2> HIDE DEF b2, T
  <2>2. b1 \in Seq(T) /\ Len(b1) = 2 - 1
    BY <1>3 DEF Grown
  <2> QED BY <2>1, <2>2, GrownBy
<1> HIDE DEF b2
<1>5. Grown(T, b3, b2, Stmt("create", {"webapp_sessions", "bot_handoff_tokens", "resume_events",
                               "webapp_admin_settings"}), 3)
  <2>1. /\ Stmt("create", {"webapp_sessions", "bot_handoff_tokens", "resume_events",
                               "webapp_admin_settings"}) \in T
        /\ b3 = b2 \o <<Stmt("create",
                               {"webapp_sessions", "bot_handoff_tokens", "resume_events",
                               "webapp_admin_settings"})>>
    BY DEF All, Do, Stmt
  <2> HIDE DEF b3, T
  <2>2. b2 \in Seq(T) /\ Len(b2) = 3 - 1
    BY <1>4 DEF Grown
  <2> QED BY <2>1, <2>2, GrownBy
<1> HIDE DEF b3
<1>6. Grown(T, b4, b3, Stmt("look", SettingsColumns.api), 4)
  <2>1. /\ Stmt("look", SettingsColumns.api) \in T
        /\ b4 = b3 \o <<Stmt("look", SettingsColumns.api)>>
    BY DEF All, Do, Stmt
  <2> HIDE DEF b4, T
  <2>2. b3 \in Seq(T) /\ Len(b3) = 4 - 1
    BY <1>5 DEF Grown
  <2> QED BY <2>1, <2>2, GrownBy
<1> HIDE DEF b4
<1>7. Grown(T, b5, b4, Stmt("column", SettingsColumns.api), 5)
  <2>1. /\ Stmt("column", SettingsColumns.api) \in T
        /\ b5 = b4 \o <<Stmt("column", SettingsColumns.api)>>
    BY DEF All, Do, Stmt
  <2> HIDE DEF b5, T
  <2>2. b4 \in Seq(T) /\ Len(b4) = 5 - 1
    BY <1>6 DEF Grown
  <2> QED BY <2>1, <2>2, GrownBy
<1> HIDE DEF b5
<1>8. Grown(T, b6, b5, Stmt("insert", {}), 6)
  <2>1. /\ Stmt("insert", {}) \in T
        /\ b6 = b5 \o <<Stmt("insert", {})>>
    BY DEF All, Do, Stmt
  <2> HIDE DEF b6, T
  <2>2. b5 \in Seq(T) /\ Len(b5) = 6 - 1
    BY <1>7 DEF Grown
  <2> QED BY <2>1, <2>2, GrownBy
<1> HIDE DEF b6
<1>9. Grown(T, b7, b6, Stmt("create", {"vacancy_cache", "posted_vacancies", "notification_settings"}), 7)
  <2>1. /\ Stmt("create", {"vacancy_cache", "posted_vacancies", "notification_settings"}) \in T
        /\ b7 = b6 \o <<Stmt("create", {"vacancy_cache", "posted_vacancies", "notification_settings"})>>
    BY DEF All, Do, Stmt
  <2> HIDE DEF b7, T
  <2>2. b6 \in Seq(T) /\ Len(b6) = 7 - 1
    BY <1>8 DEF Grown
  <2> QED BY <2>1, <2>2, GrownBy
<1> HIDE DEF b7
<1>10. Grown(T, b8, b7, Stmt("indexes", {}), 8)
  <2>1. /\ Stmt("indexes", {}) \in T
        /\ b8 = b7 \o <<Stmt("indexes", {})>>
    BY DEF All, Do, Stmt
  <2> HIDE DEF b8, T
  <2>2. b7 \in Seq(T) /\ Len(b7) = 8 - 1
    BY <1>9 DEF Grown
  <2> QED BY <2>1, <2>2, GrownBy
<1> HIDE DEF b8
<1>11. Grown(T, b9, b8, Stmt("commit", {}), 9)
  <2>1. /\ Stmt("commit", {}) \in T
        /\ b9 = b8 \o <<Stmt("commit", {})>>
    BY DEF All, Do, Stmt
  <2> HIDE DEF b9, T
  <2>2. b8 \in Seq(T) /\ Len(b8) = 9 - 1
    BY <1>10 DEF Grown
  <2> QED BY <2>1, <2>2, GrownBy
<1> HIDE DEF b9
<1> HIDE DEF T
<1>12. Joined(ApiProgram, b9, m, 9, 27)
  <2>1. b9 \in Seq(T) /\ Len(b9) = 9
    BY <1>11 DEF Grown
  <2> QED BY <2>1, <1>1, <1>2, JoinedAre
<1>13. b9[1] = Stmt("look", UserColumns.api)
  BY <1>3, <1>4, <1>5, <1>6, <1>7, <1>8, <1>9, <1>10, <1>11 DEF Grown
<1>14. b9[2] = Stmt("column", UserColumns.api)
  BY <1>4, <1>5, <1>6, <1>7, <1>8, <1>9, <1>10, <1>11 DEF Grown
<1>15. b9[3] = Stmt("create", {"webapp_sessions", "bot_handoff_tokens", "resume_events",
                               "webapp_admin_settings"})
  BY <1>5, <1>6, <1>7, <1>8, <1>9, <1>10, <1>11 DEF Grown
<1>16. b9[4] = Stmt("look", SettingsColumns.api)
  BY <1>6, <1>7, <1>8, <1>9, <1>10, <1>11 DEF Grown
<1>17. b9[5] = Stmt("column", SettingsColumns.api)
  BY <1>7, <1>8, <1>9, <1>10, <1>11 DEF Grown
<1>18. b9[6] = Stmt("insert", {})
  BY <1>8, <1>9, <1>10, <1>11 DEF Grown
<1>19. b9[7] = Stmt("create", {"vacancy_cache", "posted_vacancies", "notification_settings"})
  BY <1>9, <1>10, <1>11 DEF Grown
<1>20. b9[8] = Stmt("indexes", {})
  BY <1>10, <1>11 DEF Grown
<1>21. b9[9] = Stmt("commit", {})
  BY <1>11 DEF Grown
<1>22. ASSUME NEW i \in 10..36 PROVE ApiProgram[i] = Stmt("migrate", {Migrations[i - 9]})
  <2>1. i - 9 \in 1..27 /\ i \in (9 + 1)..(9 + 27)
    OBVIOUS
  <2>2. ApiProgram[i] = m[i - 9]
    BY <2>1, <1>12 DEF Joined
  <2> QED BY <2>1, <2>2, <1>2
<1>23. Len(ApiProgram) = 36 /\ DOMAIN ApiProgram = 1..36 /\ \A i \in 1..9 : ApiProgram[i] = b9[i]
  BY <1>12 DEF Joined
<1> QED BY <1>13, <1>14, <1>15, <1>16, <1>17, <1>18, <1>19, <1>20, <1>21, <1>22, <1>23

-----------------------------------------------------------------------------
\* What the migrations leave.

Ids == ToSet(Migrations)
Full == "idx:ref_by.full"
LedgerClick == "wallet_transactions.click_only"
OrdersClick == "payment_orders.click_only"

\* What may go again.
Temporary == {"saves.fake", "saves_new", "locations", LedgerClick, OrdersClick, Full}

Indexes == {Idx[i] : i \in DOMAIN Idx} \cup {"idx:ref_by"}

\* What is there once a migration is recorded.
Brings(m) ==
  CASE m = "m002" -> {"admins"}
    [] m = "m003" -> {"admin_audit_log"}
    [] m = "m004" -> {"wallet_transactions"}
    [] m = "m005" -> {"webapp_admin_settings", "webapp_admin_settings.version"}
    [] m = "m006" -> {"users", "users.started_at", "channels", "channels.chat_id", "subscription_checks"}
    [] m = "m007" -> {"content_categories", "content_articles", "content_tips"}
    [] m = "m008" -> {"broadcasts", "broadcast_targets"}
    [] m = "m009" -> {"users", "users.banned", "users.last_seen_at"}
    [] m = "m010" -> {"bot_jobs", "auto_post_log"}
    [] m = "m011" -> {"daily_stats"}
    [] m = "m012" -> {"error_log"}
    [] m = "m015" -> {"broadcast_targets.claimed_at"}
    [] m = "m017" -> {"broadcast_targets.attempts", "broadcasts.content_failed"}
    [] m = "m018" -> {"admin_idempotency"}
    [] m = "m019" -> {"broadcast_targets.last_attempt_at"}
    [] m = "m020" -> {"payment_orders", "payment_events", "payment_rate_limits", "wallet_transactions",
                       "wallet_transactions.reference",
                       "webapp_admin_settings.payment_bonus_percent"}
    [] m = "m021" -> {"users.bot_links_before"}
    [] m = "m022" -> {"users.kb_sent_at"}
    [] m = "m023" -> {"vacancies", "vacancies_fts", "ingest_cursor"}
    [] m = "m024" -> {"webapp_admin_settings.autopost_min_quality"}
    [] m = "m025" -> {"vacancies.recheck_after", "vacancies_fts_src"}
    [] m = "m026" -> {"vacancies.category_id"}
    [] m = "m027" -> {"payment_orders.paynet"}
    [] OTHER -> {}

\* What a migration finds, made by one before it.
Needs(m) ==
  CASE m \in {"m015", "m017", "m019"} -> {"broadcast_targets"}
    [] m \in {"m020", "m024"} -> {"webapp_admin_settings"}
    [] m = "m026" -> {"vacancies"}
    [] OTHER -> {}

\* A schema loses nothing but what is temporary, and a full index only for the
\* partial one.
Grows(S, T) ==
  /\ S \ Temporary \subseteq T
  /\ Full \in S => Full \in T \/ "idx:ref_by" \in T
  /\ "saves.fake" \in T => "saves.fake" \in S

\* A schema as the processes leave it.
Stands(S) ==
  /\ "m016" \in S => Full \notin S
  /\ Full \in S => "users.ref_by" \in S
  /\ "saves.fake" \in S => "saves" \in S
  /\ \A m \in Ids : m \in S => Brings(m) \subseteq S

Effect(m, S, T) ==
  /\ S \ Temporary \subseteq T
  /\ T \subseteq S \cup Brings(m) \cup Indexes \cup {LedgerClick, OrdersClick}
  /\ Brings(m) \subseteq T
  /\ IF m = "m016" /\ "users.ref_by" \in S THEN Full \notin T /\ "idx:ref_by" \in T
     ELSE Full \in T <=> Full \in S

LEMMA IdsAre ==
  Ids = {"m000", "m001", "m002", "m003", "m004", "m005", "m006", "m007", "m008", "m009", "m010", "m011", "m012",
         "m014", "m015", "m016", "m017", "m018", "m019", "m020", "m021", "m022", "m023",
         "m024", "m025", "m026", "m027"}
BY DEF Ids, ToSet, Migrations

LEMMA Growing ==
  ASSUME NEW S, NEW T, NEW U, Grows(S, T), Grows(T, U)
  PROVE  Grows(S, U)
BY DEF Grows, Temporary, Full, LedgerClick, OrdersClick

\* Each migration.
LEMMA MigrationsDo ==
  ASSUME NEW S, NEW m \in Ids, Needs(m) \subseteq S
  PROVE  Effect(m, S, Applied(m, S))
<1>1. CASE m = "m000"
  <2>1. Applied(m, S) = S
    BY <1>1 DEF Applied
  <2> QED BY <2>1, <1>1 DEF Effect, Brings, Needs, Temporary, Full, LedgerClick, OrdersClick,
             Indexes
<1>2. CASE m = "m001"
  <2>1. Applied(m, S) = m001_indexes(S)
    BY <1>2 DEF Applied
  <2> QED BY <2>1, <1>2 DEF Effect, Brings, Needs, Temporary, Full, LedgerClick, OrdersClick,
             Indexes, m001_indexes, Idx, ReportingIndexes
<1>3. CASE m = "m002"
  <2>1. Applied(m, S) = m002_admins(S)
    BY <1>3 DEF Applied
  <2> QED BY <2>1, <1>3 DEF Effect, Brings, Needs, Temporary, Full, LedgerClick, OrdersClick,
             Indexes, m002_admins
<1>4. CASE m = "m003"
  <2>1. Applied(m, S) = m003_audit_log(S)
    BY <1>4 DEF Applied
  <2> QED BY <2>1, <1>4 DEF Effect, Brings, Needs, Temporary, Full, LedgerClick, OrdersClick,
             Indexes, m003_audit_log
<1>5. CASE m = "m004"
  <2>1. Applied(m, S) = m004_wallet_transactions(S)
    BY <1>5 DEF Applied
  <2> QED BY <2>1, <1>5 DEF Effect, Brings, Needs, Temporary, Full, LedgerClick, OrdersClick,
             Indexes, m004_wallet_transactions
<1>6. CASE m = "m005"
  <2>1. Applied(m, S) = m005_settings_version(S)
    BY <1>6 DEF Applied
  <2> QED BY <2>1, <1>6 DEF Effect, Brings, Needs, Temporary, Full, LedgerClick, OrdersClick,
             Indexes, m005_settings_version
<1>7. CASE m = "m006"
  <2>1. Applied(m, S) = m006_entry_gate(S)
    BY <1>7 DEF Applied
  <2> QED BY <2>1, <1>7 DEF Effect, Brings, Needs, Temporary, Full, LedgerClick, OrdersClick,
             Indexes, m006_entry_gate
<1>8. CASE m = "m007"
  <2>1. Applied(m, S) = m007_content(S)
    BY <1>8 DEF Applied
  <2> QED BY <2>1, <1>8 DEF Effect, Brings, Needs, Temporary, Full, LedgerClick, OrdersClick,
             Indexes, m007_content
<1>9. CASE m = "m008"
  <2>1. Applied(m, S) = m008_broadcasts(S)
    BY <1>9 DEF Applied
  <2> QED BY <2>1, <1>9 DEF Effect, Brings, Needs, Temporary, Full, LedgerClick, OrdersClick,
             Indexes, m008_broadcasts
<1>10. CASE m = "m009"
  <2>1. Applied(m, S) = m009_admin_users(S)
    BY <1>10 DEF Applied
  <2> QED BY <2>1, <1>10 DEF Effect, Brings, Needs, Temporary, Full, LedgerClick, OrdersClick,
             Indexes, m009_admin_users
<1>11. CASE m = "m010"
  <2>1. Applied(m, S) = m010_bot_jobs_autopost(S)
    BY <1>11 DEF Applied
  <2> QED BY <2>1, <1>11 DEF Effect, Brings, Needs, Temporary, Full, LedgerClick, OrdersClick,
             Indexes, m010_bot_jobs_autopost
<1>12. CASE m = "m011"
  <2>1. Applied(m, S) = m011_daily_stats(S)
    BY <1>12 DEF Applied
  <2> QED BY <2>1, <1>12 DEF Effect, Brings, Needs, Temporary, Full, LedgerClick, OrdersClick,
             Indexes, m011_daily_stats
<1>13. CASE m = "m012"
  <2>1. Applied(m, S) = m012_error_log(S)
    BY <1>13 DEF Applied
  <2> QED BY <2>1, <1>13 DEF Effect, Brings, Needs, Temporary, Full, LedgerClick, OrdersClick,
             Indexes, m012_error_log
<1>14. CASE m = "m014"
  <2>1. Applied(m, S) = m014_ref_by_index(S)
    BY <1>14 DEF Applied
  <2> QED BY <2>1, <1>14 DEF Effect, Brings, Needs, Temporary, Full, LedgerClick, OrdersClick,
             Indexes, m014_ref_by_index
<1>15. CASE m = "m015"
  <2>1. Applied(m, S) = m015_broadcast_claimed_at(S)
    BY <1>15 DEF Applied
  <2> QED BY <2>1, <1>15 DEF Effect, Brings, Needs, Temporary, Full, LedgerClick, OrdersClick,
             Indexes, m015_broadcast_claimed_at
<1>16. CASE m = "m016"
  <2>1. Applied(m, S) = m016_ref_by_partial_index(S)
    BY <1>16 DEF Applied
  <2> QED BY <2>1, <1>16 DEF Effect, Brings, Needs, Temporary, Full, LedgerClick, OrdersClick,
             Indexes, m016_ref_by_partial_index
<1>17. CASE m = "m017"
  <2>1. Applied(m, S) = m017_broadcast_retry(S)
    BY <1>17 DEF Applied
  <2> QED BY <2>1, <1>17 DEF Effect, Brings, Needs, Temporary, Full, LedgerClick, OrdersClick,
             Indexes, m017_broadcast_retry
<1>18. CASE m = "m018"
  <2>1. Applied(m, S) = m018_admin_idempotency(S)
    BY <1>18 DEF Applied
  <2> QED BY <2>1, <1>18 DEF Effect, Brings, Needs, Temporary, Full, LedgerClick, OrdersClick,
             Indexes, m018_admin_idempotency
<1>19. CASE m = "m019"
  <2>1. Applied(m, S) = m019_broadcast_last_attempt(S)
    BY <1>19 DEF Applied
  <2> QED BY <2>1, <1>19 DEF Effect, Brings, Needs, Temporary, Full, LedgerClick, OrdersClick,
             Indexes, m019_broadcast_last_attempt
<1>20. CASE m = "m020"
  <2>1. Applied(m, S) = m020_click_payments(S)
    BY <1>20 DEF Applied
  <2> QED BY <2>1, <1>20 DEF Effect, Brings, Needs, Temporary, Full, LedgerClick, OrdersClick,
             Indexes, m020_click_payments
<1>21. CASE m = "m021"
  <2>1. Applied(m, S) = m021_bot_link_revocation(S)
    BY <1>21 DEF Applied
  <2> QED BY <2>1, <1>21 DEF Effect, Brings, Needs, Temporary, Full, LedgerClick, OrdersClick,
             Indexes, m021_bot_link_revocation
<1>22. CASE m = "m022"
  <2>1. Applied(m, S) = m022_kb_sent_at(S)
    BY <1>22 DEF Applied
  <2> QED BY <2>1, <1>22 DEF Effect, Brings, Needs, Temporary, Full, LedgerClick, OrdersClick,
             Indexes, m022_kb_sent_at
<1>23. CASE m = "m023"
  <2>1. Applied(m, S) = m023_vacancy_store(S)
    BY <1>23 DEF Applied
  <2> QED BY <2>1, <1>23 DEF Effect, Brings, Needs, Temporary, Full, LedgerClick, OrdersClick,
             Indexes, m023_vacancy_store
<1>24. CASE m = "m024"
  <2>1. Applied(m, S) = m024_autopost_min_quality(S)
    BY <1>24 DEF Applied
  <2> QED BY <2>1, <1>24 DEF Effect, Brings, Needs, Temporary, Full, LedgerClick, OrdersClick,
             Indexes, m024_autopost_min_quality
<1>25. CASE m = "m025"
  <2>1. Applied(m, S) = m025_ingest_hardening(S)
    BY <1>25 DEF Applied
  <2> QED BY <2>1, <1>25 DEF Effect, Brings, Needs, Temporary, Full, LedgerClick, OrdersClick,
             Indexes, m025_ingest_hardening
<1>26. CASE m = "m026"
  <2>1. Applied(m, S) = m026_vacancy_category(S)
    BY <1>26 DEF Applied
  <2> QED BY <2>1, <1>26 DEF Effect, Brings, Needs, Temporary, Full, LedgerClick, OrdersClick,
             Indexes, m026_vacancy_category
<1>27. CASE m = "m027"
  <2>1. Applied(m, S) = m027_paynet(S)
    BY <1>27 DEF Applied
  <2> QED BY <2>1, <1>27 DEF Effect, Brings, Needs, Temporary, Full, LedgerClick, OrdersClick,
             Indexes, m027_paynet
<1> QED BY IdsAre, <1>1, <1>2, <1>3, <1>4, <1>5, <1>6, <1>7, <1>8, <1>9, <1>10, <1>11, <1>12,
           <1>13, <1>14, <1>15, <1>16, <1>17, <1>18, <1>19, <1>20, <1>21, <1>22, <1>23, <1>24,
           <1>25, <1>26, <1>27

\* The names of what a migration brings are not temporary, and not migrations.
LEMMA BringsAreNames ==
  ASSUME NEW m \in Ids
  PROVE  Brings(m) \cap Temporary = {} /\ Brings(m) \cap Ids = {}
<1>1. CASE m = "m000"
  BY <1>1, IdsAre DEF Brings, Temporary, Full, LedgerClick, OrdersClick
<1>2. CASE m = "m001"
  BY <1>2, IdsAre DEF Brings, Temporary, Full, LedgerClick, OrdersClick
<1>3. CASE m = "m002"
  BY <1>3, IdsAre DEF Brings, Temporary, Full, LedgerClick, OrdersClick
<1>4. CASE m = "m003"
  BY <1>4, IdsAre DEF Brings, Temporary, Full, LedgerClick, OrdersClick
<1>5. CASE m = "m004"
  BY <1>5, IdsAre DEF Brings, Temporary, Full, LedgerClick, OrdersClick
<1>6. CASE m = "m005"
  BY <1>6, IdsAre DEF Brings, Temporary, Full, LedgerClick, OrdersClick
<1>7. CASE m = "m006"
  BY <1>7, IdsAre DEF Brings, Temporary, Full, LedgerClick, OrdersClick
<1>8. CASE m = "m007"
  BY <1>8, IdsAre DEF Brings, Temporary, Full, LedgerClick, OrdersClick
<1>9. CASE m = "m008"
  BY <1>9, IdsAre DEF Brings, Temporary, Full, LedgerClick, OrdersClick
<1>10. CASE m = "m009"
  BY <1>10, IdsAre DEF Brings, Temporary, Full, LedgerClick, OrdersClick
<1>11. CASE m = "m010"
  BY <1>11, IdsAre DEF Brings, Temporary, Full, LedgerClick, OrdersClick
<1>12. CASE m = "m011"
  BY <1>12, IdsAre DEF Brings, Temporary, Full, LedgerClick, OrdersClick
<1>13. CASE m = "m012"
  BY <1>13, IdsAre DEF Brings, Temporary, Full, LedgerClick, OrdersClick
<1>14. CASE m = "m014"
  BY <1>14, IdsAre DEF Brings, Temporary, Full, LedgerClick, OrdersClick
<1>15. CASE m = "m015"
  BY <1>15, IdsAre DEF Brings, Temporary, Full, LedgerClick, OrdersClick
<1>16. CASE m = "m016"
  BY <1>16, IdsAre DEF Brings, Temporary, Full, LedgerClick, OrdersClick
<1>17. CASE m = "m017"
  BY <1>17, IdsAre DEF Brings, Temporary, Full, LedgerClick, OrdersClick
<1>18. CASE m = "m018"
  BY <1>18, IdsAre DEF Brings, Temporary, Full, LedgerClick, OrdersClick
<1>19. CASE m = "m019"
  BY <1>19, IdsAre DEF Brings, Temporary, Full, LedgerClick, OrdersClick
<1>20. CASE m = "m020"
  BY <1>20, IdsAre DEF Brings, Temporary, Full, LedgerClick, OrdersClick
<1>21. CASE m = "m021"
  BY <1>21, IdsAre DEF Brings, Temporary, Full, LedgerClick, OrdersClick
<1>22. CASE m = "m022"
  BY <1>22, IdsAre DEF Brings, Temporary, Full, LedgerClick, OrdersClick
<1>23. CASE m = "m023"
  BY <1>23, IdsAre DEF Brings, Temporary, Full, LedgerClick, OrdersClick
<1>24. CASE m = "m024"
  BY <1>24, IdsAre DEF Brings, Temporary, Full, LedgerClick, OrdersClick
<1>25. CASE m = "m025"
  BY <1>25, IdsAre DEF Brings, Temporary, Full, LedgerClick, OrdersClick
<1>26. CASE m = "m026"
  BY <1>26, IdsAre DEF Brings, Temporary, Full, LedgerClick, OrdersClick
<1>27. CASE m = "m027"
  BY <1>27, IdsAre DEF Brings, Temporary, Full, LedgerClick, OrdersClick
<1> QED BY IdsAre, <1>1, <1>2, <1>3, <1>4, <1>5, <1>6, <1>7, <1>8, <1>9, <1>10, <1>11, <1>12,
           <1>13, <1>14, <1>15, <1>16, <1>17, <1>18, <1>19, <1>20, <1>21, <1>22, <1>23, <1>24,
           <1>25, <1>26, <1>27

LEMMA NamesAreApart ==
  /\ Indexes \cap Temporary = {} /\ Indexes \cap Ids = {} /\ Temporary \cap Ids = {}
  /\ "users.ref_by" \notin Temporary /\ "saves" \notin Temporary /\ "idx:ref_by" \notin Temporary
  /\ Full \in Temporary /\ LedgerClick \in Temporary /\ OrdersClick \in Temporary
  /\ "saves.fake" \in Temporary /\ "saves.fake" \notin {LedgerClick, OrdersClick}
  /\ "idx:ref_by" \in Indexes /\ Full \notin {LedgerClick, OrdersClick}
<1>1. Indexes = {"idx:date", "idx:user_pro", "idx:blocked", "idx:resume_events",
                 "idx:posted_vacancies", "idx:notification_settings", "idx:referral_payouts",
                 "idx:webapp_sessions", "idx:ref_by"}
  BY DEF Indexes, Idx
<1> QED BY <1>1, IdsAre DEF Temporary, Full, LedgerClick, OrdersClick

\* What a migration needs, those before it have brought.
LEMMA NeedsAreMet ==
  ASSUME NEW S, Stands(S), NEW i \in 1..27, \A j \in 1..(i - 1) : Migrations[j] \in S
  PROVE  Needs(Migrations[i]) \subseteq S
<1>1. /\ Migrations[6] = "m005" /\ Migrations[9] = "m008" /\ Migrations[23] = "m023"
      /\ \A k \in 1..27 : Migrations[k] \in {"m015", "m017", "m019"} => k > 9
      /\ \A k \in 1..27 : Migrations[k] \in {"m020", "m024"} => k > 6
      /\ \A k \in 1..27 : Migrations[k] = "m026" => k > 23
  BY DEF Migrations
<1>2. CASE Migrations[i] \in {"m015", "m017", "m019"}
  <2>1. "m008" \in S
    BY <1>1, <1>2
  <2>2. "broadcast_targets" \in S
    BY <2>1, IdsAre DEF Stands, Brings
  <2> QED BY <2>2, <1>2 DEF Needs
<1>3. CASE Migrations[i] \in {"m020", "m024"}
  <2>1. "m005" \in S
    BY <1>1, <1>3
  <2>2. "webapp_admin_settings" \in S
    BY <2>1, IdsAre DEF Stands, Brings
  <2> QED BY <2>2, <1>3 DEF Needs
<1>4. CASE Migrations[i] = "m026"
  <2>1. "m023" \in S
    BY <1>1, <1>4
  <2>2. "vacancies" \in S
    BY <2>1, IdsAre DEF Stands, Brings
  <2> QED BY <2>2, <1>4 DEF Needs
<1> QED BY <1>2, <1>3, <1>4 DEF Needs

\* A migration, with its record.
LEMMA MigrationStands ==
  ASSUME NEW S, Stands(S), NEW m \in Ids, Needs(m) \subseteq S,
         NEW T, T = Applied(m, S) \cup {m}
  PROVE  Grows(S, T) /\ Stands(T) /\ m \in T
<1>1. PICK A : A = Applied(m, S)
  OBVIOUS
<1>2. /\ S \ Temporary \subseteq A
      /\ A \subseteq S \cup Brings(m) \cup Indexes \cup {LedgerClick, OrdersClick}
      /\ Brings(m) \subseteq A
      /\ IF m = "m016" /\ "users.ref_by" \in S THEN Full \notin A /\ "idx:ref_by" \in A
         ELSE Full \in A <=> Full \in S
  BY <1>1, MigrationsDo DEF Effect
<1>3. Brings(m) \cap Temporary = {} /\ Brings(m) \cap Ids = {}
  BY BringsAreNames
<1>4. T = A \cup {m} /\ m \notin Temporary
  BY <1>1, NamesAreApart
<1>5. Grows(S, T)
  BY <1>2, <1>3, <1>4, NamesAreApart DEF Grows, Stands
<1>6. ASSUME NEW k \in Ids, k \in T PROVE Brings(k) \subseteq T
  <2>1. CASE k = m
    BY <2>1, <1>2, <1>4
  <2>2. CASE k # m
    <3>1. k \in S
      BY <2>2, <1>2, <1>3, <1>4, <1>6, NamesAreApart
    <3>2. Brings(k) \subseteq S /\ Brings(k) \cap Temporary = {}
      BY <3>1, BringsAreNames DEF Stands
    <3> QED BY <3>2, <1>2, <1>4
  <2> QED BY <2>1, <2>2
<1>7. "m016" \in T => Full \notin T
  BY <1>2, <1>3, <1>4, NamesAreApart, IdsAre DEF Stands
<1>8. Full \in T => "users.ref_by" \in T
  BY <1>2, <1>4, NamesAreApart DEF Stands
<1>9. "saves.fake" \in T => "saves" \in T
  BY <1>2, <1>5, <1>4, NamesAreApart DEF Stands, Grows
<1> QED BY <1>4, <1>5, <1>6, <1>7, <1>8, <1>9 DEF Stands

-----------------------------------------------------------------------------
(***************************************************************************)
(* The inductive invariant.                                                *)
(***************************************************************************)

Base == [bot |-> 12, api |-> 9]
Size(p) == Base[p] + 27

\* Where a process may hold the lock: from the first row that it writes to its
\* commit, and within a migration.
Window(p) == (IF p = "bot" THEN {4, 5, 11} ELSE {7, 8, 9}) \cup (Base[p] + 1)..Size(p)

Known == UNION {UNION {Program[p][i].parts : i \in 1..Size(p)} : p \in Procs}

ProcRecords ==
  [at : Nat, seen : SUBSET Known, moved : BOOLEAN, later : BOOLEAN, missed : BOOLEAN,
   been : BOOLEAN]

\* What is committed stands, and so does what would be, which loses nothing of it.
StoreInv ==
  /\ lock \in {"bot", "api", "nobody"}
  /\ Stands(schema)
  /\ lock # "nobody" => Stands(workcopy) /\ Grows(schema, workcopy)
  /\ ~twice

\* A process holds the lock only in its windows, and begins a migration with
\* the schema as it is.
LockIn(p) ==
  lock = p => proc[p].at \in Window(p) /\ (proc[p].at > Base[p] => workcopy = schema)

\* The columns missing now were missing at the look.
SeenIn(p) ==
  At(p, "column") =>
    Statement(p).parts \ View(p) \subseteq proc[p].seen /\ proc[p].seen \subseteq Statement(p).parts

\* What the kth statement makes for good, and when.
Makes(p, k) ==
  CASE Program[p][k].do \in {"create", "column", "migrate"} -> Program[p][k].parts
    [] Program[p][k].do = "saves_new" -> {"saves"}
    [] Program[p][k].do = "indexes" -> Indexes \ {"idx:ref_by"}
    [] OTHER -> {}

Fair(p, k) ==
  /\ Program[p][k].do \in {"column", "indexes"} => proc[p].later
  /\ Program[p][k].do = "column" => ~proc[p].missed

DoneIn(p) ==
  \A k \in 1..Size(p) : proc[p].at > k /\ Fair(p, k) => Makes(p, k) \subseteq View(p)

\* The table of the saves was moved, and there is an index of the referrals.
MovedIn(p) ==
  /\ p = "bot" /\ proc[p].at > 3 => "saves.fake" \notin View(p)
  /\ p = "api" /\ proc[p].at > 8 /\ proc[p].later =>
       "idx:ref_by" \in View(p) \/ Full \in View(p)

\* What a process that has been up has left.
BeenIn(p) ==
  proc[p].been =>
    /\ Ids \subseteq schema
    /\ \A k \in 1..Size(p) : Program[p][k].do = "create" => Program[p][k].parts \subseteq schema
    /\ p = "bot" => "saves" \in schema /\ "saves.fake" \notin schema

ProcInv(p) ==
  /\ proc[p].at <= Size(p) + 1
  /\ proc[p].later => proc[Other(p)].been
  /\ LockIn(p) /\ SeenIn(p) /\ DoneIn(p) /\ MovedIn(p) /\ BeenIn(p)

WholeInv ==
  proc \in [Procs -> ProcRecords] /\ StoreInv /\ \A p \in Procs : ProcInv(p)

-----------------------------------------------------------------------------
\* What the proofs need of the programs.

At0(p, k) == Program[p][k]

\* Before the migrations.
Early(p, k) ==
  /\ At0(p, k).do # "migrate"
  /\ At0(p, k).do \in {"saves", "insert", "regions"} => k + 1 \in Window(p) /\ k + 1 <= Base[p]
  /\ k \in Window(p) /\ At0(p, k).do # "commit" => k + 1 \in Window(p) /\ k + 1 <= Base[p]
  /\ At0(p, k).do = "column" => k > 1 /\ At0(p, k - 1) = Stmt("look", At0(p, k).parts)
  /\ At0(p, k).do = "saves_new" => p = "bot" /\ k = 2
  /\ p = "bot" /\ k = 3 => At0(p, k).do = "saves"
  /\ At0(p, k).do = "saves" => p = "bot" /\ k = 3
  /\ At0(p, k).do = "indexes" <=> p = "api" /\ k = 8
  /\ At0(p, k).do \in {"create", "column", "look"} =>
       At0(p, k).parts \cap (Ids \cup Temporary) = {}
  /\ At0(p, k).do \notin {"create", "column", "look"} => At0(p, k).parts = {}

LEMMA ColumnsAre ==
  ASSUME NEW C, C \in {UserColumns.bot, UserColumns.api, SettingsColumns.bot, SettingsColumns.api}
  PROVE  C \cap (Ids \cup Temporary) = {}
<1>1. /\ UserColumns.bot \cap Ids = {} /\ UserColumns.api \cap Ids = {}
      /\ SettingsColumns.bot \cap Ids = {} /\ SettingsColumns.api \cap Ids = {}
  BY IdsAre DEF UserColumns, SettingsColumns
<1>2. /\ UserColumns.bot \cap Temporary = {} /\ UserColumns.api \cap Temporary = {}
      /\ SettingsColumns.bot \cap Temporary = {} /\ SettingsColumns.api \cap Temporary = {}
  BY DEF UserColumns, SettingsColumns, Temporary, Full, LedgerClick, OrdersClick
<1> QED BY <1>1, <1>2

LEMMA BotEarly == ASSUME NEW k \in 1..12 PROVE Early("bot", k)
<1>1. CASE k = 1
  BY <1>1, BotIs, IdsAre DEF Early, At0, Program, Window, Base, Stmt, Temporary, Full,
     LedgerClick, OrdersClick, UserColumns, SettingsColumns
<1>2. CASE k = 2
  BY <1>2, BotIs, IdsAre DEF Early, At0, Program, Window, Base, Stmt, Temporary, Full,
     LedgerClick, OrdersClick, UserColumns, SettingsColumns
<1>3. CASE k = 3
  BY <1>3, BotIs, IdsAre DEF Early, At0, Program, Window, Base, Stmt, Temporary, Full,
     LedgerClick, OrdersClick, UserColumns, SettingsColumns
<1>4. CASE k = 4
  BY <1>4, BotIs, IdsAre DEF Early, At0, Program, Window, Base, Stmt, Temporary, Full,
     LedgerClick, OrdersClick, UserColumns, SettingsColumns
<1>5. CASE k = 5
  BY <1>5, BotIs, IdsAre DEF Early, At0, Program, Window, Base, Stmt, Temporary, Full,
     LedgerClick, OrdersClick, UserColumns, SettingsColumns
<1>6. CASE k = 6
  BY <1>6, BotIs, IdsAre DEF Early, At0, Program, Window, Base, Stmt, Temporary, Full,
     LedgerClick, OrdersClick, UserColumns, SettingsColumns
<1>7. CASE k = 7
  <2>1. At0("bot", k) = Stmt("column", UserColumns.bot) /\ At0("bot", k - 1) = Stmt("look", UserColumns.bot)
    <3>1. k - 1 = 6
      BY <1>7
    <3> QED BY <3>1, <1>7, BotIs DEF At0, Program
  <2>2. k \notin Window("bot")
    BY <1>7 DEF Window, Base
  <2>3. UserColumns.bot \cap (Ids \cup Temporary) = {}
    BY ColumnsAre
  <2> QED BY <1>7, <2>1, <2>2, <2>3 DEF Early, Stmt
<1>8. CASE k = 8
  BY <1>8, BotIs, IdsAre DEF Early, At0, Program, Window, Base, Stmt, Temporary, Full,
     LedgerClick, OrdersClick, UserColumns, SettingsColumns
<1>9. CASE k = 9
  <2>1. At0("bot", k) = Stmt("column", SettingsColumns.bot) /\ At0("bot", k - 1) = Stmt("look", SettingsColumns.bot)
    <3>1. k - 1 = 8
      BY <1>9
    <3> QED BY <3>1, <1>9, BotIs DEF At0, Program
  <2>2. k \notin Window("bot")
    BY <1>9 DEF Window, Base
  <2>3. SettingsColumns.bot \cap (Ids \cup Temporary) = {}
    BY ColumnsAre
  <2> QED BY <1>9, <2>1, <2>2, <2>3 DEF Early, Stmt
<1>10. CASE k = 10
  BY <1>10, BotIs, IdsAre DEF Early, At0, Program, Window, Base, Stmt, Temporary, Full,
     LedgerClick, OrdersClick, UserColumns, SettingsColumns
<1>11. CASE k = 11
  BY <1>11, BotIs, IdsAre DEF Early, At0, Program, Window, Base, Stmt, Temporary, Full,
     LedgerClick, OrdersClick, UserColumns, SettingsColumns
<1>12. CASE k = 12
  BY <1>12, BotIs, IdsAre DEF Early, At0, Program, Window, Base, Stmt, Temporary, Full,
     LedgerClick, OrdersClick, UserColumns, SettingsColumns
<1> QED BY <1>1, <1>2, <1>3, <1>4, <1>5, <1>6, <1>7, <1>8, <1>9, <1>10, <1>11, <1>12

LEMMA ApiEarly == ASSUME NEW k \in 1..9 PROVE Early("api", k)
<1>1. CASE k = 1
  BY <1>1, ApiIs, IdsAre DEF Early, At0, Program, Window, Base, Stmt, Temporary, Full,
     LedgerClick, OrdersClick, UserColumns, SettingsColumns
<1>2. CASE k = 2
  <2>1. At0("api", k) = Stmt("column", UserColumns.api) /\ At0("api", k - 1) = Stmt("look", UserColumns.api)
    <3>1. k - 1 = 1
      BY <1>2
    <3> QED BY <3>1, <1>2, ApiIs DEF At0, Program
  <2>2. k \notin Window("api")
    BY <1>2 DEF Window, Base
  <2>3. UserColumns.api \cap (Ids \cup Temporary) = {}
    BY ColumnsAre
  <2> QED BY <1>2, <2>1, <2>2, <2>3 DEF Early, Stmt
<1>3. CASE k = 3
  BY <1>3, ApiIs, IdsAre DEF Early, At0, Program, Window, Base, Stmt, Temporary, Full,
     LedgerClick, OrdersClick, UserColumns, SettingsColumns
<1>4. CASE k = 4
  BY <1>4, ApiIs, IdsAre DEF Early, At0, Program, Window, Base, Stmt, Temporary, Full,
     LedgerClick, OrdersClick, UserColumns, SettingsColumns
<1>5. CASE k = 5
  <2>1. At0("api", k) = Stmt("column", SettingsColumns.api) /\ At0("api", k - 1) = Stmt("look", SettingsColumns.api)
    <3>1. k - 1 = 4
      BY <1>5
    <3> QED BY <3>1, <1>5, ApiIs DEF At0, Program
  <2>2. k \notin Window("api")
    BY <1>5 DEF Window, Base
  <2>3. SettingsColumns.api \cap (Ids \cup Temporary) = {}
    BY ColumnsAre
  <2> QED BY <1>5, <2>1, <2>2, <2>3 DEF Early, Stmt
<1>6. CASE k = 6
  BY <1>6, ApiIs, IdsAre DEF Early, At0, Program, Window, Base, Stmt, Temporary, Full,
     LedgerClick, OrdersClick, UserColumns, SettingsColumns
<1>7. CASE k = 7
  BY <1>7, ApiIs, IdsAre DEF Early, At0, Program, Window, Base, Stmt, Temporary, Full,
     LedgerClick, OrdersClick, UserColumns, SettingsColumns
<1>8. CASE k = 8
  BY <1>8, ApiIs, IdsAre DEF Early, At0, Program, Window, Base, Stmt, Temporary, Full,
     LedgerClick, OrdersClick, UserColumns, SettingsColumns
<1>9. CASE k = 9
  BY <1>9, ApiIs, IdsAre DEF Early, At0, Program, Window, Base, Stmt, Temporary, Full,
     LedgerClick, OrdersClick, UserColumns, SettingsColumns
<1> QED BY <1>1, <1>2, <1>3, <1>4, <1>5, <1>6, <1>7, <1>8, <1>9

LEMMA ProgramIs ==
  ASSUME NEW p \in Procs
  PROVE  /\ Len(Program[p]) = Size(p) /\ Base[p] \in Nat /\ Base[p] \in {9, 12} /\ Size(p) \in Nat
         /\ Size(p) = Base[p] + 27
         /\ \A k \in 1..Base[p] : Early(p, k)
         /\ \A i \in 1..27 : /\ Base[p] + i \in 1..Size(p) /\ Base[p] + i > Base[p]
                             /\ At0(p, Base[p] + i) = Stmt("migrate", {Migrations[i]})
                             /\ Migrations[i] \in Ids
<1>1. \A i \in 1..27 : Migrations[i] \in Ids
  BY MigrationsAre DEF Ids, ToSet
<1>2. CASE p = "bot"
  <2>1. Base[p] = 12 /\ Size(p) = 39 /\ Program[p] = BotProgram
    BY <1>2 DEF Base, Size, Program
  <2>2. \A i \in 1..27 : 12 + i \in 13..39 /\ (12 + i) - 12 = i
    OBVIOUS
  <2>3. \A k \in 1..12 : Early(p, k)
    BY <1>2, BotEarly
  <2> QED BY <2>1, <2>2, <2>3, <1>1, BotIs DEF At0
<1>3. CASE p = "api"
  <2>1. Base[p] = 9 /\ Size(p) = 36 /\ Program[p] = ApiProgram
    BY <1>3 DEF Base, Size, Program
  <2>2. \A i \in 1..27 : 9 + i \in 10..36 /\ (9 + i) - 9 = i
    OBVIOUS
  <2>3. \A k \in 1..9 : Early(p, k)
    BY <1>3, ApiEarly
  <2> QED BY <2>1, <2>2, <2>3, <1>1, ApiIs DEF At0
<1> QED BY <1>2, <1>3 DEF Procs

\* A statement is one of the first ones or a migration.
LEMMA StatementIs ==
  ASSUME NEW p \in Procs, NEW k \in 1..Size(p)
  PROVE  \/ k \in 1..Base[p] /\ k <= Base[p] /\ Early(p, k) /\ At0(p, k).do # "migrate"
         \/ /\ k > Base[p] /\ k - Base[p] \in 1..27
            /\ At0(p, k) = Stmt("migrate", {Migrations[k - Base[p]]})
            /\ At0(p, k).do = "migrate" /\ At0(p, k).parts = {Migrations[k - Base[p]]}
            /\ Migrations[k - Base[p]] \in Ids
<1> PICK b \in Nat : b = Base[p]
  BY ProgramIs
<1>1. Size(p) = b + 27 /\ k \in 1..(b + 27)
  BY ProgramIs
<1>2. CASE k <= b
  <2>1. k \in 1..b
    BY <1>1, <1>2
  <2>2. Early(p, k)
    BY <2>1, ProgramIs
  <2> QED BY <2>1, <2>2, <1>2 DEF Early
<1>3. CASE k > b
  <2>1. k - b \in 1..27 /\ b + (k - b) = k
    BY <1>1, <1>3
  <2>2. PICK i \in 1..27 : i = k - b /\ b + i = k
    BY <2>1
  <2>3. At0(p, b + i) = Stmt("migrate", {Migrations[i]}) /\ Migrations[i] \in Ids
    BY ProgramIs
  <2> QED BY <2>2, <2>3, <1>3 DEF Stmt
<1> QED BY <1>1, <1>2, <1>3

-----------------------------------------------------------------------------
\* What a step of p may do to what is stored.
StoreMoves(p) ==
  /\ StoreInv'
  /\ Grows(schema, schema')
  /\ lock = Other(p) => lock' = lock /\ workcopy' = workcopy /\ schema' = schema
  /\ lock' = Other(p) => lock = Other(p)

\* S is the schema as p sees it then.
Moves(p, S) == StoreMoves(p) /\ View(p)' = S /\ Grows(View(p), S)

LEMMA ViewStands ==
  ASSUME StoreInv, NEW p \in Procs
  PROVE  /\ Stands(View(p)) /\ Grows(View(p), View(p)) /\ Grows(schema, View(p)) /\ Grows(schema, schema)
         /\ Other(p) \in Procs /\ Other(p) # p /\ Other(Other(p)) = p
         /\ p # "nobody" /\ Procs = {p, Other(p)}
         /\ lock \in {p, Other(p), "nobody"}
BY DEF StoreInv, Procs, View, Grows, Other

LEMMA Written ==
  ASSUME StoreInv, NEW p \in Procs, NEW S, Stands(S), Grows(View(p), S), Turn(p, S)
  PROVE  Moves(p, S) /\ lock' = lock
<1>1. Grows(schema, S)
  BY ViewStands, Growing
<1>2. CASE lock = p
  BY <1>1, <1>2, ViewStands DEF Turn, Moves, StoreMoves, StoreInv, View
<1>3. CASE lock # p
  BY <1>1, <1>3, ViewStands DEF Turn, Moves, StoreMoves, StoreInv, View
<1> QED BY <1>2, <1>3

LEMMA Begun ==
  ASSUME StoreInv, NEW p \in Procs, NEW S, Stands(S), Grows(View(p), S), BeginWith(p, S)
  PROVE  Moves(p, S) /\ lock' = p
<1>1. Grows(schema, S)
  BY ViewStands, Growing
<1>2. /\ lock' = p /\ workcopy' = S /\ schema' = schema /\ twice' = twice
      /\ lock \in {p, "nobody"}
  BY DEF BeginWith
<1>3. StoreInv'
  BY <1>1, <1>2, ViewStands DEF StoreInv, Procs
<1> QED BY <1>1, <1>2, <1>3, ViewStands DEF Moves, StoreMoves, View

LEMMA Kept ==
  ASSUME StoreInv, NEW p \in Procs, UNCHANGED <<schema, workcopy, lock, twice>>
  PROVE  Moves(p, View(p)) /\ lock' = lock
BY ViewStands DEF Moves, StoreMoves, StoreInv, View

\* Parts that are added, and parts that go.
LEMMA Added ==
  ASSUME NEW S, Stands(S), NEW C, C \cap Ids = {}, Full \notin C, "saves.fake" \notin C
  PROVE  Stands(S \cup C) /\ Grows(S, S \cup C)
BY IdsAre DEF Stands, Grows, Full

LEMMA Removed ==
  ASSUME NEW S, Stands(S), NEW C, C \subseteq {"saves.fake", "saves_new", "locations"}
  PROVE  Stands(S \ C) /\ Grows(S, S \ C)
<1>1. C \subseteq Temporary /\ Full \notin C
  BY DEF Temporary, Full
<1>2. ASSUME NEW m \in Ids, m \in S \ C PROVE Brings(m) \subseteq S \ C
  BY <1>1, <1>2, BringsAreNames DEF Stands
<1>3. "users.ref_by" \notin C /\ "saves" \notin C
  OBVIOUS
<1> QED BY <1>1, <1>2, <1>3 DEF Stands, Grows

-----------------------------------------------------------------------------
\* What a statement makes for good is not temporary.
LEMMA MakesStay ==
  ASSUME NEW p \in Procs, NEW k \in 1..Size(p)
  PROVE  Makes(p, k) \cap Temporary = {}
<1>1. CASE At0(p, k).do \in {"create", "column", "look"} /\ Early(p, k)
  BY <1>1, NamesAreApart DEF Early, Makes, At0
<1>2. CASE At0(p, k).do = "migrate" /\ At0(p, k).parts \subseteq Ids
  BY <1>2, NamesAreApart DEF Makes, At0
<1>3. CASE At0(p, k).do \notin {"create", "column", "look", "migrate"}
  BY <1>3, NamesAreApart DEF Makes, At0
<1> QED BY <1>1, <1>2, <1>3, StatementIs

\* The process that does not move.
LEMMA OtherStays ==
  ASSUME WholeInv, NEW p \in Procs, NEW q, q = Other(p), StoreMoves(p),
         proc'[q] = proc[q], proc[p].been => proc'[p].been
  PROVE  ProcInv(q)'
<1>1. q \in Procs /\ Other(q) = p /\ ProcInv(q) /\ Stands(schema)
  BY ViewStands DEF WholeInv, StoreInv
<1>2. Grows(View(q), View(q)') /\ Grows(schema, schema')
  BY <1>1, ViewStands DEF Moves, StoreMoves, View, WholeInv
<1>3. LockIn(q)'
  BY <1>1 DEF Moves, StoreMoves, LockIn, ProcInv
<1>4. SeenIn(q)'
  <2>1. SUFFICES ASSUME At(q, "column")'
                 PROVE  (Statement(q).parts \ View(q) \subseteq proc[q].seen
                         /\ proc[q].seen \subseteq Statement(q).parts)'
    BY DEF SeenIn
  <2>2. At(q, "column") /\ proc[q].at \in 1..Size(q) /\ At0(q, proc[q].at).do = "column"
    <3>1. At(q, "column")
      BY <2>1 DEF At, Up, Statement
    <3>2. proc[q].at \in Nat
      BY <1>1 DEF WholeInv, ProcRecords
    <3>3. Len(Program[q]) = Size(q) /\ Size(q) \in Nat
      BY <1>1, ProgramIs
    <3> QED BY <3>1, <3>2, <3>3 DEF At, Up, Statement, At0
  <2>3. Statement(q).parts \cap Temporary = {} /\ Statement(q)' = Statement(q)
    <3>1. Early(q, proc[q].at)
      BY <2>2, <1>1, StatementIs
    <3> QED BY <3>1, <2>2 DEF Early, At0, Statement
  <2> QED BY <2>2, <2>3, <1>1, <1>2 DEF SeenIn, ProcInv, Grows
<1>5. DoneIn(q)'
  <2>1. SUFFICES ASSUME NEW k \in 1..Size(q), proc[q].at > k /\ Fair(q, k)
                 PROVE  Makes(q, k) \subseteq View(q)'
    BY DEF DoneIn, Fair, Makes
  <2>2. Makes(q, k) \subseteq View(q) /\ Makes(q, k) \cap Temporary = {}
    BY <2>1, <1>1, MakesStay DEF ProcInv, DoneIn
  <2> QED BY <2>2, <1>2 DEF Grows
<1>6. MovedIn(q)'
  BY <1>1, <1>2, NamesAreApart DEF MovedIn, ProcInv, Grows
<1>7. BeenIn(q)'
  <2>1. \A k \in 1..Size(q) : Program[q][k].do = "create" => Program[q][k].parts \cap Temporary = {}
    BY <1>1, StatementIs DEF Early, At0
  <2> QED BY <2>1, <1>1, <1>2, NamesAreApart DEF BeenIn, ProcInv, Grows
<1> QED BY <1>1, <1>3, <1>4, <1>5, <1>6, <1>7 DEF ProcInv

-----------------------------------------------------------------------------
\* A process at a statement.
LEMMA AtIs ==
  ASSUME WholeInv, NEW p \in Procs, NEW w, At(p, w)
  PROVE  /\ proc[p].at \in 1..Size(p) /\ proc[p].at \in Nat /\ At0(p, proc[p].at).do = w
         /\ Statement(p) = At0(p, proc[p].at) /\ ~Up(p)
<1>1. Len(Program[p]) = Size(p) /\ Size(p) \in Nat
  BY ProgramIs
<1>2. proc[p].at \in Nat
  BY DEF WholeInv, ProcRecords
<1> QED BY <1>1, <1>2 DEF At, Up, Statement, At0

Becomes(p, r) == proc' = [proc EXCEPT ![p] = r]

\* p is one statement further.
Onward(p) ==
  /\ proc' \in [Procs -> ProcRecords] /\ proc'[Other(p)] = proc[Other(p)]
  /\ proc'[p].at = proc[p].at + 1
  /\ proc'[p].later = proc[p].later
  /\ proc[p].missed => proc'[p].missed
  /\ proc'[p].been = (proc[p].been \/ proc[p].at = Size(p))

Further(p, r) ==
  /\ r \in ProcRecords /\ r.at = proc[p].at + 1 /\ r.later = proc[p].later
  /\ proc[p].missed => r.missed
  /\ r.been = (proc[p].been \/ proc[p].at = Size(p))

LEMMA StepsOn ==
  ASSUME WholeInv, NEW p \in Procs, NEW r, Further(p, r), Becomes(p, r)
  PROVE  Onward(p) /\ proc'[p] = r
<1>1. Other(p) \in Procs /\ Other(p) # p
  BY ViewStands DEF WholeInv
<1>2. proc \in [Procs -> ProcRecords]
  BY DEF WholeInv
<1> QED BY <1>1, <1>2 DEF Onward, Further, Becomes

LEMMA FieldsAre ==
  ASSUME NEW a, NEW s, NEW m, NEW t, NEW i, NEW b, NEW c, NEW l,
         l = [at |-> a, seen |-> s, moved |-> m, later |-> t, missed |-> i, been |-> b]
  PROVE  /\ [l EXCEPT !.moved = c] = [at |-> a, seen |-> s, moved |-> c, later |-> t, missed |-> i, been |-> b]
         /\ [l EXCEPT !.missed = c] = [at |-> a, seen |-> s, moved |-> m, later |-> t, missed |-> c, been |-> b]
OBVIOUS

LEMMA LeapIs ==
  ASSUME WholeInv, NEW p \in Procs, proc[p].at \in 1..Size(p)
  PROVE  /\ Further(p, Leap(p)) /\ Leap(p).seen = {}
         /\ \A s \in SUBSET Known : Further(p, [Leap(p) EXCEPT !.seen = s])
         /\ Further(p, [Leap(p) EXCEPT !.missed = TRUE])
         /\ \A b \in BOOLEAN : Further(p, [Leap(p) EXCEPT !.moved = b])
<1>1. proc[p] \in ProcRecords /\ Len(Program[p]) = Size(p)
  BY ProgramIs DEF WholeInv
<1> PICK r \in ProcRecords : r = proc[p]
  BY <1>1
<1> PICK b \in BOOLEAN : b = (r.been \/ r.at = Size(p))
  OBVIOUS
<1> PICK l : l = Leap(p)
  OBVIOUS
<1>2. l = [[[r EXCEPT !.at = @ + 1] EXCEPT !.seen = {}] EXCEPT !.been = b]
  <2>1. l = [r EXCEPT !.at = r.at + 1, !.seen = {}, !.been = r.been \/ r.at = Size(p)]
    BY <1>1 DEF Leap
  <2>2. l = [r EXCEPT !.at = r.at + 1, !.seen = {}, !.been = b]
    BY <2>1
  <2> QED BY <2>2
<1>3. /\ r.at + 1 \in Nat /\ r.moved \in BOOLEAN /\ r.later \in BOOLEAN /\ r.missed \in BOOLEAN
      /\ r = [at |-> r.at, seen |-> r.seen, moved |-> r.moved, later |-> r.later,
              missed |-> r.missed, been |-> r.been]
  BY DEF ProcRecords
<1>4. l = [at |-> r.at + 1, seen |-> {}, moved |-> r.moved, later |-> r.later,
           missed |-> r.missed, been |-> b]
  BY <1>2, <1>3
<1>5. Further(p, l) /\ l.seen = {}
  BY <1>3, <1>4 DEF Further, ProcRecords
<1>6. ASSUME NEW s \in SUBSET Known PROVE Further(p, [l EXCEPT !.seen = s])
  <2>1. [l EXCEPT !.seen = s] = [at |-> r.at + 1, seen |-> s, moved |-> r.moved, later |-> r.later,
           missed |-> r.missed, been |-> b]
    BY <1>4
  <2> QED BY <2>1, <1>3 DEF Further, ProcRecords
<1>6a. PICK a, m, t, i, e : a = r.at + 1 /\ m = r.moved /\ t = r.later /\ i = r.missed /\ e = b
  OBVIOUS
<1>7. l = [at |-> a, seen |-> {}, moved |-> m, later |-> t, missed |-> i, been |-> e]
  BY <1>4, <1>6a
<1>8. Further(p, [l EXCEPT !.missed = TRUE])
  <2>0. PICK c : c = TRUE
    OBVIOUS
  <2>1. [l EXCEPT !.missed = c] = [at |-> a, seen |-> {}, moved |-> m, later |-> t, missed |-> c, been |-> e]
    BY <1>7, FieldsAre
  <2> QED BY <2>0, <2>1, <1>3, <1>6a DEF Further, ProcRecords
<1>9. ASSUME NEW c \in BOOLEAN PROVE Further(p, [l EXCEPT !.moved = c])
  <2>0. PICK d : c = d
    OBVIOUS
  <2>1. [l EXCEPT !.moved = d] = [at |-> a, seen |-> {}, moved |-> d, later |-> t, missed |-> i, been |-> e]
    BY <1>7, FieldsAre
  <2> QED BY <2>0, <2>1, <1>3, <1>6a DEF Further, ProcRecords
<1> QED BY <1>5, <1>6, <1>8, <1>9

\* The lock is held only in the window.
Held(p) == lock' = p => proc'[p].at \in Window(p) /\ proc'[p].at <= Base[p]

\* What the kth statement had to make.
MadeGood(p, k, S) ==
  /\ Fair(p, k)' => Makes(p, k) \subseteq S
  /\ p = "bot" /\ k = 3 => "saves.fake" \notin S
  /\ p = "api" /\ k = 8 /\ proc[p].later => "idx:ref_by" \in S \/ Full \in S

LEMMA WindowIs ==
  ASSUME NEW p \in Procs, NEW k \in Window(p)
  PROVE  k \in 1..Size(p)
BY DEF Window, Size, Base, Procs

LEMMA Advanced ==
  ASSUME WholeInv, NEW p \in Procs, NEW k \in 1..Size(p), k = proc[p].at, NEW S,
         Onward(p), Moves(p, S), Held(p), SeenIn(p)', MadeGood(p, k, S)
  PROVE  WholeInv'
<1>1. PICK q : q = Other(p)
  OBVIOUS
<1>2. q \in Procs /\ Procs = {p, q} /\ q # p
  BY <1>1, ViewStands DEF WholeInv
<1>3. ProcInv(q)'
  BY <1>1, OtherStays DEF Onward, Moves
<1>4. proc'[p].at = k + 1 /\ k + 1 <= Size(p) + 1 /\ Size(p) \in Nat /\ Base[p] \in Nat
  <2>1. Size(p) \in Nat /\ Base[p] \in Nat /\ proc'[p].at = k + 1
    BY ProgramIs DEF Onward
  <2> QED BY <2>1
<1>5. (proc[p].later => proc[Other(p)].been)'
  BY DEF Onward, WholeInv, ProcInv
<1>6. LockIn(p)'
  <2>1. ASSUME lock' = p PROVE proc'[p].at \in Window(p) /\ ~(proc'[p].at > Base[p])
    <3>1. proc'[p].at \in Window(p) /\ proc'[p].at <= Base[p]
      BY <2>1 DEF Held
    <3> QED BY <3>1, <1>4
  <2> QED BY <2>1 DEF LockIn
<1>7. Grows(View(p), S) /\ View(p)' = S /\ Grows(schema, schema')
  BY DEF Moves, StoreMoves
<1>8. DoneIn(p)'
  <2>1. SUFFICES ASSUME NEW j \in 1..Size(p), (proc[p].at > j /\ Fair(p, j))'
                 PROVE  Makes(p, j) \subseteq S
    BY <1>7 DEF DoneIn, Makes
  <2>2. CASE j = k
    BY <2>1, <2>2 DEF MadeGood
  <2>3. CASE j # k
    <3>1. proc[p].at > j
      BY <2>1, <2>3, <1>4
    <3>2. Fair(p, j)
      BY <2>1 DEF Fair, Onward
    <3>3. Makes(p, j) \subseteq View(p) /\ Makes(p, j) \cap Temporary = {}
      BY <3>1, <3>2, MakesStay DEF WholeInv, ProcInv, DoneIn
    <3> QED BY <3>3, <1>7 DEF Grows
  <2> QED BY <2>2, <2>3
<1>9. MovedIn(p)'
  <2>1. ASSUME p = "bot", (proc[p].at > 3)' PROVE "saves.fake" \notin S
    <3>1. CASE k = 3
      BY <3>1, <2>1 DEF MadeGood
    <3>2. CASE k # 3
      <4>1. proc[p].at > 3
        BY <3>2, <2>1, <1>4
      <4> QED BY <4>1, <2>1, <1>7 DEF WholeInv, ProcInv, MovedIn, Grows
    <3> QED BY <3>1, <3>2
  <2>2. ASSUME p = "api", (proc[p].at > 8 /\ proc[p].later)' PROVE "idx:ref_by" \in S \/ Full \in S
    <3>0. proc[p].later
      BY <2>2 DEF Onward
    <3>1. CASE k = 8
      BY <3>0, <3>1, <2>2 DEF MadeGood
    <3>2. CASE k # 8
      <4>1. proc[p].at > 8
        BY <3>2, <2>2, <1>4
      <4>2. "idx:ref_by" \in View(p) \/ Full \in View(p)
        BY <4>1, <3>0, <2>2 DEF WholeInv, ProcInv, MovedIn
      <4> QED BY <4>2, <1>7, NamesAreApart DEF Grows
    <3> QED BY <3>1, <3>2
  <2> QED BY <2>1, <2>2, <1>7 DEF MovedIn
<1>10. BeenIn(p)'
  <2>1. CASE proc[p].been
    <3>1. \A j \in 1..Size(p) : Program[p][j].do = "create" => Program[p][j].parts \cap Temporary = {}
      BY StatementIs DEF Early, At0
    <3> QED BY <2>1, <3>1, <1>7, NamesAreApart DEF BeenIn, WholeInv, ProcInv, Grows
  <2>2. CASE k = Size(p)
    <3>1. S = schema' /\ proc'[p].at = Size(p) + 1
      <4>1. lock' # p
        BY <2>2, <1>4, WindowIs DEF Held
      <4> QED BY <4>1, <1>4, <1>7, <2>2 DEF View
    <3>2. \A j \in 1..Size(p) : Fair(p, j)' => Makes(p, j) \subseteq schema'
      BY <3>1, <1>8, <1>7, <1>4 DEF DoneIn, Makes
    <3>3. ASSUME NEW m \in Ids PROVE m \in schema'
      <4>1. PICK i \in 1..27 : m = Migrations[i]
        BY MigrationsAre DEF Ids, ToSet
      <4>2. PICK j \in 1..Size(p) : j = Base[p] + i /\ At0(p, j) = Stmt("migrate", {m})
        BY <4>1, ProgramIs
      <4>3. Fair(p, j)' /\ Makes(p, j) = {m}
        BY <4>2 DEF Fair, Makes, At0, Stmt
      <4> QED BY <4>3, <3>2
    <3>4. ASSUME NEW j \in 1..Size(p), Program[p][j].do = "create" PROVE Program[p][j].parts \subseteq schema'
      <4>1. Fair(p, j)' /\ Makes(p, j) = Program[p][j].parts
        BY <3>4 DEF Fair, Makes
      <4> QED BY <4>1, <3>2
    <3>5. ASSUME p = "bot" PROVE "saves" \in schema' /\ "saves.fake" \notin schema'
      <4>1. "saves.fake" \notin schema'
        <5>1. (proc[p].at > 3)'
          BY <3>5, <3>1 DEF Size, Base
        <5> QED BY <5>1, <3>5, <3>1, <1>7, <1>9 DEF MovedIn
      <4>2. 2 \in 1..Size(p) /\ Program[p][2] = Stmt("saves_new", {})
        BY <3>5, BotIs DEF Size, Base, Program
      <4>3. Fair(p, 2)' /\ Makes(p, 2) = {"saves"}
        BY <4>2 DEF Fair, Makes, Stmt
      <4> QED BY <4>1, <4>2, <4>3, <3>2
    <3> QED BY <3>3, <3>4, <3>5 DEF BeenIn
  <2>3. proc'[p].been => proc[p].been \/ k = Size(p)
    BY DEF Onward
  <2> QED BY <2>1, <2>2, <2>3 DEF BeenIn
<1>11. ProcInv(p)'
  BY <1>4, <1>5, <1>6, <1>8, <1>9, <1>10 DEF ProcInv
<1> QED BY <1>2, <1>3, <1>11 DEF WholeInv, Moves, StoreMoves, Onward

-----------------------------------------------------------------------------
\* What most statements have in common.
LEMMA SeenNext ==
  ASSUME WholeInv, NEW p \in Procs, Onward(p), proc[p].at \in 1..Size(p),
         At0(p, proc[p].at).do # "look"
  PROVE  SeenIn(p)'
<1> PICK k \in 1..Size(p) : k = proc[p].at
  OBVIOUS
<1>1. SUFFICES ASSUME At(p, "column")' PROVE FALSE
  BY DEF SeenIn
<1>2. proc'[p].at = k + 1 /\ Len(Program[p]) = Size(p) /\ Size(p) \in Nat
  BY ProgramIs DEF Onward
<1>3. k + 1 \in 1..Size(p) /\ At0(p, k + 1).do = "column"
  BY <1>1, <1>2 DEF At, Up, Statement, At0
<1>4. Early(p, k + 1)
  BY <1>3, StatementIs
<1>5. (k + 1) - 1 = k
  OBVIOUS
<1>6. At0(p, k) = Stmt("look", At0(p, k + 1).parts)
  BY <1>3, <1>4, <1>5 DEF Early
<1> QED BY <1>6 DEF Stmt

LEMMA KeepsHold ==
  ASSUME WholeInv, NEW p \in Procs, Onward(p), proc[p].at \in 1..Size(p), lock' = lock,
         At0(p, proc[p].at).do \notin {"commit", "migrate"}
  PROVE  Held(p)
<1> PICK k \in 1..Size(p) : k = proc[p].at
  OBVIOUS
<1>1. SUFFICES ASSUME lock = p PROVE k + 1 \in Window(p) /\ k + 1 <= Base[p]
  BY DEF Held, Onward
<1>2. k \in Window(p)
  BY <1>1 DEF WholeInv, ProcInv, LockIn
<1> QED BY <1>2, StatementIs DEF Early

LEMMA TakesHold ==
  ASSUME WholeInv, NEW p \in Procs, Onward(p), proc[p].at \in 1..Size(p),
         At0(p, proc[p].at).do \in {"saves", "insert", "regions"}
  PROVE  Held(p)
<1> PICK k \in 1..Size(p) : k = proc[p].at
  OBVIOUS
<1>1. Early(p, k)
  BY StatementIs
<1>2. k + 1 \in Window(p) /\ k + 1 <= Base[p]
  BY <1>1 DEF Early
<1> QED BY <1>2 DEF Held, Onward

LEMMA MadeIs ==
  ASSUME NEW p \in Procs, NEW k \in 1..Size(p), At0(p, k).do \notin {"saves", "indexes"}, NEW S,
         Fair(p, k)' => Makes(p, k) \subseteq S
  PROVE  MadeGood(p, k, S)
<1>1. ASSUME p = "bot", k = 3 PROVE FALSE
  <2>1. Early(p, k)
    BY <1>1, BotEarly
  <2> QED BY <2>1, <1>1 DEF Early
<1>2. ASSUME p = "api", k = 8 PROVE FALSE
  <2>1. Early(p, k)
    BY <1>2, ApiEarly
  <2> QED BY <2>1, <1>2 DEF Early
<1> QED BY <1>1, <1>2 DEF MadeGood

\* The table of the settings and that of the users are there once the other
\* process has been up.
LEMMA LaterHas ==
  ASSUME WholeInv, NEW p \in Procs, proc[p].later
  PROVE  /\ "users" \in View(p) /\ "webapp_admin_settings" \in View(p)
         /\ p = "api" => "referral_payouts" \in View(p)
<1>1. BeenIn(Other(p)) /\ proc[Other(p)].been /\ Stands(schema) /\ Grows(schema, View(p))
  BY ViewStands DEF WholeInv, ProcInv, StoreInv
<1>2. "m005" \in schema /\ "m006" \in schema
  BY <1>1, IdsAre DEF BeenIn
<1>3. "users" \in schema /\ "webapp_admin_settings" \in schema
  BY <1>1, <1>2, IdsAre DEF Stands, Brings
<1>4. ASSUME p = "api" PROVE "referral_payouts" \in schema
  <2>1. 4 \in 1..Size("bot") /\ Program["bot"][4] = Stmt("create", {"regions", "webapp_sessions", "bot_handoff_tokens", "referral_payouts"})
    BY BotIs DEF Size, Base, Program
  <2>2. Other(p) = "bot"
    BY <1>4 DEF Other
  <2> QED BY <1>1, <2>1, <2>2 DEF BeenIn, Stmt
<1>5. {"users", "webapp_admin_settings", "referral_payouts"} \cap Temporary = {}
  BY DEF Temporary, Full, LedgerClick, OrdersClick
<1> QED BY <1>1, <1>3, <1>4, <1>5 DEF Grows

LEMMA AdvancesOn ==
  ASSUME WholeInv, NEW p \in Procs, proc[p].at \in 1..Size(p), Advances(p)
  PROVE  Onward(p)
<1>1. Further(p, Leap(p)) /\ Becomes(p, Leap(p))
  BY LeapIs DEF Becomes, Advances
<1> QED BY <1>1, StepsOn

-----------------------------------------------------------------------------
\* Statement by statement.
LEMMA CreatePartsIs == ASSUME WholeInv, NEW p \in Procs, CreateParts(p) PROVE WholeInv'
<1> PICK k \in 1..Size(p) : k = proc[p].at /\ At0(p, k).do = "create" /\ Statement(p) = At0(p, k)
  BY AtIs DEF CreateParts
<1> PICK C : C = At0(p, k).parts
  OBVIOUS
<1>1. Turn(p, View(p) \cup C) /\ Advances(p)
  BY DEF CreateParts
<1>2. C \cap Ids = {} /\ Full \notin C /\ "saves.fake" \notin C
  BY StatementIs, NamesAreApart DEF Early
<1>3. Stands(View(p)) /\ StoreInv
  BY ViewStands DEF WholeInv
<1>4. Stands(View(p) \cup C) /\ Grows(View(p), View(p) \cup C)
  BY <1>2, <1>3, Added
<1>5. Moves(p, View(p) \cup C) /\ lock' = lock
  BY <1>1, <1>3, <1>4, Written
<1>6. Onward(p)
  BY <1>1, AdvancesOn
<1>7. MadeGood(p, k, View(p) \cup C)
  <2>1. Makes(p, k) = C
    BY DEF Makes, At0
  <2> QED BY <2>1, MadeIs
<1> QED BY <1>5, <1>6, <1>7, SeenNext, KeepsHold, Advanced

LEMMA SavesNewIs == ASSUME WholeInv, NEW p \in Procs, SavesNew(p) PROVE WholeInv'
<1> PICK k \in 1..Size(p) : k = proc[p].at /\ At0(p, k).do = "saves_new" /\ Statement(p) = At0(p, k)
  BY AtIs DEF SavesNew
<1> PICK C : C = IF "saves.fake" \in View(p) THEN {"saves_new"} ELSE {"saves"}
  OBVIOUS
<1>1. Turn(p, View(p) \cup C) /\ Advances(p)
  BY DEF SavesNew
<1>2. C \cap Ids = {} /\ Full \notin C /\ "saves.fake" \notin C
  BY IdsAre DEF Full
<1>3. Stands(View(p)) /\ StoreInv
  BY ViewStands DEF WholeInv
<1>4. Stands(View(p) \cup C) /\ Grows(View(p), View(p) \cup C)
  BY <1>2, <1>3, Added
<1>5. Moves(p, View(p) \cup C) /\ lock' = lock
  BY <1>1, <1>3, <1>4, Written
<1>6. Onward(p)
  BY <1>1, AdvancesOn
<1>7. MadeGood(p, k, View(p) \cup C)
  <2>1. Makes(p, k) = {"saves"}
    BY DEF Makes, At0
  <2>2. "saves" \in View(p) \cup C
    BY <1>3 DEF Stands
  <2> QED BY <2>1, <2>2, MadeIs
<1> QED BY <1>5, <1>6, <1>7, SeenNext, KeepsHold, Advanced

LEMMA MoveSavesIs == ASSUME WholeInv, NEW p \in Procs, MoveSaves(p) PROVE WholeInv'
<1> PICK k \in 1..Size(p) : k = proc[p].at /\ At0(p, k).do = "saves" /\ Statement(p) = At0(p, k)
  BY AtIs DEF MoveSaves
<1>1. Stands(View(p)) /\ StoreInv
  BY ViewStands DEF WholeInv
<1>2. Onward(p)
  BY AdvancesOn DEF MoveSaves
<1>3. ASSUME NEW S, "saves.fake" \notin S PROVE MadeGood(p, k, S)
  <2>1. Makes(p, k) = {}
    BY DEF Makes, At0
  <2>2. ~(p = "api" /\ k = 8)
    BY StatementIs DEF Early, Base
  <2> QED BY <2>1, <2>2, <1>3 DEF MadeGood
<1>4. CASE "saves.fake" \in View(p)
  <2> PICK S : S = View(p) \ {"saves.fake", "saves_new"}
    OBVIOUS
  <2>1. BeginWith(p, S)
    BY <1>4 DEF MoveSaves
  <2>2. Stands(S) /\ Grows(View(p), S)
    BY <1>1, Removed
  <2>3. Moves(p, S)
    BY <1>1, <2>1, <2>2, Begun
  <2>4. MadeGood(p, k, S)
    BY <1>3
  <2> QED BY <2>3, <2>4, <1>2, SeenNext, TakesHold, Advanced
<1>5. CASE "saves.fake" \notin View(p)
  <2>1. UNCHANGED <<schema, workcopy, lock, twice>>
    BY <1>5 DEF MoveSaves
  <2>2. Moves(p, View(p)) /\ lock' = lock
    BY <1>1, <2>1, Kept
  <2>3. MadeGood(p, k, View(p))
    BY <1>3, <1>5
  <2> QED BY <2>2, <2>3, <1>2, SeenNext, KeepsHold, Advanced
<1> QED BY <1>4, <1>5

LEMMA LookAtTableIs == ASSUME WholeInv, NEW p \in Procs, LookAtTable(p) PROVE WholeInv'
<1> PICK k \in 1..Size(p) : k = proc[p].at /\ At0(p, k).do = "look" /\ Statement(p) = At0(p, k)
  BY AtIs DEF LookAtTable
<1> PICK s : s = At0(p, k).parts \ View(p)
  OBVIOUS
<1> PICK r : r = [Leap(p) EXCEPT !.seen = s]
  OBVIOUS
<1>1. StoreInv /\ UNCHANGED <<schema, workcopy, lock, twice>>
  BY DEF WholeInv, LookAtTable
<1>2. Moves(p, View(p)) /\ lock' = lock
  BY <1>1, Kept
<1>3. Becomes(p, r)
  BY DEF Becomes, LookAtTable
<1>4. s \in SUBSET Known
  BY DEF Known, At0
<1>5. Further(p, r) /\ r.seen = s
  <2>1. Further(p, r)
    BY <1>4, LeapIs
  <2>2. r = [at |-> r.at, seen |-> r.seen, moved |-> r.moved, later |-> r.later, missed |-> r.missed, been |-> r.been]
    BY <2>1 DEF Further, ProcRecords
  <2>3. Leap(p) \in ProcRecords
    BY LeapIs DEF Further
  <2>4. "seen" \in DOMAIN Leap(p)
    BY <2>3 DEF ProcRecords
  <2> QED BY <2>1, <2>4
<1>6. Onward(p) /\ proc'[p] = r
  BY <1>3, <1>5, StepsOn
<1>7. SeenIn(p)'
  <2>1. SUFFICES ASSUME At(p, "column")'
                 PROVE (Statement(p).parts \ View(p) \subseteq proc[p].seen
                        /\ proc[p].seen \subseteq Statement(p).parts)'
    BY DEF SeenIn
  <2>2. proc'[p].at = k + 1 /\ Len(Program[p]) = Size(p) /\ Size(p) \in Nat
    BY <1>6, ProgramIs DEF Onward
  <2>3. k + 1 \in 1..Size(p) /\ At0(p, k + 1).do = "column" /\ Statement(p)' = At0(p, k + 1)
    BY <2>1, <2>2 DEF At, Up, Statement, At0
  <2>4. Early(p, k + 1)
    BY <2>3, StatementIs
  <2>5. (k + 1) - 1 = k
    OBVIOUS
  <2>6. At0(p, k) = Stmt("look", At0(p, k + 1).parts)
    BY <2>3, <2>4, <2>5 DEF Early
  <2>7. At0(p, k + 1).parts = At0(p, k).parts
    BY <2>6 DEF Stmt
  <2> QED BY <2>3, <2>7, <1>2, <1>5, <1>6 DEF Moves, StoreMoves
<1>8. MadeGood(p, k, View(p))
  <2>1. Makes(p, k) = {}
    BY DEF Makes, At0
  <2> QED BY <2>1, MadeIs
<1> QED BY <1>2, <1>6, <1>7, <1>8, KeepsHold, Advanced

LEMMA AddColumnsIs == ASSUME WholeInv, NEW p \in Procs, AddColumns(p) PROVE WholeInv'
<1> PICK k \in 1..Size(p) : k = proc[p].at /\ At0(p, k).do = "column" /\ Statement(p) = At0(p, k)
  BY AtIs DEF AddColumns
<1> PICK C, s, t : /\ C = At0(p, k).parts /\ s = proc[p].seen
                   /\ t = IF "users.ref_by" \in C THEN "users" ELSE "webapp_admin_settings"
  OBVIOUS
<1>1. Stands(View(p)) /\ StoreInv
  BY ViewStands DEF WholeInv
<1>2. Onward(p)
  BY AdvancesOn DEF AddColumns
<1>3. C \ View(p) \subseteq s /\ s \subseteq C
  BY DEF WholeInv, ProcInv, SeenIn, AddColumns
<1>4. C \cap (Ids \cup Temporary) = {}
  BY StatementIs DEF Early
<1>5. Makes(p, k) = C
  BY DEF Makes, At0
<1>6. CASE s = {} \/ t \notin View(p)
  <2>1. UNCHANGED <<schema, workcopy, lock, twice>>
    BY <1>6 DEF AddColumns
  <2>2. Moves(p, View(p)) /\ lock' = lock
    BY <1>1, <2>1, Kept
  <2>3. ASSUME Fair(p, k)' PROVE C \subseteq View(p)
    <3>1. proc[p].later
      BY <2>3, <1>2 DEF Fair, At0, Onward
    <3>2. t \in View(p)
      BY <3>1, LaterHas
    <3> QED BY <3>2, <1>3, <1>6
  <2>4. MadeGood(p, k, View(p))
    BY <2>3, <1>5, MadeIs
  <2> QED BY <2>2, <2>4, <1>2, SeenNext, KeepsHold, Advanced
<1>7. CASE ~(s = {} \/ t \notin View(p))
  <2>1. Turn(p, View(p) \cup s)
    BY <1>7 DEF AddColumns
  <2>2. s \cap Ids = {} /\ Full \notin s /\ "saves.fake" \notin s
    BY <1>3, <1>4, NamesAreApart
  <2>3. Stands(View(p) \cup s) /\ Grows(View(p), View(p) \cup s)
    BY <1>1, <2>2, Added
  <2>4. Moves(p, View(p) \cup s) /\ lock' = lock
    BY <1>1, <2>1, <2>3, Written
  <2>5. MadeGood(p, k, View(p) \cup s)
    BY <1>3, <1>5, MadeIs
  <2> QED BY <2>4, <2>5, <1>2, SeenNext, KeepsHold, Advanced
<1> QED BY <1>6, <1>7

LEMMA MissColumnsIs == ASSUME WholeInv, NEW p \in Procs, MissColumns(p) PROVE WholeInv'
<1> PICK k \in 1..Size(p) : k = proc[p].at /\ At0(p, k).do = "column" /\ Statement(p) = At0(p, k)
  BY AtIs DEF MissColumns
<1> PICK r : r = [Leap(p) EXCEPT !.missed = TRUE]
  OBVIOUS
<1>1. StoreInv /\ UNCHANGED <<schema, workcopy, lock, twice>>
  BY DEF WholeInv, MissColumns
<1>2. Moves(p, View(p)) /\ lock' = lock
  BY <1>1, Kept
<1>3. Becomes(p, r)
  BY DEF Becomes, MissColumns
<1>4. Further(p, r)
  BY LeapIs
<1>5. r.missed
  <2>1. Leap(p) \in ProcRecords
    BY LeapIs DEF Further
  <2>2. "missed" \in DOMAIN Leap(p)
    BY <2>1 DEF ProcRecords
  <2> QED BY <2>2
<1>6. Onward(p) /\ proc'[p] = r
  BY <1>3, <1>4, StepsOn
<1>7. ~Fair(p, k)'
  BY <1>5, <1>6 DEF Fair, At0
<1>8. MadeGood(p, k, View(p))
  BY <1>7, MadeIs
<1> QED BY <1>2, <1>6, <1>8, SeenNext, KeepsHold, Advanced

LEMMA InsertSettingsIs == ASSUME WholeInv, NEW p \in Procs, InsertSettings(p) PROVE WholeInv'
<1> PICK k \in 1..Size(p) : k = proc[p].at /\ At0(p, k).do = "insert" /\ Statement(p) = At0(p, k)
  BY AtIs DEF InsertSettings
<1>1. Stands(View(p)) /\ StoreInv /\ Grows(View(p), View(p))
  BY ViewStands DEF WholeInv
<1>2. BeginWith(p, View(p)) /\ Advances(p)
  BY DEF InsertSettings
<1>3. Moves(p, View(p))
  BY <1>1, <1>2, Begun
<1>4. Onward(p)
  BY <1>2, AdvancesOn
<1>5. MadeGood(p, k, View(p))
  <2>1. Makes(p, k) = {}
    BY DEF Makes, At0
  <2> QED BY <2>1, MadeIs
<1> QED BY <1>3, <1>4, <1>5, SeenNext, TakesHold, Advanced

\* The indexes of the tables that are there.
LEMMA AllIndexesAre ==
  ASSUME NEW S
  PROVE  /\ S \subseteq AllIndexes(S) /\ AllIndexes(S) \subseteq S \cup Indexes
         /\ {"users", "resume_events", "posted_vacancies", "notification_settings",
             "referral_payouts", "webapp_sessions"} \subseteq S
              => Indexes \ {"idx:ref_by"} \subseteq AllIndexes(S)
         /\ "users" \in S /\ Full \notin S => "idx:ref_by" \in AllIndexes(S)
<1>1. S \subseteq AllIndexes(S)
  BY DEF AllIndexes
<1>2. AllIndexes(S) \subseteq S \cup Indexes
  BY DEF AllIndexes, Indexes, Idx, ReportingIndexes
<1>3. "users" \in S /\ Full \notin S => "idx:ref_by" \in AllIndexes(S)
  BY DEF AllIndexes, Full
<1>4. ASSUME {"users", "resume_events", "posted_vacancies", "notification_settings",
              "referral_payouts", "webapp_sessions"} \subseteq S
      PROVE  Indexes \ {"idx:ref_by"} \subseteq AllIndexes(S)
  <2>1. ASSUME NEW i \in DOMAIN Idx PROVE Idx[i] \in AllIndexes(S)
    <3>1. i \in DOMAIN ReportingIndexes
      BY DEF Idx, ReportingIndexes
    <3>2. \E t \in ReportingIndexes[i] : t \in S /\ t \in {"users", "resume_events",
             "posted_vacancies", "notification_settings", "referral_payouts", "webapp_sessions"}
      BY <1>4 DEF Idx, ReportingIndexes
    <3> QED BY <3>1, <3>2 DEF AllIndexes
  <2> QED BY <2>1 DEF Indexes
<1> QED BY <1>1, <1>2, <1>3, <1>4

LEMMA MakeIndexesIs == ASSUME WholeInv, NEW p \in Procs, MakeIndexes(p) PROVE WholeInv'
<1> PICK k \in 1..Size(p) : k = proc[p].at /\ At0(p, k).do = "indexes" /\ Statement(p) = At0(p, k)
  BY AtIs DEF MakeIndexes
<1> PICK C, S : C = AllIndexes(View(p)) \ View(p) /\ S = AllIndexes(View(p))
  OBVIOUS
<1>1. Stands(View(p)) /\ StoreInv
  BY ViewStands DEF WholeInv
<1>2. Turn(p, S) /\ Advances(p)
  BY DEF MakeIndexes
<1>3. C \subseteq Indexes /\ S = View(p) \cup C
  BY AllIndexesAre
<1>4. C \cap Ids = {} /\ Full \notin C /\ "saves.fake" \notin C
  BY <1>3, NamesAreApart
<1>5. Stands(S) /\ Grows(View(p), S)
  BY <1>1, <1>3, <1>4, Added
<1>6. Moves(p, S) /\ lock' = lock
  BY <1>1, <1>2, <1>5, Written
<1>7. Onward(p)
  BY <1>2, AdvancesOn
<1>8. p = "api" /\ k = 8
  BY StatementIs DEF Early
<1>9. MadeGood(p, k, S)
  <2>1. Makes(p, k) = Indexes \ {"idx:ref_by"}
    BY DEF Makes, At0
  <2>2. proc[p].later => "users" \in View(p) /\ "referral_payouts" \in View(p)
    BY <1>8, LaterHas
  <2>3. "idx:ref_by" \in S \/ Full \in S \/ "users" \notin View(p)
    BY <1>3, AllIndexesAre
  <2>4. {"resume_events", "webapp_sessions", "posted_vacancies", "notification_settings"} \subseteq View(p)
    <3>1. /\ 3 \in 1..Size(p) /\ 7 \in 1..Size(p) /\ proc[p].at > 3 /\ proc[p].at > 7
          /\ Program[p][3] = Stmt("create", {"webapp_sessions", "bot_handoff_tokens", "resume_events",
                               "webapp_admin_settings"})
          /\ Program[p][7] = Stmt("create", {"vacancy_cache", "posted_vacancies", "notification_settings"})
      BY <1>8, ApiIs DEF Size, Base, Program
    <3>2. Fair(p, 3) /\ Fair(p, 7)
      BY <3>1 DEF Fair, Stmt
    <3>3. Makes(p, 3) \subseteq View(p) /\ Makes(p, 7) \subseteq View(p)
      BY <3>1, <3>2 DEF WholeInv, ProcInv, DoneIn
    <3> QED BY <3>1, <3>3 DEF Makes, Stmt
  <2>5. Fair(p, k)' => Makes(p, k) \subseteq S
    <3>1. SUFFICES ASSUME Fair(p, k)' PROVE Indexes \ {"idx:ref_by"} \subseteq S
      BY <2>1
    <3>2. proc[p].later
      BY <3>1, <1>7 DEF Fair, At0, Onward
    <3> QED BY <3>2, <2>2, <2>4, AllIndexesAre
  <2> QED BY <2>2, <2>3, <2>5, <1>8 DEF MadeGood
<1> QED BY <1>6, <1>7, <1>9, SeenNext, KeepsHold, Advanced

LEMMA FillRegionsIs == ASSUME WholeInv, NEW p \in Procs, FillRegions(p) PROVE WholeInv'
<1> PICK k \in 1..Size(p) : k = proc[p].at /\ At0(p, k).do = "regions" /\ Statement(p) = At0(p, k)
  BY AtIs DEF FillRegions
<1>1. Stands(View(p)) /\ StoreInv
  BY ViewStands DEF WholeInv
<1>2. ASSUME NEW S PROVE MadeGood(p, k, S)
  <2>1. Makes(p, k) = {}
    BY DEF Makes, At0
  <2> QED BY <2>1, MadeIs
<1>3. CASE UNCHANGED <<schema, workcopy, lock, twice, stops>> /\ Advances(p)
  <2>1. Moves(p, View(p)) /\ lock' = lock
    BY <1>1, <1>3, Kept
  <2>2. Onward(p)
    BY <1>3, AdvancesOn
  <2>3. MadeGood(p, k, View(p))
    BY <1>2
  <2> QED BY <2>1, <2>2, <2>3, SeenNext, KeepsHold, Advanced
<1>4. CASE /\ BeginWith(p, View(p) \cup {"regions.rows"})
           /\ proc' = [proc EXCEPT ![p] = [Leap(p) EXCEPT !.moved = "locations" \in View(p)]]
  <2> PICK S, b, r : /\ S = View(p) \cup {"regions.rows"} /\ b = ("locations" \in View(p))
                     /\ r = [Leap(p) EXCEPT !.moved = b]
    OBVIOUS
  <2>1. {"regions.rows"} \cap Ids = {} /\ Full \notin {"regions.rows"} /\ "saves.fake" \notin {"regions.rows"}
    BY IdsAre DEF Full
  <2>2. Stands(S) /\ Grows(View(p), S)
    BY <1>1, <2>1, Added
  <2>3. Moves(p, S)
    BY <1>1, <1>4, <2>2, Begun
  <2>4. Becomes(p, r)
    BY <1>4 DEF Becomes
  <2>5. b \in BOOLEAN
    OBVIOUS
  <2>6. Further(p, r)
    BY <2>5, LeapIs
  <2>7. Onward(p)
    BY <2>4, <2>6, StepsOn
  <2>8. MadeGood(p, k, S)
    BY <1>2
  <2> QED BY <2>3, <2>7, <2>8, SeenNext, TakesHold, Advanced
<1> QED BY <1>3, <1>4 DEF FillRegions

LEMMA DropLocationsIs == ASSUME WholeInv, NEW p \in Procs, DropLocations(p) PROVE WholeInv'
<1> PICK k \in 1..Size(p) : k = proc[p].at /\ At0(p, k).do = "locations" /\ Statement(p) = At0(p, k)
  BY AtIs DEF DropLocations
<1> PICK C : C = IF proc[p].moved THEN {"locations"} ELSE {}
  OBVIOUS
<1>1. Stands(View(p)) /\ StoreInv
  BY ViewStands DEF WholeInv
<1>2. Turn(p, View(p) \ C) /\ Advances(p)
  <2>1. (IF proc[p].moved THEN View(p) \ {"locations"} ELSE View(p)) = View(p) \ C
    OBVIOUS
  <2> QED BY <2>1 DEF DropLocations
<1>3. Stands(View(p) \ C) /\ Grows(View(p), View(p) \ C)
  BY <1>1, Removed
<1>4. Moves(p, View(p) \ C) /\ lock' = lock
  BY <1>1, <1>2, <1>3, Written
<1>5. Onward(p)
  BY <1>2, AdvancesOn
<1>6. MadeGood(p, k, View(p) \ C)
  <2>1. Makes(p, k) = {}
    BY DEF Makes, At0
  <2> QED BY <2>1, MadeIs
<1> QED BY <1>4, <1>5, <1>6, SeenNext, KeepsHold, Advanced

LEMMA CommitChangesIs == ASSUME WholeInv, NEW p \in Procs, CommitChanges(p) PROVE WholeInv'
<1> PICK k \in 1..Size(p) : k = proc[p].at /\ At0(p, k).do = "commit" /\ Statement(p) = At0(p, k)
  BY AtIs DEF CommitChanges
<1>1. Stands(View(p)) /\ StoreInv /\ twice' = twice
  BY ViewStands DEF WholeInv, CommitChanges
<1>2. Onward(p)
  BY AdvancesOn DEF CommitChanges
<1>3. MadeGood(p, k, View(p))
  <2>1. Makes(p, k) = {}
    BY DEF Makes, At0
  <2> QED BY <2>1, MadeIs
<1>4. Moves(p, View(p)) /\ Held(p)
  <2>1. CASE lock = p
    <3>1. schema' = workcopy /\ workcopy' = {} /\ lock' = "nobody" /\ View(p) = workcopy
      BY <2>1 DEF CommitChanges, View
    <3> QED BY <3>1, <2>1, <1>1, ViewStands DEF Moves, StoreMoves, Held, StoreInv, View
  <2>2. CASE lock # p
    <3>1. UNCHANGED <<schema, workcopy, lock, twice>>
      BY <2>2, <1>1 DEF CommitChanges
    <3>2. Moves(p, View(p)) /\ lock' = lock
      BY <1>1, <3>1, Kept
    <3> QED BY <3>2, <2>2 DEF Held
  <2> QED BY <2>1, <2>2
<1> QED BY <1>2, <1>3, <1>4, SeenNext, Advanced

-----------------------------------------------------------------------------
\* The migrations.
LEMMA PassOverIs == ASSUME WholeInv, NEW p \in Procs, PassOver(p) PROVE WholeInv'
<1> PICK k \in 1..Size(p) : k = proc[p].at /\ At0(p, k).do = "migrate" /\ Statement(p) = At0(p, k)
  BY AtIs DEF PassOver
<1>1. StoreInv /\ UNCHANGED <<schema, workcopy, lock, twice>> /\ lock # p /\ Advances(p)
      /\ At0(p, k).parts \subseteq schema
  BY DEF WholeInv, PassOver
<1>2. Moves(p, View(p)) /\ lock' = lock
  BY <1>1, Kept
<1>3. Onward(p)
  BY <1>1, AdvancesOn
<1>4. MadeGood(p, k, View(p))
  <2>1. Makes(p, k) = At0(p, k).parts
    BY DEF Makes, At0
  <2>2. View(p) = schema
    BY <1>1 DEF View
  <2> QED BY <2>1, <2>2, <1>1, MadeIs
<1>5. Held(p)
  BY <1>1, <1>2 DEF Held
<1> QED BY <1>2, <1>3, <1>4, <1>5, SeenNext, Advanced

\* p stays where it is.
Stays(p) ==
  /\ proc' \in [Procs -> ProcRecords] /\ proc'[Other(p)] = proc[Other(p)]
  /\ proc'[p].at = proc[p].at /\ proc'[p].later = proc[p].later
  /\ proc'[p].missed = proc[p].missed /\ proc'[p].been = proc[p].been

LEMMA Stayed ==
  ASSUME WholeInv, NEW p \in Procs, NEW k \in 1..Size(p), k = proc[p].at, At0(p, k).do = "migrate",
         Stays(p), Moves(p, View(p)), lock' = p => workcopy' = schema'
  PROVE  WholeInv'
<1>1. PICK q : q = Other(p)
  OBVIOUS
<1>2. q \in Procs /\ Procs = {p, q} /\ q # p
  BY <1>1, ViewStands DEF WholeInv
<1>3. ProcInv(q)'
  BY <1>1, OtherStays DEF Stays, Moves
<1>4. LockIn(p)'
  <2>1. k \in Window(p)
    <3> PICK b, n \in Nat : b = Base[p] /\ n = Size(p) /\ n = b + 27
      BY ProgramIs
    <3>1. k > b
      BY StatementIs DEF Early
    <3>2. k \in (b + 1)..n
      BY <3>1
    <3> QED BY <3>2 DEF Window
  <2> QED BY <2>1 DEF LockIn, Stays
<1>5. SeenIn(p)'
  <2>1. proc'[p].at = k /\ Statement(p)' = At0(p, k)
    BY DEF Stays, Statement, At0
  <2> QED BY <2>1 DEF SeenIn, At
<1>6. View(p)' = View(p) /\ Grows(schema, schema')
  BY DEF Moves, StoreMoves
<1>7. DoneIn(p)'
  <2>1. SUFFICES ASSUME NEW j \in 1..Size(p), (proc[p].at > j /\ Fair(p, j))'
                 PROVE  Makes(p, j) \subseteq View(p)
    BY <1>6 DEF DoneIn, Makes
  <2>2. proc[p].at > j /\ Fair(p, j)
    BY <2>1 DEF Fair, Stays
  <2> QED BY <2>2 DEF WholeInv, ProcInv, DoneIn
<1>8. MovedIn(p)'
  BY <1>6 DEF MovedIn, WholeInv, ProcInv, Stays
<1>9. BeenIn(p)'
  <2>1. \A j \in 1..Size(p) : Program[p][j].do = "create" => Program[p][j].parts \cap Temporary = {}
    BY StatementIs DEF Early, At0
  <2> QED BY <2>1, <1>6, NamesAreApart DEF BeenIn, WholeInv, ProcInv, Grows, Stays
<1>10. ProcInv(p)'
  <2>1. (proc[p].at <= Size(p) + 1 /\ (proc[p].later => proc[Other(p)].been))'
    BY DEF Stays, WholeInv, ProcInv
  <2> QED BY <2>1, <1>4, <1>5, <1>7, <1>8, <1>9 DEF ProcInv
<1> QED BY <1>2, <1>3, <1>10 DEF WholeInv, Moves, StoreMoves, Stays

LEMMA LookForMigrationIs == ASSUME WholeInv, NEW p \in Procs, LookForMigration(p) PROVE WholeInv'
<1> PICK k \in 1..Size(p) : k = proc[p].at /\ At0(p, k).do = "migrate" /\ Statement(p) = At0(p, k)
  BY AtIs DEF LookForMigration
<1> PICK s : s = At0(p, k).parts
  OBVIOUS
<1>1. StoreInv /\ UNCHANGED <<schema, workcopy, lock, twice>> /\ lock # p
  BY DEF WholeInv, LookForMigration
<1>2. Moves(p, View(p)) /\ lock' = lock
  BY <1>1, Kept
<1>3. Stays(p)
  <2>1. proc' = [proc EXCEPT ![p].seen = s] /\ proc \in [Procs -> ProcRecords]
    BY DEF LookForMigration, WholeInv
  <2>2. s \in SUBSET Known
    BY DEF Known, At0
  <2>3. Other(p) \in Procs /\ Other(p) # p
    BY ViewStands DEF WholeInv
  <2> QED BY <2>1, <2>2, <2>3 DEF Stays, ProcRecords
<1> QED BY <1>1, <1>2, <1>3, Stayed

LEMMA BeginMigrationIs == ASSUME WholeInv, NEW p \in Procs, BeginMigration(p) PROVE WholeInv'
<1> PICK k \in 1..Size(p) : k = proc[p].at /\ At0(p, k).do = "migrate" /\ Statement(p) = At0(p, k)
  BY AtIs DEF BeginMigration
<1>1. /\ StoreInv /\ lock = "nobody" /\ lock' = p /\ workcopy' = schema /\ schema' = schema
      /\ twice' = twice /\ proc' = proc
  BY DEF WholeInv, BeginMigration
<1>2. Moves(p, View(p))
  <2>1. View(p) = schema /\ View(p)' = schema
    BY <1>1, ViewStands DEF View
  <2> QED BY <2>1, <1>1, ViewStands DEF Moves, StoreMoves, StoreInv, Procs
<1>3. Stays(p)
  BY <1>1 DEF Stays, WholeInv
<1> QED BY <1>1, <1>2, <1>3, Stayed

LEMMA MigrateIs == ASSUME WholeInv, NEW p \in Procs, Migrate(p) PROVE WholeInv'
<1> PICK k \in 1..Size(p) : k = proc[p].at /\ At0(p, k).do = "migrate" /\ Statement(p) = At0(p, k)
  BY AtIs DEF Migrate
<1>1. PICK i \in 1..27 : /\ i = k - Base[p] /\ At0(p, k).parts = {Migrations[i]} /\ Migrations[i] \in Ids
                         /\ k > Base[p]
  BY StatementIs DEF Early
<1> PICK m : m = Migrations[i]
  OBVIOUS
<1>2. TheMigration(p) = m
  BY <1>1 DEF TheMigration
<1>3. lock = p /\ workcopy = schema /\ StoreInv
  BY <1>1 DEF Migrate, WholeInv, ProcInv, LockIn
<1>4. /\ IF m \notin schema THEN schema' = Applied(m, schema) \cup {m} /\ twice' = (twice \/ m \in schema)
         ELSE schema' = schema /\ twice' = twice
      /\ workcopy' = {} /\ lock' = "nobody" /\ Advances(p)
  BY <1>2, <1>3 DEF Migrate, Pending
<1>5. Onward(p)
  BY <1>4, AdvancesOn
<1>6. ~twice'
  BY <1>3, <1>4 DEF StoreInv
<1>7. Stands(schema') /\ Grows(schema, schema') /\ m \in schema'
  <2>1. Stands(schema) /\ Grows(schema, schema)
    BY <1>3, ViewStands DEF StoreInv
  <2>2. \A j \in 1..(i - 1) : Migrations[j] \in schema
    <3>1. SUFFICES ASSUME NEW j \in 1..(i - 1) PROVE Migrations[j] \in schema
      OBVIOUS
    <3>2. j \in 1..27 /\ Base[p] + j < k
      <4> PICK b \in Nat : b = Base[p]
        BY ProgramIs
      <4>1. i = k - b
        BY <1>1
      <4> QED BY <4>1
    <3>3. PICK l \in 1..Size(p) : l = Base[p] + j /\ At0(p, l) = Stmt("migrate", {Migrations[j]})
      BY <3>2, ProgramIs
    <3>4. Fair(p, l) /\ Makes(p, l) = {Migrations[j]}
      BY <3>3 DEF Fair, Makes, At0, Stmt
    <3>5. proc[p].at > l
      BY <3>2, <3>3
    <3>6. Makes(p, l) \subseteq View(p)
      BY <3>4, <3>5 DEF WholeInv, ProcInv, DoneIn
    <3> QED BY <3>4, <3>6, <1>3 DEF View
  <2>3. Needs(m) \subseteq schema
    BY <2>1, <2>2, NeedsAreMet
  <2>4. CASE m \notin schema
    <3> PICK T : T = Applied(m, schema) \cup {m}
      OBVIOUS
    <3>1. Grows(schema, T) /\ Stands(T) /\ m \in T
      BY <2>1, <2>3, <2>4, <1>1, MigrationStands
    <3> QED BY <3>1, <2>4, <1>4
  <2>5. CASE m \in schema
    BY <2>1, <2>5, <1>4
  <2> QED BY <2>4, <2>5
<1>8. Moves(p, schema') /\ Held(p)
  <2>1. View(p) = schema /\ View(p)' = schema'
    BY <1>3, <1>4, ViewStands DEF View
  <2> QED BY <2>1, <1>3, <1>4, <1>6, <1>7, ViewStands DEF Moves, StoreMoves, StoreInv, Held
<1>9. MadeGood(p, k, schema')
  <2>1. Makes(p, k) = {m}
    BY <1>1 DEF Makes, At0
  <2> QED BY <2>1, <1>7, MadeIs
<1> QED BY <1>5, <1>8, <1>9, SeenNext, Advanced

-----------------------------------------------------------------------------
\* A process that starts, or ends.
Anew(p) ==
  /\ proc' \in [Procs -> ProcRecords] /\ proc'[Other(p)] = proc[Other(p)]
  /\ proc'[p].at \in {0, 1} /\ proc'[p].been = proc[p].been
  /\ proc'[p].later => proc[Other(p)].been

LEMMA Renewed ==
  ASSUME WholeInv, NEW p \in Procs, Anew(p), lock' # p, schema' = schema, twice' = twice,
         lock # p => lock' = lock /\ workcopy' = workcopy, lock = p => lock' = "nobody"
  PROVE  WholeInv'
<1>1. PICK q : q = Other(p)
  OBVIOUS
<1>2. q \in Procs /\ Procs = {p, q} /\ q # p /\ Other(q) = p
  BY <1>1, ViewStands DEF WholeInv
<1>3. StoreMoves(p)
  BY ViewStands DEF WholeInv, StoreMoves, StoreInv
<1>4. ProcInv(q)'
  BY <1>1, <1>3, OtherStays DEF Anew
<1>5. proc'[p].at <= Size(p) + 1 /\ Size(p) \in Nat /\ proc'[p].at \in {0, 1}
  <2> PICK n \in Nat : n = Size(p)
    BY ProgramIs
  <2> QED BY DEF Anew
<1>6. (proc[p].later => proc[Other(p)].been)'
  BY DEF Anew
<1>7. LockIn(p)'
  BY DEF LockIn
<1>8. SeenIn(p)'
  <2>1. SUFFICES ASSUME At(p, "column")' PROVE FALSE
    BY DEF SeenIn
  <2>2. proc'[p].at = 1 /\ At0(p, 1).do = "column"
    BY <2>1, <1>5 DEF At, Statement, At0
  <2>3. 1 \in 1..Base[p]
    <3> PICK b \in {9, 12} : b = Base[p]
      BY ProgramIs
    <3> QED OBVIOUS
  <2>4. Early(p, 1)
    BY <2>3, ProgramIs
  <2> QED BY <2>2, <2>4 DEF Early
<1>9. DoneIn(p)'
  BY <1>5 DEF DoneIn
<1>10. MovedIn(p)'
  BY <1>5 DEF MovedIn
<1>11. BeenIn(p)'
  BY DEF BeenIn, WholeInv, ProcInv, Anew
<1>12. ProcInv(p)'
  BY <1>5, <1>6, <1>7, <1>8, <1>9, <1>10, <1>11 DEF ProcInv
<1> QED BY <1>2, <1>3, <1>4, <1>12 DEF WholeInv, StoreMoves, Anew

LEMMA StartProcessIs == ASSUME WholeInv, NEW p \in Procs, StartProcess(p) PROVE WholeInv'
<1> PICK r, b : /\ r = proc[p] /\ b = proc[Other(p)].been
  OBVIOUS
<1>1. r \in ProcRecords /\ b \in BOOLEAN /\ Other(p) \in Procs /\ Other(p) # p
      /\ proc \in [Procs -> ProcRecords] /\ r.at = 0
  BY ViewStands DEF WholeInv, ProcRecords, StartProcess
<1>2. proc' = [proc EXCEPT ![p] = [r EXCEPT !.at = 1, !.seen = {}, !.moved = FALSE, !.missed = FALSE, !.later = b]]
  BY DEF StartProcess
<1>3. lock # p
  BY <1>1, WindowIs DEF WholeInv, ProcInv, LockIn
<1>4. UNCHANGED <<schema, workcopy, lock, twice>>
  BY DEF StartProcess
<1> PICK n : n = [r EXCEPT !.at = 1, !.seen = {}, !.moved = FALSE, !.missed = FALSE, !.later = b]
  OBVIOUS
<1>5. n \in ProcRecords /\ n.at = 1 /\ n.been = r.been /\ n.later = b
  BY <1>1 DEF ProcRecords
<1>6. proc'[p] = n /\ proc' \in [Procs -> ProcRecords] /\ proc'[Other(p)] = proc[Other(p)]
  BY <1>1, <1>2, <1>5
<1>7. Anew(p)
  BY <1>5, <1>6 DEF Anew
<1> QED BY <1>3, <1>4, <1>7, Renewed

LEMMA DiesIs == ASSUME WholeInv, NEW p \in Procs, Dies(p) PROVE WholeInv'
<1> PICK r : r = proc[p]
  OBVIOUS
<1>1. r \in ProcRecords /\ Other(p) \in Procs /\ Other(p) # p /\ proc \in [Procs -> ProcRecords]
      /\ p # "nobody"
  BY ViewStands DEF WholeInv
<1>2. proc' = [proc EXCEPT ![p] = [r EXCEPT !.at = 0, !.seen = {}]]
  BY DEF Dies
<1> PICK n : n = [r EXCEPT !.at = 0, !.seen = {}]
  OBVIOUS
<1>3. n \in ProcRecords /\ n.at = 0 /\ n.been = r.been /\ n.later = r.later
  BY <1>1 DEF ProcRecords
<1>4. proc'[p] = n /\ proc' \in [Procs -> ProcRecords] /\ proc'[Other(p)] = proc[Other(p)]
  BY <1>1, <1>2, <1>3
<1>5. Anew(p)
  BY <1>3, <1>4 DEF Anew, WholeInv, ProcInv
<1>6. /\ lock' # p /\ schema' = schema /\ twice' = twice
      /\ lock # p => lock' = lock /\ workcopy' = workcopy
      /\ lock = p => lock' = "nobody"
  BY <1>1 DEF Dies
<1> QED BY <1>5, <1>6, Renewed

-----------------------------------------------------------------------------
LEMMA WholeStart == SchemaInit => WholeInv
<1> SUFFICES ASSUME SchemaInit PROVE WholeInv
  OBVIOUS
<1>1. \A p \in Procs : proc[p] = [at |-> 0, seen |-> {}, moved |-> FALSE, later |-> FALSE,
                              missed |-> FALSE, been |-> FALSE]
  BY DEF SchemaInit
<1>2. proc \in [Procs -> ProcRecords]
  BY DEF SchemaInit, ProcRecords
<1>3. Stands(schema)
  BY IdsAre DEF SchemaInit, Databases, Stands, Full
<1>4. StoreInv
  BY <1>3 DEF SchemaInit, StoreInv
<1>5. ASSUME NEW p \in Procs PROVE ProcInv(p)
  <2>1. proc[p].at = 0 /\ ~proc[p].later /\ ~proc[p].been
    BY <1>1
  <2>2. Size(p) \in Nat
    BY ProgramIs
  <2>3. LockIn(p) /\ lock = "nobody"
    BY DEF LockIn, SchemaInit, Procs
  <2>4. DoneIn(p)
    BY <2>1, <2>2 DEF DoneIn
  <2>5. SeenIn(p) /\ MovedIn(p) /\ BeenIn(p)
    BY <2>1 DEF SeenIn, At, MovedIn, BeenIn
  <2> QED BY <2>1, <2>2, <2>3, <2>4, <2>5 DEF ProcInv
<1> QED BY <1>2, <1>4, <1>5 DEF WholeInv

LEMMA WholeStep == WholeInv /\ [SchemaNext]_schemaVars => WholeInv'
<1> SUFFICES ASSUME WholeInv, [SchemaNext]_schemaVars PROVE WholeInv'
  OBVIOUS
<1>1. CASE SchemaNext
  <2> PICK p \in Procs : ProcStep(p)
    BY <1>1 DEF SchemaNext
  <2>1. CASE StopProcess(p) \/ IndexFails(p)
    BY <2>1, DiesIs DEF StopProcess, IndexFails
  <2>2. CASE ~(StopProcess(p) \/ IndexFails(p))
    BY <2>2, StartProcessIs, CreatePartsIs, SavesNewIs, MoveSavesIs, LookAtTableIs,
       AddColumnsIs,
       MissColumnsIs, InsertSettingsIs, MakeIndexesIs, FillRegionsIs, DropLocationsIs,
       CommitChangesIs, PassOverIs, LookForMigrationIs, BeginMigrationIs, MigrateIs DEF ProcStep
  <2> QED BY <2>1, <2>2
<1>2. CASE UNCHANGED schemaVars
  BY <1>2 DEF schemaVars, WholeInv, StoreInv, ProcInv, LockIn, SeenIn, DoneIn, MovedIn, BeenIn,
     At, Up, Statement, View, Fair, Makes
<1> QED BY <1>1, <1>2

\* The inductive invariant of the two starts holds in every reachable state,
\* whoever stops where, and however often.
THEOREM SchemaInvariant == SchemaSpec => []WholeInv
<1>1. WholeInv /\ [SchemaNext]_schemaVars => WholeInv'
  BY WholeStep
<1> QED BY <1>1, WholeStart, PTL DEF SchemaSpec

-----------------------------------------------------------------------------
\* A set of numbers has a smallest one: the smaller of two numbers is the smaller
\* initial segment.
LEMMA SmallestExists ==
  ASSUME NEW S \in SUBSET Nat, S # {}
  PROVE  \E d \in S : \A e \in S : d <= e
<1> DEFINE Below == {0..d : d \in S}
<1>1. Below \subseteq FiniteSubsetsOf(Nat) /\ Below # {}
  <2>1. \A d \in S : 0..d \subseteq Nat /\ IsFiniteSet(0..d)
    BY FS_Interval
  <2> QED BY <2>1 DEF FiniteSubsetsOf
<1>2. PICK x \in Below : \A y \in Below : <<y, x>> \notin StrictSubsetOrdering(Nat)
  BY <1>1, FS_StrictSubsetOrderingWellFounded, WFMin
<1>3. PICK d \in S : x = 0..d
  BY <1>2
<1>4. ASSUME NEW e \in S, ~(d <= e) PROVE FALSE
  <2>1. 0..e \in Below
    OBVIOUS
  <2>2. 0..e \subseteq Nat /\ 0..d \subseteq Nat
    OBVIOUS
  <2>3. 0..e \subseteq 0..d /\ d \in 0..d /\ d \notin 0..e
    BY <1>4
  <2>4. <<0..e, 0..d>> \in StrictSubsetOrdering(Nat)
    BY <2>2, <2>3 DEF StrictSubsetOrdering
  <2> QED BY <2>1, <2>4, <1>2, <1>3
<1> QED BY <1>4

\* Counting up to a number reaches it.
LEMMA CountsUp ==
  ASSUME NEW n \in Nat, NEW S, 0 \in S, \A i \in 1..n : i - 1 \in S => i \in S
  PROVE  0..n \subseteq S
<1> SUFFICES ASSUME ~(0..n \subseteq S) PROVE FALSE
  OBVIOUS
<1> DEFINE rest == {i \in 0..n : i \notin S}
<1>1. rest \in SUBSET Nat /\ rest # {}
  OBVIOUS
<1>2. PICK d \in rest : \A e \in rest : d <= e
  <2> HIDE DEF rest
  <2> QED BY <1>1, SmallestExists
<1>3. d \in 1..n /\ d \notin S /\ d - 1 \in 0..n
  BY <1>2
<1>4. d - 1 \notin rest
  <2>1. d - 1 \in rest => d <= d - 1
    BY <1>2
  <2> QED BY <2>1, <1>3
<1>5. d - 1 \in S
  BY <1>3, <1>4
<1> QED BY <1>3, <1>5

\* What the migrations make of an empty database that both programs have met:
\* after[i] is what the first i of them leave.
Leaves(after) ==
  /\ after[0] = AllIndexes(Parts(BotProgram) \cup Parts(ApiProgram) \cup {"saves"})
  /\ \A i \in 1..27 : after[i] = Applied(Migrations[i], after[i - 1]) \cup {Migrations[i]}
  /\ after[27] = Everything

LEMMA EverythingRuns == \E after : Leaves(after)
<1> PICK V : V = AllIndexes(Parts(BotProgram) \cup Parts(ApiProgram) \cup {"saves"})
  OBVIOUS
<1> DEFINE More(T, i) == Applied(Migrations[i], T) \cup {Migrations[i]}
           Upto(f, k) == [i \in 0..k |-> IF i = 0 THEN V ELSE More(f[i - 1], i)]
           Some == {k \in Nat : \E f : f = Upto(f, k)}
           F == CHOOSE f : f = Upto(f, 27)
<1>0. Everything = F[27]
  BY MigrationsAre DEF Everything
<1> HIDE DEF More
<1>1. 0 \in Some
  <2>1. PICK f : f = [i \in 0..0 |-> V]
    OBVIOUS
  <2>2. f = Upto(f, 0)
    BY <2>1
  <2> QED BY <2>2
<1>2. ASSUME NEW k \in 1..27, k - 1 \in Some PROVE k \in Some
  <2>1. PICK f : f = Upto(f, k - 1)
    BY <1>2
  <2>2. PICK h : h = [i \in 0..k |-> IF i < k THEN f[i] ELSE More(f[k - 1], k)]
    OBVIOUS
  <2>3. \A i \in 0..k : h[i] = IF i = 0 THEN V ELSE More(h[i - 1], i)
    <3> SUFFICES ASSUME NEW i \in 0..k
                 PROVE  h[i] = IF i = 0 THEN V ELSE More(h[i - 1], i)
      OBVIOUS
    <3>1. CASE i = 0
      BY <3>1, <2>1, <2>2
    <3>2. CASE i # 0 /\ i < k
      <4>1. i \in 0..(k - 1) /\ i - 1 \in 0..k /\ i - 1 < k
        BY <3>2
      <4>2. h[i] = f[i] /\ h[i - 1] = f[i - 1]
        BY <4>1, <3>2, <2>2
      <4>3. f[i] = More(f[i - 1], i)
        BY <4>1, <3>2, <2>1
      <4> QED BY <4>2, <4>3, <3>2
    <3>3. CASE i = k
      <4>1. k - 1 \in 0..k /\ k - 1 < k /\ k \in 0..k /\ k # 0
        OBVIOUS
      <4> QED BY <4>1, <3>3, <2>2
    <3> QED BY <3>1, <3>2, <3>3
  <2>4. h = Upto(h, k)
    BY <2>2, <2>3
  <2>5. (\E g : g = Upto(g, k)) /\ k \in Nat
    <3> HIDE DEF Upto
    <3> QED BY <2>4
  <2> HIDE DEF Upto
  <2> QED BY <2>5
<1>3. 27 \in Some
  <2>1. 27 \in 0..27 /\ 27 \in Nat
    OBVIOUS
  <2> HIDE DEF Some
  <2> QED BY <2>1, <1>1, <1>2, CountsUp
<1>4. F = Upto(F, 27)
  BY <1>3
<1> HIDE DEF F
<1>5. F[0] = V /\ \A i \in 1..27 : F[i] = More(F[i - 1], i)
  BY <1>4
<1>6. Leaves(F)
  BY <1>0, <1>5 DEF Leaves, More
<1> QED BY <1>6

\* The CHECKs of the first release go when their tables are rebuilt.
LEMMA ClickGoes ==
  ASSUME NEW S
  PROVE  /\ LedgerClick \notin Applied("m020", S) /\ OrdersClick \notin Applied("m027", S)
         /\ \A m \in {"m021", "m022", "m023", "m024", "m025", "m026", "m027"} :
              LedgerClick \in Applied(m, S) => LedgerClick \in S
<1>1. LedgerClick \notin Applied("m020", S)
  <2>1. Applied("m020", S) = m020_click_payments(S)
    BY DEF Applied
  <2> QED BY <2>1 DEF m020_click_payments, LedgerClick
<1>2. Applied("m027", S) = m027_paynet(S)
  BY DEF Applied
<1>3. /\ Applied("m021", S) = m021_bot_link_revocation(S) /\ Applied("m022", S) = m022_kb_sent_at(S)
      /\ Applied("m023", S) = m023_vacancy_store(S) /\ Applied("m024", S) = m024_autopost_min_quality(S)
      /\ Applied("m025", S) = m025_ingest_hardening(S) /\ Applied("m026", S) = m026_vacancy_category(S)
  BY DEF Applied
<1>4. OrdersClick \notin Applied("m027", S)
  BY <1>2 DEF m027_paynet, OrdersClick
<1>5. ASSUME NEW m \in {"m021", "m022", "m023", "m024", "m025", "m026", "m027"}
      PROVE  LedgerClick \in Applied(m, S) => LedgerClick \in S
  BY <1>2, <1>3 DEF m021_bot_link_revocation, m022_kb_sent_at, m023_vacancy_store,
     m024_autopost_min_quality,
     m025_ingest_hardening, m026_vacancy_category, m027_paynet, LedgerClick
<1> QED BY <1>1, <1>4, <1>5

Lasting ==
  Parts(BotProgram) \cup Parts(ApiProgram) \cup {"saves"} \cup Indexes \cup Ids
  \cup UNION {Brings(m) : m \in Ids}

LEMMA PartsAreNames ==
  (Parts(BotProgram) \cup Parts(ApiProgram)) \cap (Ids \cup Temporary) = {}
<1>1. ASSUME NEW p \in Procs, NEW i \in DOMAIN Program[p], Program[p][i].do \in {"create", "column"}
      PROVE  Program[p][i].parts \cap (Ids \cup Temporary) = {}
  <2>1. i \in 1..Size(p)
    BY BotIs, ApiIs DEF Size, Base, Program, Procs
  <2> QED BY <1>1, <2>1, StatementIs DEF Early, At0
<1>2. \A p \in Procs : Parts(Program[p]) \cap (Ids \cup Temporary) = {}
  BY <1>1 DEF Parts
<1> QED BY <1>2 DEF Program, Procs

Reached(T, i) ==
  /\ Stands(T) /\ \A j \in 1..i : Migrations[j] \in T
  /\ T \subseteq Lasting \cup {LedgerClick, OrdersClick}
  /\ i >= 20 => LedgerClick \notin T
  /\ i = 27 => OrdersClick \notin T

LEMMA EverythingLasts == Everything \subseteq Lasting
<1>1. PICK after : Leaves(after)
  BY EverythingRuns
<1> DEFINE S == {i \in 0..27 : Reached(after[i], i)}
<1>2. 0 \in S
  <2> PICK P, A : P = Parts(BotProgram) \cup Parts(ApiProgram) \cup {"saves"} /\ A = after[0]
    OBVIOUS
  <2>1. A = AllIndexes(P)
    BY <1>1 DEF Leaves
  <2>2. A \subseteq P \cup Indexes
    BY <2>1, AllIndexesAre
  <2>3. P \cap (Ids \cup Temporary) = {}
    BY PartsAreNames, NamesAreApart, IdsAre
  <2>4. A \cap (Ids \cup Temporary) = {}
    BY <2>2, <2>3, NamesAreApart
  <2>5. Stands(A)
    BY <2>4, IdsAre, NamesAreApart DEF Stands
  <2>6. A \subseteq Lasting
    BY <2>2 DEF Lasting
  <2> QED BY <2>5, <2>6 DEF Reached
<1>3. ASSUME NEW i \in 1..27, i - 1 \in S PROVE i \in S
  <2> PICK A, T, m : A = after[i - 1] /\ T = after[i] /\ m = Migrations[i]
    OBVIOUS
  <2>1. Reached(A, i - 1) /\ T = Applied(m, A) \cup {m} /\ m \in Ids
    BY <1>1, <1>3, ProgramIs DEF Leaves, Procs
  <2>2. Stands(A) /\ Needs(m) \subseteq A
    BY <2>1, NeedsAreMet DEF Reached
  <2>3. Grows(A, T) /\ Stands(T) /\ m \in T
    BY <2>1, <2>2, MigrationStands
  <2>4. \A j \in 1..i : Migrations[j] \in T
    <3>1. SUFFICES ASSUME NEW j \in 1..i PROVE Migrations[j] \in T
      OBVIOUS
    <3>2. CASE j = i
      BY <3>2, <2>3
    <3>3. CASE j # i
      <4>1. j \in 1..(i - 1) /\ j \in 1..27
        BY <3>3
      <4>2. Migrations[j] \in A /\ Migrations[j] \in Ids
        BY <4>1, <2>1, ProgramIs DEF Reached, Procs
      <4> QED BY <4>2, <2>3, NamesAreApart DEF Grows
    <3> QED BY <3>2, <3>3
  <2>5. T \subseteq Lasting \cup {LedgerClick, OrdersClick}
    <3>1. Applied(m, A) \subseteq A \cup Brings(m) \cup Indexes \cup {LedgerClick, OrdersClick}
      BY <2>1, <2>2, MigrationsDo DEF Effect
    <3> QED BY <3>1, <2>1 DEF Reached, Lasting
  <2>6. /\ Migrations[20] = "m020" /\ Migrations[27] = "m027"
        /\ \A j \in 21..27 : Migrations[j] \in {"m021", "m022", "m023", "m024", "m025", "m026", "m027"}
    BY DEF Migrations
  <2>7. LedgerClick \notin Ids /\ OrdersClick \notin Ids
    BY NamesAreApart
  <2>8. ASSUME i >= 20 PROVE LedgerClick \notin T
    <3>1. CASE i = 20
      BY <3>1, <2>1, <2>6, <2>7, ClickGoes
    <3>2. CASE i # 20
      <4>1. i \in 21..27 /\ i - 1 >= 20
        BY <3>2, <2>8
      <4>2. m \in {"m021", "m022", "m023", "m024", "m025", "m026", "m027"} /\ LedgerClick \notin A
        BY <4>1, <2>1, <2>6 DEF Reached
      <4> QED BY <4>2, <2>1, <2>7, ClickGoes
    <3> QED BY <3>1, <3>2
  <2>9. ASSUME i = 27 PROVE OrdersClick \notin T
    BY <2>9, <2>1, <2>6, <2>7, ClickGoes
  <2> QED BY <2>3, <2>4, <2>5, <2>8, <2>9 DEF Reached
<1>4. 27 \in S
  <2>1. 27 \in 0..27 /\ 27 \in Nat
    OBVIOUS
  <2> HIDE DEF S
  <2> QED BY <2>1, <1>2, <1>3, CountsUp
<1>5. Reached(Everything, 27)
  BY <1>1, <1>4 DEF Leaves
<1> QED BY <1>5 DEF Reached

-----------------------------------------------------------------------------
\* What the invariant means for a process that is up.
LEMMA UpIs ==
  ASSUME WholeInv, NEW p \in Procs, Up(p)
  PROVE  View(p) = schema /\ \A k \in 1..Size(p) : Fair(p, k) => Makes(p, k) \subseteq schema
<1> PICK n \in Nat : n = Size(p) /\ Len(Program[p]) = n
  BY ProgramIs
<1>1. proc[p].at \in Nat /\ proc[p].at > n
  BY DEF Up, WholeInv, ProcRecords
<1>2. lock # p
  BY <1>1, WindowIs DEF WholeInv, ProcInv, LockIn
<1>3. View(p) = schema
  BY <1>2 DEF View
<1>4. \A k \in 1..n : proc[p].at > k
  BY <1>1
<1> QED BY <1>3, <1>4 DEF WholeInv, ProcInv, DoneIn

LEMMA PartsAreThere ==
  ASSUME WholeInv, NEW p \in Procs, Up(p), proc[p].later, ~proc[p].missed
  PROVE  Parts(Program[p]) \subseteq schema
<1>1. ASSUME NEW i \in DOMAIN Program[p], Program[p][i].do \in {"create", "column"}
      PROVE  Program[p][i].parts \subseteq schema
  <2>1. i \in 1..Size(p)
    BY BotIs, ApiIs DEF Size, Base, Program, Procs
  <2>2. Fair(p, i) /\ Makes(p, i) = Program[p][i].parts
    BY <1>1 DEF Fair, Makes
  <2> QED BY <2>1, <2>2, UpIs
<1> QED BY <1>1 DEF Parts

LEMMA WholeIs == WholeInv => SchemaIsWhole
<1> SUFFICES ASSUME WholeInv PROVE SchemaIsWhole
  OBVIOUS
<1>1. ~twice /\ Stands(schema) /\ ("m016" \in schema => Full \notin schema)
  BY DEF WholeInv, StoreInv, Stands
<1>2. \A p \in Procs : proc[p].been => Has(schema, ToSet(Migrations))
  BY DEF WholeInv, ProcInv, BeenIn, Ids, Has
<1>3. proc["bot"].been => "saves" \in schema /\ "saves.fake" \notin schema
  BY DEF WholeInv, ProcInv, BeenIn, Procs
<1>4. Up("bot") /\ proc["bot"].later /\ ~proc["bot"].missed => Has(schema, Parts(BotProgram))
  BY PartsAreThere DEF Procs, Program, Has
<1>5. ASSUME Up("api"), proc["api"].later, ~proc["api"].missed PROVE Lasting \subseteq schema
  <2>1. Parts(ApiProgram) \subseteq schema
    BY <1>5, PartsAreThere DEF Procs, Program
  <2>2. proc["bot"].been
    BY <1>5 DEF WholeInv, ProcInv, Procs, Other
  <2>3. Ids \subseteq schema /\ "saves" \in schema
    BY <2>2 DEF WholeInv, ProcInv, BeenIn, Procs
  <2>4. UNION {Brings(m) : m \in Ids} \subseteq schema
    BY <1>1, <2>3 DEF Stands
  <2>5. Indexes \subseteq schema
    <3>1. 8 \in 1..Size("api") /\ Program["api"][8] = Stmt("indexes", {}) /\ Size("api") = 36
      BY ApiIs DEF Size, Base, Program
    <3>2. Fair("api", 8) /\ Makes("api", 8) = Indexes \ {"idx:ref_by"}
      BY <1>5, <3>1 DEF Fair, Makes, Stmt
    <3>3. Indexes \ {"idx:ref_by"} \subseteq schema /\ View("api") = schema
      BY <1>5, <3>1, <3>2, UpIs DEF Procs
    <3>4. proc["api"].at > 8
      <4>1. proc["api"].at \in Nat /\ Len(Program["api"]) = 36
        BY ApiIs DEF Program, WholeInv, ProcRecords, Procs
      <4> QED BY <4>1, <1>5 DEF Up
    <3>5. "idx:ref_by" \in schema \/ Full \in schema
      BY <3>3, <3>4, <1>5 DEF WholeInv, ProcInv, MovedIn, Procs
    <3> QED BY <3>3, <3>5, <1>1, <2>3, IdsAre
  <2>6. Parts(BotProgram) \subseteq schema
    <3>1. ASSUME NEW i \in 1..39, BotProgram[i].do = "create" PROVE BotProgram[i].parts \subseteq schema
      <4>1. i \in 1..Size("bot") /\ Program["bot"] = BotProgram
        BY DEF Size, Base, Program
      <4> QED BY <4>1, <3>1, <2>2 DEF WholeInv, ProcInv, BeenIn, Procs
    <3>2. ASSUME NEW i \in 1..39, BotProgram[i].do = "column"
          PROVE  BotProgram[i].parts \in {UserColumns.bot, SettingsColumns.bot}
      <4>1. i \in {7, 9}
        <5>1. i \in 13..39 \/ i \in {1, 2, 3, 4, 5, 6, 7, 8, 9, 10, 11, 12}
          OBVIOUS
        <5>2. i \notin 13..39
          BY <3>2, BotIs DEF Stmt
        <5> QED BY <5>1, <5>2, <3>2, BotIs DEF Stmt
      <4> QED BY <4>1, BotIs DEF Stmt
    <3>3. UserColumns.bot \subseteq Parts(ApiProgram) /\ SettingsColumns.bot \subseteq Parts(ApiProgram)
      <4>1. UserColumns.bot \subseteq UserColumns.api /\ SettingsColumns.bot \subseteq SettingsColumns.api
        BY DEF UserColumns, SettingsColumns
      <4>2. UserColumns.api \subseteq Parts(ApiProgram) /\ SettingsColumns.api \subseteq Parts(ApiProgram)
        <5>1. /\ 2 \in DOMAIN ApiProgram /\ 5 \in DOMAIN ApiProgram
              /\ ApiProgram[2] = Stmt("column", UserColumns.api)
              /\ ApiProgram[5] = Stmt("column", SettingsColumns.api)
          BY ApiIs
        <5> QED BY <5>1 DEF Parts, Stmt
      <4> QED BY <4>1, <4>2
    <3> QED BY <3>1, <3>2, <3>3, <2>1, BotIs DEF Parts
  <2> QED BY <2>1, <2>3, <2>4, <2>5, <2>6 DEF Lasting
<1>6. Up("api") /\ proc["api"].later /\ ~proc["api"].missed => Has(schema, Everything)
  BY <1>5, EverythingLasts DEF Has
<1> QED BY <1>1, <1>2, <1>3, <1>4, <1>6 DEF SchemaIsWhole, Full

\* No migration of run_migrations is committed twice, and a process that is up
\* after both had been up has made good whatever was skipped or failed before.
THEOREM SchemaWhole == SchemaSpec => []SchemaIsWhole
<1> QED BY SchemaInvariant, WholeIs, PTL
=============================================================================
