----------------------------- MODULE WalletOps ------------------------------
(***************************************************************************)
(* What users and admins do to a wallet beside top-ups: buying Pro         *)
(* (webapp/routers/wallet.py), and the admin panel's balance change with   *)
(* its idempotency key, reset, Pro grant and Pro revoke                    *)
(* (webapp/routers/admin_users.py), all through webapp/core/ledger.py.     *)
(*                                                                         *)
(* A request reads what it reads before its transaction in one step and    *)
(* commits its transaction in another. A transaction that is refused or    *)
(* fails is rolled back and is not a step. Who may act on whom (roles,     *)
(* confirmation tokens) is checked before and is not modelled.             *)
(***************************************************************************)
EXTENDS Wallet, FiniteSets

CONSTANTS Prices,       \* values of the setting pro_price
          Changes,      \* amounts of an admin's balance change
          Keys,         \* (admin, X-Idempotency-Key)
          Requests,     \* concurrently served requests
          NoUser,       \* the user of an idle request
          NoKey,        \* a request without X-Idempotency-Key
          TTL,          \* IDEMPOTENCY_TTL_SECONDS
          GrantTimes,   \* lengths of a time-boxed Pro grant
          MaxTime,      \* bound of the clock
          MaxRows       \* bound of a user's ledger

ASSUME WalletOpsAssumption ==
    /\ Prices \subseteq Nat
    /\ Changes \subseteq Int \ {0}
    /\ NoKey \notin Keys
    /\ NoUser \notin Users
    /\ TTL \in Nat /\ MaxTime \in Nat /\ MaxRows \in Nat
    /\ GrantTimes \subseteq Nat \ {0}

VARIABLES price,        \* webapp_admin_settings.pro_price
          now,          \* the clock
          work,         \* work[r]: the request r is serving
          keys,         \* admin_idempotency
          audit         \* the audit rows of balance changes

opsVars == <<wallet, price, now, work, keys, audit>>

Work == [pc: {"idle", "buying", "resetting"}, user: Users \cup {NoUser}, read: Int]

NoWork == [pc |-> "idle", user |-> NoUser, read |-> 0]

\* An audit row names the ledger row it was committed with by its place.
AuditRecord == [user: Users, tx: Nat, amount: Int, key: Keys \cup {NoKey}, at: Nat]

\* A stored claim: the body (hash) it was made with, and the response.
Claim == [key: Keys, user: Users, amount: Int, at: Nat, tx: Nat]

OpsTypeOK ==
    /\ WalletTypeOK
    /\ price \in Prices
    /\ now \in 0..MaxTime
    /\ work \in [Requests -> Work]
    /\ keys \subseteq Claim
    /\ audit \subseteq AuditRecord

OpsInit ==
    /\ WalletInit
    /\ price \in Prices
    /\ now = 0
    /\ work = [r \in Requests |-> NoWork]
    /\ keys = {}
    /\ audit = {}

Room(u) == Len(wallet[u].rows) < MaxRows

Change(u, w) == wallet' = [wallet EXCEPT ![u] = w]

-----------------------------------------------------------------------------
\* POST /wallet/activate-pro reads the price ...
ReadPrice(r, u) ==
    /\ work[r].pc = "idle"
    /\ work' = [work EXCEPT ![r] = [pc |-> "buying", user |-> u, read |-> price]]
    /\ UNCHANGED <<wallet, price, now, keys, audit>>

\* ... and charges it, if the user is not Pro and can pay, in one UPDATE.
BuyPro(r) ==
    LET u == work[r].user IN
    /\ work[r].pc = "buying"
    /\ Room(u)
    /\ CanActivatePro(wallet[u], work[r].read)
    /\ Change(u, ActivatePro(wallet[u], work[r].read))
    /\ work' = [work EXCEPT ![r] = NoWork]
    /\ UNCHANGED <<price, now, keys, audit>>

-----------------------------------------------------------------------------
\* Mutant: a claim expires one tick early.
ExpiredEarly(c) == c.at + TTL <= now

Expired(c) == c.at + TTL < now

\* _claim_idempotency, the first write of the transaction: expired claims go,
\* and a claim that is left answers the request instead (a replay or, with
\* another body, a conflict), which then writes nothing.
Claimable(key) == ~\E c \in keys : c.key = key /\ ~Expired(c)

\* Mutant: the response names the row before its own.
StoreOldRow(key, u, amount) ==
    keys' = IF key = NoKey THEN keys
            ELSE {c \in keys : ~Expired(c)}
                   \cup {[key |-> key, user |-> u, amount |-> amount, at |-> now,
                          tx |-> Len(wallet[u].rows)]}

StoreClaim(key, u, amount) ==
    keys' = IF key = NoKey THEN keys
            ELSE {c \in keys : ~Expired(c)}
                   \cup {[key |-> key, user |-> u, amount |-> amount, at |-> now,
                          tx |-> Len(wallet[u].rows) + 1]}

\* POST /admin/users/{id}/balance: claim, ledger, audit row and response are
\* committed together.
ChangeBalance(u, amount, key) ==
    /\ Room(u)
    /\ key = NoKey \/ Claimable(key)
    /\ Sufficient(wallet[u], amount)
    /\ Change(u, ApplyBalanceChange(wallet[u], "admin_credit", amount, NoReference))
    /\ StoreClaim(key, u, amount)
    /\ audit' = audit \cup {[user |-> u, tx |-> Len(wallet[u].rows) + 1,
                             amount |-> amount, key |-> key, at |-> now]}
    /\ UNCHANGED <<price, now, work>>

\* ledger.reset_user reads the balance ...
ReadBalance(r, u) ==
    /\ work[r].pc = "idle"
    /\ work' = [work EXCEPT ![r] = [pc |-> "resetting", user |-> u,
                                    read |-> wallet[u].balance]]
    /\ UNCHANGED <<wallet, price, now, keys, audit>>

\* Mutant: the reset is not conditional on the balance it has read.
ReadWins(read, u) == read

\* ... and zeroes it where it is still that. An UPDATE that finds another
\* balance has taken the write lock, so the next round reads and zeroes the
\* balance of this very moment.
MatchedBalance(read, u) == IF wallet[u].balance = read THEN read ELSE wallet[u].balance

ResetBalance(r) ==
    LET u == work[r].user IN
    /\ work[r].pc = "resetting"
    /\ Room(u)
    /\ Change(u, ResetUser(wallet[u], MatchedBalance(work[r].read, u)))
    /\ work' = [work EXCEPT ![r] = NoWork]
    /\ UNCHANGED <<price, now, keys, audit>>

\* POST /admin/users/{id}/pro: the flag, pro_until and an `adjustment` row of 0.
SetUserPro(u, pro, until) ==
    /\ Room(u)
    /\ Change(u, [ApplyBalanceChange(wallet[u], "adjustment", 0, NoReference)
                     EXCEPT !.pro = pro, !.until = until])
    /\ UNCHANGED <<price, now, work, keys, audit>>

GrantPro(u) ==
    \/ SetUserPro(u, TRUE, Never)
    \/ \E days \in GrantTimes : SetUserPro(u, TRUE, now + days)

RevokePro(u) == SetUserPro(u, FALSE, Never)

-----------------------------------------------------------------------------
SetProPrice(p) ==
    /\ price' = p
    /\ UNCHANGED <<wallet, now, work, keys, audit>>

Tick ==
    /\ now < MaxTime
    /\ now' = now + 1
    /\ UNCHANGED <<wallet, price, work, keys, audit>>

\* A request is refused by its UPDATE, fails or dies.
GiveUp(r) ==
    /\ work[r].pc # "idle"
    /\ work' = [work EXCEPT ![r] = NoWork]
    /\ UNCHANGED <<wallet, price, now, keys, audit>>

OpsNext ==
    \/ \E r \in Requests :
          \/ \E u \in Users : ReadPrice(r, u) \/ ReadBalance(r, u)
          \/ BuyPro(r) \/ ResetBalance(r) \/ GiveUp(r)
    \/ \E u \in Users :
          \/ \E amount \in Changes, key \in Keys \cup {NoKey} : ChangeBalance(u, amount, key)
          \/ GrantPro(u) \/ RevokePro(u)
    \/ \E p \in Prices : SetProPrice(p)
    \/ Tick

OpsSpec == OpsInit /\ [][OpsNext]_opsVars

-----------------------------------------------------------------------------
(***************************************************************************)
(* Properties.                                                             *)
(***************************************************************************)

KindAt(u, i) == wallet[u].rows[i].kind

\* No interleaving of purchases, debits and resets takes a balance below zero,
\* and Pro is never charged twice without the first purchase having been undone
\* (reset) or overruled (grant, revoke) by an admin in between.
PurchasesAreCovered ==
    /\ \A u \in Users : wallet[u].balance >= 0
    /\ \A u \in Users : \A i, j \in DOMAIN wallet[u].rows :
        i < j /\ KindAt(u, i) = "pro_activation" /\ KindAt(u, j) = "pro_activation" =>
            \E k \in i..j : KindAt(u, k) \in {"admin_reset", "adjustment"}

\* The audit trail and the ledger agree: every admin_credit row has one audit
\* row, which tells its amount, and every live claim replays a response whose
\* row is in the ledger with the body's amount. One idempotency key changes a
\* balance once in its lifetime, however often the request is repeated.
AuditMatchesLedger ==
    /\ \A u \in Users : \A i \in DOMAIN wallet[u].rows :
          KindAt(u, i) = "admin_credit" =>
              \E a \in audit : /\ a.user = u /\ a.tx = i
                               /\ a.amount = wallet[u].rows[i].amount
    /\ \A a \in audit : a.tx \in DOMAIN wallet[a.user].rows
    /\ \A a, b \in audit : a.user = b.user /\ a.tx = b.tx => a = b
    /\ \A c \in keys : \E a \in audit :
          /\ <<a.key, a.user, a.tx, a.at>> = <<c.key, c.user, c.tx, c.at>>
          /\ a.amount = c.amount
    /\ \A a, b \in audit :
          a.key # NoKey /\ a.key = b.key /\ a # b => a.at + TTL < b.at \/ b.at + TTL < a.at

\* Purchases are covered by the balance and charged once, and admins' changes
\* are told by the audit and applied once per key.
OpsAreAccountedFor == PurchasesAreCovered /\ AuditMatchesLedger
=============================================================================
