------------------------------- MODULE Wallet -------------------------------
(***************************************************************************)
(* The wallet of every user: `users.user_balance`, `users.user_pro`,       *)
(* `users.pro_until` and the user's rows of `wallet_transactions`, with    *)
(* the operations of webapp/core/ledger.py on them.                        *)
(*                                                                         *)
(* An operation maps a wallet to a wallet: the caller's transaction is the *)
(* action that commits it, so an action of Payments or WalletOps applies   *)
(* one or more of these operators to `wallet` in a single step.            *)
(*                                                                         *)
(* The ledger is kept per user, in `id` order; `reference` is unique per   *)
(* kind over all users.                                                    *)
(***************************************************************************)
EXTENDS Integers, Sequences

CONSTANTS Users,        \* users.user_id
          References    \* values of wallet_transactions.reference

VARIABLE wallet         \* wallet[u]: the row of `users` and its ledger

NoReference == <<"none", 0>>
Never == -1             \* pro_until IS NULL

ASSUME ReferenceAssumption == NoReference \notin References

Kinds == {"pro_activation", "referral_reward", "admin_credit", "admin_reset",
          "adjustment", "topup", "topup_bonus"}

Row == [kind: Kinds, amount: Int, after: Int, ref: References \cup {NoReference}]

WalletRecord == [balance: Int, pro: BOOLEAN, until: Int, rows: Seq(Row)]

EmptyWallet == [balance |-> 0, pro |-> FALSE, until |-> Never, rows |-> <<>>]

WalletTypeOK == wallet \in [Users -> WalletRecord]

WalletInit == wallet = [u \in Users |-> EmptyWallet]

-----------------------------------------------------------------------------
(***************************************************************************)
(* The operations.                                                         *)
(***************************************************************************)

\* apply_balance_change without `require_sufficient`: the UPDATE, then the row
\* with the balance the UPDATE produced.
ApplyBalanceChange(w, kind, amount, ref) ==
    [w EXCEPT !.balance = @ + amount,
              !.rows = Append(@, [kind |-> kind, amount |-> amount,
                                  after |-> w.balance + amount, ref |-> ref])]

\* Mutant: the debit is not conditional on the balance.
AlwaysSufficient(w, amount) == TRUE

\* The guard of `require_sufficient`, which only a debit is subject to.
Sufficient(w, amount) == amount < 0 => w.balance >= -amount

\* Mutant: `user_pro = 0` is missing from the WHERE clause.
CanActivateAgain(w, price) == w.balance >= price

\* The condition of activate_pro's single UPDATE.
CanActivatePro(w, price) == ~w.pro /\ w.balance >= price

ActivatePro(w, price) ==
    [ApplyBalanceChange(w, "pro_activation", -price, NoReference) EXCEPT !.pro = TRUE]

\* reset_user once its UPDATE, conditional on the balance it has read, has
\* matched: one row for the whole of that balance. `pro_until` is left alone.
ResetUser(w, read) ==
    [w EXCEPT !.balance = 0, !.pro = FALSE,
              !.rows = Append(@, [kind |-> "admin_reset", amount |-> -read,
                                  after |-> 0, ref |-> NoReference])]

\* The unique index on (kind, reference) of wallet_transactions: an INSERT of
\* a used pair raises IntegrityError.
RefUsed(kind, ref) ==
    \E u \in Users : \E i \in DOMAIN wallet[u].rows :
        wallet[u].rows[i].kind = kind /\ wallet[u].rows[i].ref = ref

-----------------------------------------------------------------------------
\* The balance a ledger stands for: its last row's `balance_after`.
BalanceAfter(rows, i) == IF i = 0 THEN 0 ELSE rows[i].after

\* The ledger of a wallet explains its balance: every row continues the one
\* before it by its own amount, and the balance is where the last row ends.
Explained(w) ==
    /\ w.balance = BalanceAfter(w.rows, Len(w.rows))
    /\ \A i \in 1..Len(w.rows) :
          w.rows[i].after = BalanceAfter(w.rows, i - 1) + w.rows[i].amount

\* ledger.py's invariants "balance_after equals users.user_balance right after
\* the call" and "from a zero start, SUM(amount) per user equals the current
\* balance", across every operation of every handler: no lost update, no
\* change without its row, no row without its change.
LedgerExplainsBalance == \A u \in Users : Explained(wallet[u])
=============================================================================
