---------------------------- MODULE MCWalletOps -----------------------------
(***************************************************************************)
(* One wallet, two requests and one newcomer with two updates.             *)
(***************************************************************************)
EXTENDS Referrals, TLC

\* A credit that covers two purchases at the smaller price, and a debit as
\* large as it, so that purchases, debits and resets compete for the same
\* money.
MCChanges == {-2, 4}
MCPrices == {2, 3}

MCSymmetry == Permutations(Requests) \cup Permutations(Keys) \cup Permutations(Updates)
=============================================================================
