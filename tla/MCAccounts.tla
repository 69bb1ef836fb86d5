----------------------------- MODULE MCAccounts -----------------------------
(* Accounts on small instances, for TLC. *)
EXTENDS Accounts, TLC

CONSTANTS r1, r2, r3, r4

Four == {r1, r2, r3, r4}
ResetOps == {"login", "forgot", "reset"}
Symmetric == Permutations(Requests)
=============================================================================
