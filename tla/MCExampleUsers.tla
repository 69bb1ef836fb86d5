--------------------------- MODULE MCExampleUsers ---------------------------
(* ExampleUsers on a small instance, for TLC. *)
EXTENDS ExampleUsers, TLC

CONSTANTS r1, r2, r3

Three == {r1, r2, r3}
Symmetric == Permutations(Requests)
=============================================================================
