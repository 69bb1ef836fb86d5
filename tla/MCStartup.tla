----------------------------- MODULE MCStartup -----------------------------
(* Startup on two instances and configurations that differ in the signing   *)
(* key, in the clients they have, in a client's settings and in a secret.   *)
EXTENDS Startup, TLC

CONSTANTS i1, i2, c1, c2, k1, k2

Row(secret, rest) == [secret |-> secret, rest |-> rest]

Before == [key |-> k1, clients |-> (c1 :> Row("s", "x") @@ c2 :> Row("s", "x"))]
After  == [key |-> k2, clients |-> (c1 :> Row("s", "y"))]
Other  == [key |-> k2, clients |-> (c1 :> Row("t", "x"))]

TwoInstances == {i1, i2}
TwoClients   == {c1, c2}
TwoKeys      == {k1, k2}
Rollout      == {Before, After, Other}
=============================================================================
