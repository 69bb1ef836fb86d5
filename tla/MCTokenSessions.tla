--------------------------- MODULE MCTokenSessions ---------------------------
(* TokenSessions on small instances, for TLC. *)
EXTENDS TokenSessions, TLC

CONSTANTS r1, r2, r3, r4, c1, c2, l1

Three == {r1, r2, r3}
Four == {r1, r2, r3, r4}
OneCode == {c1}
TwoCodes == {c1, c2}
OneLogin == {l1}
SafetyOps == {"exchange", "refresh", "revoke", "terminate", "logout"}
AllOps == {"exchange", "refresh", "revoke", "terminate", "logout", "disable"}
LogoutOps == {"exchange", "logout"}
Symmetric == Permutations(Requests) \cup Permutations(Codes) \cup Permutations(Logins)
=============================================================================
