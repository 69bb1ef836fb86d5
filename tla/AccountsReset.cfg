\* A login that races a password reset outlives the revocation of sessions.
CONSTANTS
    r1 = r1
    r2 = r2
    r3 = r3
    r4 = r4
    Initial = Initial
    Requests <- Four
    Ops <- ResetOps
SPECIFICATION Spec
INVARIANT ResetRevokesSessions
CHECK_DEADLOCK FALSE
