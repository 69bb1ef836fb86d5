\* Two codes and their token sessions under four concurrent requests: safety.
CONSTANTS
    r1 = r1
    r2 = r2
    r3 = r3
    r4 = r4
    c1 = c1
    c2 = c2
    l1 = l1
    None = None
    Requests <- Four
    Codes <- TwoCodes
    Logins <- OneLogin
    Ops <- SafetyOps
SPECIFICATION Spec
INVARIANTS OneLiveRefreshPerSession RevokedSessionIsDead RotationIsAChain ReplayRevokesFamily RevocationIsComplete RevocationHasCause OnlyMultiRevocationsDeadlock
PROPERTIES IsTokenFamilies
SYMMETRY Symmetric
\* Requests end, and every request may have ended.
CHECK_DEADLOCK FALSE
