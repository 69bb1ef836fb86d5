\* One user and four requests of any kind.
CONSTANTS
    r1 = r1
    r2 = r2
    r3 = r3
    r4 = r4
    Initial = Initial
    Requests <- Four
    Ops <- Operations
SPECIFICATION Spec
INVARIANTS OnlyRacingLoginsSurvive VersionsReplacedOnce ResetTokenUsedOnce LoginNeedsVerification VerificationIsReported
PROPERTY KeepsPromises
SYMMETRY Symmetric
\* Requests end, and every request may have ended.
CHECK_DEADLOCK FALSE
