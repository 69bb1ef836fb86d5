\* One User and three requests of any kind, enough for an undelete that loses every attempt.
CONSTANTS
    r1 = r1
    r2 = r2
    r3 = r3
    Initial = Initial
    None = None
    Requests <- Three
    MaxAttempts = 2
SPECIFICATION Spec
INVARIANTS NoLostUpdate AnswersHold RefusalsWroteNothing ConflictsAreReal
PROPERTY IsVersionedResource
SYMMETRY Symmetric
\* Requests end, and every request may have ended.
CHECK_DEADLOCK FALSE
