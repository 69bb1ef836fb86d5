\* Requests under fair scheduling end.
CONSTANTS
    r1 = r1
    r2 = r2
    r3 = r3
    r4 = r4
    c1 = c1
    c2 = c2
    l1 = l1
    None = None
    Requests <- Three
    Codes <- OneCode
    Logins <- OneLogin
    Ops <- AllOps
SPECIFICATION FairSpec
PROPERTIES RequestsEnd
\* Requests end, and every request may have ended.
CHECK_DEADLOCK FALSE
