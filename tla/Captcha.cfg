CONSTANTS
    c1 = c1
    c2 = c2
    r1 = r1
    r2 = r2
    t1 = t1
    t2 = t2
    s1 = s1
    noScope = noScope
    none = none
    Challenges <- TwoChallenges
    Redemptions <- TwoRedemptions
    Tokens <- TwoTokens
    Scopes <- TwoScopes
    NoScope <- noScope
    None <- none
    ChallengeTTL = 2
    TokenTTL = 1
    MaxTries = 2
    MaxTime = 4
SPECIFICATION Spec
SYMMETRY Symmetry
CHECK_DEADLOCK FALSE
INVARIANTS OneUseWhileValid ReplayIsLate RefusedForAReason TokensAreHonoured
