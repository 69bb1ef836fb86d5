----------------------------- MODULE MCCaptcha -----------------------------
(* Two redemptions of two challenges, with two tokens to draw.            *)
EXTENDS Captcha, TLC

CONSTANTS c1, c2, r1, r2, t1, t2, s1, noScope, none

TwoChallenges == {c1, c2}
TwoRedemptions == {r1, r2}
TwoTokens == {t1, t2}
TwoScopes == {s1, noScope}

Symmetry ==
    Permutations(TwoChallenges) \cup Permutations(TwoRedemptions) \cup Permutations(TwoTokens)
=============================================================================
