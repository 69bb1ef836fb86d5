------------------------------ MODULE Captcha ------------------------------
(***************************************************************************)
(* The proof-of-work captcha of security/cap/cap.go.  A challenge is       *)
(* signed and stateless: only Redis knows which were redeemed, by a nonce  *)
(* key that lives for what is left of the challenge, and which             *)
(* verification tokens are out, by a key each.  The clock moves between    *)
(* any two steps, and replies of Redis may be lost.                        *)
(*                                                                         *)
(* Times are ticks, a key exists until its time to live has passed, and    *)
(* the one nonce of a challenge is the challenge.  Whether the solutions   *)
(* are right is a choice.                                                  *)
(***************************************************************************)
EXTENDS Naturals

CONSTANTS
    Challenges,
    Redemptions,   \* requests to redeem
    Tokens,        \* that may be drawn at random
    Scopes,
    NoScope,       \* the empty scope
    ChallengeTTL,
    TokenTTL,
    MaxTries,      \* draws of a token
    MaxTime,       \* bound on the clock
    None

ASSUME ConstantsAssumption ==
    /\ Challenges # {} /\ Redemptions # {} /\ Tokens # {}
    /\ ChallengeTTL \in Nat \ {0}
    /\ TokenTTL \in Nat \ {0}
    /\ MaxTries \in Nat \ {0}
    /\ MaxTime \in Nat \ {0}
    /\ NoScope \in Scopes
    /\ None \notin Challenges \cup Tokens \cup (Redemptions \X Nat)

VARIABLES
    now,
    expires,    \* of a challenge, 0 before it is created
    scope,      \* of a challenge
    nonce,      \* when the nonce key of a challenge expires, 0 if it was never set
    key,        \* of a token: when it expires, its scope and, as history, its issue
    pc,         \* what a redemption does next, or its answer
    of,         \* the challenge it redeems
    remaining,  \* the time to live it computed for the nonce
    drawn,      \* the token it drew
    tries,      \* draws that collided
    issued,     \* history: the issues of tokens, each to a redemption and at a time
    uses        \* history: how often the token of an issue was consumed

challengeVars  == <<expires, scope>>
redis          == <<nonce, key>>
redemptionVars == <<pc, of, remaining, drawn, tries>>
vars == <<now, challengeVars, redis, redemptionVars, issued, uses>>

-----------------------------------------------------------------------------
Steps   == {"prove", "issue"}
Answers == {"ok", "rejected", "refused", "error"}

Issues == Redemptions \X (1 .. MaxTime)

Keys  == [until : Nat, scope : Scopes, by : Issues \cup {None}]
NoKey == [until |-> 0, scope |-> NoScope, by |-> None]

TypeOK ==
    /\ now \in 1 .. MaxTime
    /\ expires \in [Challenges -> Nat]
    /\ scope \in [Challenges -> Scopes]
    /\ nonce \in [Challenges -> Nat]
    /\ key \in [Tokens -> Keys]
    /\ pc \in [Redemptions -> {"idle"} \cup Steps \cup Answers]
    /\ of \in [Redemptions -> Challenges \cup {None}]
    /\ remaining \in [Redemptions -> Nat]
    /\ drawn \in [Redemptions -> Tokens \cup {None}]
    /\ tries \in [Redemptions -> 0 .. MaxTries]
    /\ issued \in SUBSET Issues
    /\ uses \in [Issues -> Nat]

Init ==
    /\ now = 1
    /\ expires = [c \in Challenges |-> 0]
    /\ scope = [c \in Challenges |-> NoScope]
    /\ nonce = [c \in Challenges |-> 0]
    /\ key = [t \in Tokens |-> NoKey]
    /\ pc = [r \in Redemptions |-> "idle"]
    /\ of = [r \in Redemptions |-> None]
    /\ remaining = [r \in Redemptions |-> 0]
    /\ drawn = [r \in Redemptions |-> None]
    /\ tries = [r \in Redemptions |-> 0]
    /\ issued = {}
    /\ uses = [i \in Issues |-> 0]

Tick ==
    /\ now < MaxTime
    /\ now' = now + 1
    /\ UNCHANGED <<challengeVars, redis, redemptionVars, issued, uses>>

Exists(until) == now < until

Goto(r, step) == pc' = [pc EXCEPT ![r] = step]

-----------------------------------------------------------------------------
(* Challenges and their redemption.                                         *)

CreateChallenge(c) ==
    /\ expires[c] = 0
    /\ expires' = [expires EXCEPT ![c] = now + ChallengeTTL]
    /\ \E s \in Scopes : scope' = [scope EXCEPT ![c] = s]
    /\ UNCHANGED <<now, redis, redemptionVars, issued, uses>>

\* verifyChallenge, the expected scope and the solutions.
VerifyChallenge(r) ==
    /\ pc[r] = "idle"
    /\ \E c \in Challenges, expected \in Scopes, right \in BOOLEAN :
         /\ expires[c] # 0
         /\ of' = [of EXCEPT ![r] = c]
         /\ Goto(r, IF expires[c] < now THEN "refused"
                    ELSE IF expected # NoScope /\ scope[c] # expected THEN "rejected"
                    ELSE IF right THEN "prove" ELSE "rejected")
    /\ UNCHANGED <<now, challengeVars, redis, remaining, drawn, tries, issued, uses>>

\* The clock is read again when the solutions have been verified.
TimeLeft(r) ==
    /\ pc[r] = "prove"
    /\ IF expires[of[r]] <= now
       THEN Goto(r, "refused") /\ UNCHANGED <<remaining, drawn>>
       ELSE /\ Goto(r, "issue")
            /\ remaining' = [remaining EXCEPT ![r] = expires[of[r]] - now]
            /\ \E t \in Tokens : drawn' = [drawn EXCEPT ![r] = t]
    /\ UNCHANGED <<now, challengeVars, redis, of, tries, issued, uses>>

\* What issueVerificationScript finds: the nonce is spent, the token is out, or it issues one.
Result(r) ==
    IF Exists(nonce[of[r]]) THEN "spent"
    ELSE IF Exists(key[drawn[r]].until) THEN "collision"
    ELSE "issued"

SetNonce(r, until) == nonce' = [nonce EXCEPT ![of[r]] = until]

SetToken(r) ==
    /\ key' = [key EXCEPT ![drawn[r]] =
                 [until |-> now + TokenTTL, scope |-> scope[of[r]], by |-> <<r, now>>]]
    /\ issued' = issued \cup {<<r, now>>}

\* Mutant: the nonce key lives as long as a token.
SpendForTokenTTL(r) ==
    IF Result(r) = "issued" THEN SetNonce(r, now + TokenTTL) /\ SetToken(r)
    ELSE UNCHANGED <<redis, issued>>

\* Mutant: the nonce is set before it is known whether the token is free.
SpendFirst(r) ==
    /\ IF Result(r) = "issued" THEN SetToken(r) ELSE UNCHANGED <<key, issued>>
    /\ IF Result(r) = "spent" THEN UNCHANGED nonce ELSE SetNonce(r, now + remaining[r])

\* Mutant: a token that is out is issued again.
IssueTwice(r) ==
    IF Result(r) = "spent" THEN UNCHANGED <<redis, issued>>
    ELSE SetNonce(r, now + remaining[r]) /\ SetToken(r)

\* issueVerificationScript
IssueScript(r) ==
    IF Result(r) = "issued" THEN SetNonce(r, now + remaining[r]) /\ SetToken(r)
    ELSE UNCHANGED <<redis, issued>>

\* The reply of the script comes back: another token is drawn when this one is out.
Issue(r) ==
    /\ pc[r] = "issue"
    /\ IssueScript(r)
    /\ IF Result(r) # "collision"
       THEN /\ Goto(r, IF Result(r) = "issued" THEN "ok" ELSE "refused")
            /\ UNCHANGED <<drawn, tries>>
       ELSE /\ tries' = [tries EXCEPT ![r] = @ + 1]
            /\ IF tries[r] + 1 = MaxTries THEN Goto(r, "error") /\ UNCHANGED drawn
               ELSE /\ \E t \in Tokens : drawn' = [drawn EXCEPT ![r] = t]
                    /\ UNCHANGED pc
    /\ UNCHANGED <<now, challengeVars, of, remaining, uses>>

\* The script runs and the reply is lost: the Redis client runs it again or gives up.
LoseReply(r) ==
    /\ pc[r] = "issue"
    /\ IssueScript(r)
    /\ \E step \in {"issue", "error"} : Goto(r, step)
    /\ UNCHANGED <<now, challengeVars, of, remaining, drawn, tries, uses>>

\* Redis is not reached.
Fail(r) ==
    /\ pc[r] = "issue"
    /\ Goto(r, "error")
    /\ UNCHANGED <<now, challengeVars, redis, of, remaining, drawn, tries, issued, uses>>

-----------------------------------------------------------------------------
(* Tokens.                                                                  *)

\* Mutant: the token stays.
Keep(t) ==
    /\ Exists(key[t].until)
    /\ uses' = [uses EXCEPT ![key[t].by] = @ + 1]
    /\ UNCHANGED <<now, challengeVars, redis, redemptionVars, issued>>

\* The reply may be lost: the token is consumed all the same.
Consume(t) ==
    /\ Exists(key[t].until)
    /\ key' = [key EXCEPT ![t] = NoKey]
    /\ uses' = [uses EXCEPT ![key[t].by] = @ + 1]
    /\ UNCHANGED <<now, challengeVars, nonce, redemptionVars, issued>>

ValidateToken(t) == Consume(t)

\* A token of another scope is left as it is.
ValidateTokenWithScope(t, expected) == key[t].scope = expected /\ Consume(t)

-----------------------------------------------------------------------------
Next ==
    \/ Tick
    \/ \E c \in Challenges : CreateChallenge(c)
    \/ \E r \in Redemptions :
         \/ VerifyChallenge(r)
         \/ TimeLeft(r)
         \/ Issue(r)
         \/ LoseReply(r)
         \/ Fail(r)
    \/ \E t \in Tokens :
         \/ ValidateToken(t)
         \/ \E expected \in Scopes : ValidateTokenWithScope(t, expected)

Spec == Init /\ [][Next]_vars

-----------------------------------------------------------------------------
(* Properties.                                                              *)

\* Two tokens for one challenge.
Replay(i, j) == i \in issued /\ j \in issued /\ i # j /\ of[i[1]] = of[j[1]]

\* RedeemChallengeWithScope: until it expires, a challenge is worth one token, however many
\* redemptions of it run at once and whatever the delay between their reading the clock and
\* their script, and a token is good for one validation.
OneUseWhileValid ==
    /\ \A i \in Issues : uses[i] <= 1
    /\ \A i, j \in issued : Replay(i, j) => expires[of[i[1]]] <= now

\* A second token for one challenge takes a redemption that found time left and whose script
\* then ran after the challenge had expired, later by at least the delay of the first one's.
ReplayIsLate ==
    \A i, j \in issued : Replay(i, j) /\ i[2] <= j[2] => j[2] >= i[2] + remaining[i[1]]

\* A proof is refused only because its challenge has expired or a token was issued for it:
\* a draw that collides does not cost the client its challenge.
RefusedForAReason ==
    \A r \in Redemptions : pc[r] = "refused" =>
        \/ expires[of[r]] <= now
        \/ \E i \in issued : of[i[1]] = of[r]

\* A token that was issued can be used, with the scope of its challenge, until its time has
\* passed, and no other redemption is given the same one meanwhile.
TokensAreHonoured ==
    \A i \in issued : uses[i] = 0 /\ now < i[2] + TokenTTL =>
        \E t \in Tokens :
            /\ key[t].by = i
            /\ Exists(key[t].until)
            /\ key[t].scope = scope[of[i[1]]]
            /\ pc[i[1]] = "ok" /\ (\A j \in issued : j[1] = i[1] => j = i) => drawn[i[1]] = t

-----------------------------------------------------------------------------
(* What makes the invariants inductive.                                     *)

\* The nonce key outlives the challenge once a token was issued for it.
NonceInv ==
    /\ \A c \in Challenges : nonce[c] # 0 =>
         /\ expires[c] # 0
         /\ expires[c] <= nonce[c]
         /\ \E i \in issued : of[i[1]] = c
    /\ \A i \in issued :
         /\ i[2] <= now
         /\ of[i[1]] \in Challenges
         /\ remaining[i[1]] # 0
         /\ expires[of[i[1]]] <= i[2] + remaining[i[1]]
         /\ i[2] + remaining[i[1]] <= nonce[of[i[1]]]

\* Where a redemption is, and that it read a clock that has not gone back.
FlowInv ==
    \A r \in Redemptions :
        /\ pc[r] # "idle" => of[r] \in Challenges /\ expires[of[r]] # 0
        /\ pc[r] = "issue" =>
             /\ drawn[r] \in Tokens
             /\ remaining[r] # 0
             /\ expires[of[r]] <= now + remaining[r]
        /\ pc[r] \in {"idle", "prove", "issue"} => tries[r] < MaxTries
        /\ pc[r] \in {"idle", "prove", "rejected"} => \A i \in issued : i[1] # r

\* A token that is out is that of one issue, which was not used.
KeyInv ==
    /\ \A t \in Tokens : key[t].by # None =>
         /\ key[t].by \in issued
         /\ uses[key[t].by] = 0
         /\ key[t].until = key[t].by[2] + TokenTTL
         /\ key[t].scope = scope[of[key[t].by[1]]]
         /\ \A u \in Tokens : key[u].by = key[t].by => u = t
    /\ \A t \in Tokens : key[t].by = None => key[t].until = 0
    /\ \A i \in Issues \ issued : uses[i] = 0

IInv ==
    /\ TypeOK
    /\ NonceInv
    /\ FlowInv
    /\ KeyInv
    /\ OneUseWhileValid
    /\ ReplayIsLate
    /\ RefusedForAReason
    /\ TokensAreHonoured
=============================================================================
