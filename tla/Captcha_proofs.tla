--------------------------- MODULE Captcha_proofs ---------------------------
(***************************************************************************)
(* Proofs about the proof-of-work captcha, for any numbers of challenges,  *)
(* redemptions and tokens, and any times to live.                          *)
(***************************************************************************)
EXTENDS Captcha, TLAPS

\* The script runs, whether or not its reply comes back.
Answering(r) == Issue(r) \/ LoseReply(r)

-----------------------------------------------------------------------------
(* What issueVerificationScript does.                                       *)

\* A token is issued only when the nonce key and the key of the token are gone, so it is a new
\* issue; otherwise Redis is left as it is.
LEMMA ScriptFacts ==
    ASSUME TypeOK, NonceInv, FlowInv, KeyInv, NEW r \in Redemptions, Answering(r)
    PROVE  /\ of[r] \in Challenges /\ drawn[r] \in Tokens
           /\ expires[of[r]] # 0 /\ expires[of[r]] <= now + remaining[r]
           /\ remaining[r] \in Nat /\ remaining[r] # 0
           /\ IF Result(r) = "issued"
              THEN /\ nonce[of[r]] <= now
                   /\ key[drawn[r]].until <= now
                   /\ <<r, now>> \in Issues \ issued
                   /\ uses[<<r, now>>] = 0
                   /\ issued' = issued \cup {<<r, now>>}
                   /\ nonce' = [nonce EXCEPT ![of[r]] = now + remaining[r]]
                   /\ key' = [key EXCEPT ![drawn[r]] =
                        [until |-> now + TokenTTL, scope |-> scope[of[r]], by |-> <<r, now>>]]
              ELSE UNCHANGED <<nonce, key, issued>>
<1>1. pc[r] = "issue" /\ IssueScript(r)
  BY DEF Answering, Issue, LoseReply
<1>2. /\ of[r] \in Challenges /\ drawn[r] \in Tokens
      /\ expires[of[r]] # 0 /\ expires[of[r]] <= now + remaining[r]
      /\ remaining[r] \in Nat /\ remaining[r] # 0
  BY <1>1 DEF FlowInv, TypeOK
<1>3. CASE Result(r) = "issued"
  <2>1. ~(now < nonce[of[r]]) /\ ~(now < key[drawn[r]].until)
    BY <1>3 DEF Result, Exists
  <2>2. nonce[of[r]] \in Nat /\ now \in 1 .. MaxTime /\ key[drawn[r]].until \in Nat
    BY <1>2 DEF TypeOK, Keys
  <2>3. nonce[of[r]] <= now /\ key[drawn[r]].until <= now
    BY <2>1, <2>2, ConstantsAssumption
  <2>4. <<r, now>> \in Issues
    BY <2>2 DEF Issues
  <2>5. <<r, now>> \notin issued
    <3> SUFFICES ASSUME <<r, now>> \in issued PROVE FALSE
      OBVIOUS
    <3>1. now + remaining[r] <= nonce[of[r]]
      BY DEF NonceInv
    <3> QED BY <1>2, <2>2, <2>3, <3>1, ConstantsAssumption
  <2>6. uses[<<r, now>>] = 0
    BY <2>4, <2>5 DEF KeyInv
  <2> QED BY <1>1, <1>2, <1>3, <2>3, <2>4, <2>5, <2>6 DEF IssueScript, SetNonce, SetToken
<1>4. CASE Result(r) # "issued"
  BY <1>1, <1>2, <1>4 DEF IssueScript, redis
<1> QED BY <1>3, <1>4

\* What running the script leaves as it is, and how the redemption goes on.
LEMMA AnsweringFrame ==
    ASSUME TypeOK, FlowInv, NEW r \in Redemptions, Answering(r)
    PROVE  /\ UNCHANGED <<now, expires, scope, of, remaining, uses>>
           /\ \A q \in Redemptions \ {r} : pc'[q] = pc[q] /\ drawn'[q] = drawn[q] /\ tries'[q] = tries[q]
           /\ pc[r] = "issue"
           /\ pc'[r] \in {"issue", "ok", "refused", "error"}
           /\ pc'[r] = "ok" => Result(r) = "issued" /\ drawn'[r] = drawn[r]
           /\ pc'[r] = "refused" => Result(r) = "spent"
           /\ drawn'[r] \in Tokens
           /\ pc'[r] = "issue" => tries'[r] < MaxTries
           /\ tries' \in [Redemptions -> 0 .. MaxTries]
           /\ drawn' \in [Redemptions -> Tokens \cup {None}]
           /\ pc' \in [Redemptions -> {"idle"} \cup Steps \cup Answers]
<1> USE DEF Goto, challengeVars, Steps, Answers
<1>1. pc[r] = "issue" /\ UNCHANGED <<now, expires, scope, of, remaining, uses>>
  BY DEF Answering, Issue, LoseReply
<1>2. drawn[r] \in Tokens /\ tries[r] < MaxTries /\ tries[r] \in Nat
  BY <1>1 DEF FlowInv, TypeOK
<1>3. Result(r) \in {"spent", "collision", "issued"}
  BY DEF Result
<1>4. CASE LoseReply(r)
  <2>1. PICK step \in {"issue", "error"} : pc' = [pc EXCEPT ![r] = step]
    BY <1>4 DEF LoseReply
  <2>2. UNCHANGED <<drawn, tries>>
    BY <1>4 DEF LoseReply
  <2> QED BY <1>1, <1>2, <2>1, <2>2 DEF TypeOK
<1>5. CASE Issue(r) /\ Result(r) # "collision"
  <2>1. /\ pc' = [pc EXCEPT ![r] = IF Result(r) = "issued" THEN "ok" ELSE "refused"]
        /\ UNCHANGED <<drawn, tries>>
    BY <1>5 DEF Issue
  <2> QED BY <1>1, <1>2, <1>3, <1>5, <2>1 DEF TypeOK
<1>6. CASE Issue(r) /\ Result(r) = "collision" /\ tries[r] + 1 = MaxTries
  <2>1. tries' = [tries EXCEPT ![r] = tries[r] + 1] /\ pc' = [pc EXCEPT ![r] = "error"] /\ drawn' = drawn
    BY <1>6 DEF Issue
  <2> QED BY <1>1, <1>2, <1>6, <2>1, ConstantsAssumption DEF TypeOK
<1>7. CASE Issue(r) /\ Result(r) = "collision" /\ tries[r] + 1 # MaxTries
  <2>1. /\ tries' = [tries EXCEPT ![r] = tries[r] + 1] /\ pc' = pc
        /\ \E t \in Tokens : drawn' = [drawn EXCEPT ![r] = t]
    BY <1>7 DEF Issue
  <2>2. tries[r] + 1 < MaxTries
    BY <1>2, <1>7, ConstantsAssumption
  <2> QED BY <1>1, <1>2, <1>7, <2>1, <2>2, ConstantsAssumption DEF TypeOK
<1> QED BY <1>4, <1>5, <1>6, <1>7 DEF Answering

\* What consuming a token does.
LEMMA ConsumeFacts ==
    ASSUME TypeOK, KeyInv, NEW t \in Tokens, Consume(t)
    PROVE  /\ key[t].by \in issued
           /\ key[t].by \in Issues
           /\ uses[key[t].by] = 0
           /\ key' = [key EXCEPT ![t] = NoKey]
           /\ uses' = [uses EXCEPT ![key[t].by] = 1]
           /\ \A u \in Tokens \ {t} : key[u].by # key[t].by
           /\ UNCHANGED <<now, expires, scope, nonce, pc, of, remaining, drawn, tries, issued>>
<1>1. Exists(key[t].until) /\ now \in Nat
  BY DEF Consume, TypeOK
<1>2. key[t].until # 0
  BY <1>1 DEF Exists
<1>3. key[t].by # None
  BY <1>2 DEF KeyInv
<1>4. key[t].by \in issued /\ uses[key[t].by] = 0
  BY <1>3 DEF KeyInv
<1>5. key[t].by \in Issues
  BY <1>4 DEF TypeOK
<1>6. \A u \in Tokens \ {t} : key[u].by # key[t].by
  BY <1>3 DEF KeyInv
<1>7. /\ key' = [key EXCEPT ![t] = NoKey]
      /\ uses' = [uses EXCEPT ![key[t].by] = uses[key[t].by] + 1]
      /\ UNCHANGED <<now, expires, scope, nonce, pc, of, remaining, drawn, tries, issued>>
  BY DEF Consume, challengeVars, redemptionVars
<1>8. uses' = [uses EXCEPT ![key[t].by] = 1]
  BY <1>4, <1>7
<1> QED BY <1>4, <1>5, <1>6, <1>7, <1>8

\* The steps there are.
Moves(r, c, t) ==
    Tick \/ CreateChallenge(c) \/ VerifyChallenge(r) \/ TimeLeft(r) \/ Answering(r) \/ Fail(r) \/ Consume(t)

-----------------------------------------------------------------------------
(* Type correctness.                                                        *)

LEMMA TypeStep ==
    ASSUME TypeOK, NonceInv, FlowInv, KeyInv, NEW r \in Redemptions, NEW c \in Challenges,
           NEW t \in Tokens, Moves(r, c, t)
    PROVE  TypeOK'
<1> USE DEF Goto, challengeVars, redis, redemptionVars
<1>1. CASE Tick
  BY <1>1, ConstantsAssumption DEF Tick, TypeOK
<1>2. CASE CreateChallenge(c)
  BY <1>2, ConstantsAssumption DEF CreateChallenge, TypeOK
<1>3. CASE VerifyChallenge(r)
  <2>1. PICK d \in Challenges : of' = [of EXCEPT ![r] = d]
    BY <1>3 DEF VerifyChallenge
  <2>2. \E step \in {"prove", "rejected", "refused"} : pc' = [pc EXCEPT ![r] = step]
    BY <1>3 DEF VerifyChallenge
  <2> QED BY <1>3, <2>1, <2>2 DEF VerifyChallenge, TypeOK, Steps, Answers
<1>4. CASE TimeLeft(r)
  <2>1. of[r] \in Challenges
    BY <1>4 DEF TimeLeft, FlowInv
  <2>2. CASE expires[of[r]] <= now
    BY <1>4, <2>2 DEF TimeLeft, TypeOK, Answers
  <2>3. CASE ~(expires[of[r]] <= now)
    <3>1. expires[of[r]] - now \in Nat
      BY <2>1, <2>3, ConstantsAssumption DEF TypeOK
    <3>2. /\ pc' = [pc EXCEPT ![r] = "issue"]
          /\ remaining' = [remaining EXCEPT ![r] = expires[of[r]] - now]
          /\ \E u \in Tokens : drawn' = [drawn EXCEPT ![r] = u]
          /\ UNCHANGED <<now, expires, scope, nonce, key, of, tries, issued, uses>>
      BY <1>4, <2>3 DEF TimeLeft
    <3> QED BY <3>1, <3>2 DEF TypeOK, Steps
  <2> QED BY <2>2, <2>3
<1>5. CASE Answering(r)
  <2>1. nonce' \in [Challenges -> Nat] /\ issued' \in SUBSET Issues
    <3>1. now + remaining[r] \in Nat
      BY ConstantsAssumption DEF TypeOK
    <3>2. CASE Result(r) = "issued"
      <4>1. /\ nonce' = [nonce EXCEPT ![of[r]] = now + remaining[r]]
            /\ issued' = issued \cup {<<r, now>>} /\ <<r, now>> \in Issues
        BY <1>5, <3>2, ScriptFacts
      <4> QED BY <3>1, <4>1 DEF TypeOK
    <3>3. CASE Result(r) # "issued"
      BY <1>5, <3>3, ScriptFacts DEF TypeOK
    <3> QED BY <3>2, <3>3
  <2>2. key' \in [Tokens -> Keys]
    <3>1. CASE Result(r) = "issued"
      <4>1. [until |-> now + TokenTTL, scope |-> scope[of[r]], by |-> <<r, now>>] \in Keys
        BY <1>5, <3>1, ScriptFacts, ConstantsAssumption DEF Keys, TypeOK
      <4> QED BY <1>5, <3>1, <4>1, ScriptFacts DEF TypeOK
    <3>2. CASE Result(r) # "issued"
      BY <1>5, <3>2, ScriptFacts DEF TypeOK
    <3> QED BY <3>1, <3>2
  <2> QED BY <1>5, <2>1, <2>2, AnsweringFrame DEF TypeOK
<1>6. CASE Fail(r)
  BY <1>6 DEF Fail, TypeOK, Answers
<1>7. CASE Consume(t)
  <2>1. NoKey \in Keys
    BY ConstantsAssumption DEF NoKey, Keys
  <2> QED BY <1>7, <2>1, ConsumeFacts DEF TypeOK
<1> QED BY <1>1, <1>2, <1>3, <1>4, <1>5, <1>6, <1>7 DEF Moves

-----------------------------------------------------------------------------
(* Where a redemption is.                                                   *)

LEMMA FlowStep ==
    ASSUME TypeOK, NonceInv, FlowInv, KeyInv, NEW r \in Redemptions, NEW c \in Challenges,
           NEW t \in Tokens, Moves(r, c, t)
    PROVE  FlowInv'
<1> USE DEF Goto, challengeVars, redis, redemptionVars
<1>1. CASE Tick
  <2>1. now' = now + 1 /\ UNCHANGED <<expires, pc, of, remaining, drawn, tries, issued>>
    BY <1>1 DEF Tick
  <2>2. \A q \in Redemptions : of[q] \in Challenges => expires[of[q]] \in Nat
    BY DEF TypeOK
  <2>3. now \in Nat /\ \A q \in Redemptions : remaining[q] \in Nat
    BY DEF TypeOK
  <2>4. ASSUME NEW q \in Redemptions, pc[q] = "issue" PROVE expires[of[q]] <= now' + remaining[q]
    <3>1. expires[of[q]] <= now + remaining[q] /\ of[q] \in Challenges
      BY <2>4 DEF FlowInv
    <3> QED BY <2>1, <2>2, <2>3, <3>1
  <2> QED BY <2>1, <2>4 DEF FlowInv
<1>2. CASE CreateChallenge(c)
  <2>1. /\ expires' = [expires EXCEPT ![c] = now + ChallengeTTL] /\ expires[c] = 0
        /\ UNCHANGED <<now, pc, of, remaining, drawn, tries, issued>>
    BY <1>2 DEF CreateChallenge
  <2>2. \A q \in Redemptions : pc[q] # "idle" => expires'[of[q]] = expires[of[q]]
    BY <2>1 DEF FlowInv, TypeOK
  <2> QED BY <2>1, <2>2 DEF FlowInv
<1>3. CASE VerifyChallenge(r)
  <2>1. PICK d \in Challenges : of' = [of EXCEPT ![r] = d] /\ expires[d] # 0
    BY <1>3 DEF VerifyChallenge
  <2>2. \E step \in {"prove", "rejected", "refused"} : pc' = [pc EXCEPT ![r] = step]
    BY <1>3 DEF VerifyChallenge
  <2>3. pc[r] = "idle" /\ UNCHANGED <<now, expires, remaining, drawn, tries, issued>>
    BY <1>3 DEF VerifyChallenge
  <2> QED BY <2>1, <2>2, <2>3 DEF FlowInv, TypeOK
<1>4. CASE TimeLeft(r)
  <2>1. of[r] \in Challenges /\ pc[r] = "prove" /\ expires[of[r]] # 0
    BY <1>4 DEF TimeLeft, FlowInv
  <2>2. CASE expires[of[r]] <= now
    BY <1>4, <2>1, <2>2 DEF TimeLeft, TypeOK, FlowInv
  <2>3. CASE ~(expires[of[r]] <= now)
    <3>1. /\ expires[of[r]] - now \in Nat \ {0}
          /\ expires[of[r]] <= now + (expires[of[r]] - now)
      BY <2>1, <2>3, ConstantsAssumption DEF TypeOK
    <3>2. /\ pc' = [pc EXCEPT ![r] = "issue"]
          /\ remaining' = [remaining EXCEPT ![r] = expires[of[r]] - now]
          /\ \E u \in Tokens : drawn' = [drawn EXCEPT ![r] = u]
          /\ UNCHANGED <<now, expires, of, tries, issued>>
      BY <1>4, <2>3 DEF TimeLeft
    <3>3. tries[r] < MaxTries
      BY <2>1 DEF FlowInv
    <3> QED BY <2>1, <3>1, <3>2, <3>3 DEF FlowInv, TypeOK
  <2> QED BY <2>2, <2>3
<1>5. CASE Answering(r)
  <2>1. issued' \subseteq issued \cup {<<r, now>>}
    BY <1>5, ScriptFacts
  <2>2. pc'[r] \notin {"idle", "prove", "rejected"}
    BY <1>5, AnsweringFrame
  <2> QED BY <1>5, <2>1, <2>2, AnsweringFrame, ScriptFacts DEF FlowInv
<1>6. CASE Fail(r)
  BY <1>6 DEF Fail, TypeOK, FlowInv
<1>7. CASE Consume(t)
  BY <1>7, ConsumeFacts DEF FlowInv
<1> QED BY <1>1, <1>2, <1>3, <1>4, <1>5, <1>6, <1>7 DEF Moves

-----------------------------------------------------------------------------
(* Nonces, keys and the properties.                                         *)

LEMMA NonceStep ==
    ASSUME TypeOK, NonceInv, FlowInv, KeyInv, NEW r \in Redemptions, NEW c \in Challenges,
           NEW t \in Tokens, Moves(r, c, t)
    PROVE  NonceInv'
<1> USE DEF Goto, challengeVars, redis, redemptionVars
<1>1. CASE Tick
  <2>1. now' = now + 1 /\ UNCHANGED <<expires, nonce, of, remaining, issued>>
    BY <1>1 DEF Tick
  <2>2. \A i \in issued : i[2] <= now /\ i[2] \in Nat /\ now \in Nat
    BY DEF NonceInv, TypeOK, Issues
  <2>3. \A i \in issued : i[2] <= now'
    BY <2>1, <2>2
  <2> QED BY <2>1, <2>3 DEF NonceInv
<1>2. CASE CreateChallenge(c)
  <2>1. /\ expires' = [expires EXCEPT ![c] = now + ChallengeTTL] /\ expires[c] = 0
        /\ UNCHANGED <<now, nonce, of, remaining, issued>>
    BY <1>2 DEF CreateChallenge
  <2>2. nonce[c] = 0
    BY <2>1 DEF NonceInv
  <2>3. \A i \in issued : of[i[1]] # c
    BY <2>1 DEF NonceInv, FlowInv, TypeOK, Issues
  <2>4. \A d \in Challenges \ {c} : expires'[d] = expires[d]
    BY <2>1 DEF TypeOK
  <2> QED BY <2>1, <2>2, <2>3, <2>4 DEF NonceInv
<1>3. CASE VerifyChallenge(r)
  <2>1. PICK d \in Challenges : of' = [of EXCEPT ![r] = d]
    BY <1>3 DEF VerifyChallenge
  <2>2. pc[r] = "idle" /\ UNCHANGED <<now, expires, nonce, remaining, issued>>
    BY <1>3 DEF VerifyChallenge
  <2>3. \A i \in issued : of'[i[1]] = of[i[1]]
    BY <2>1, <2>2 DEF FlowInv, TypeOK
  <2> QED BY <2>2, <2>3 DEF NonceInv
<1>4. CASE TimeLeft(r)
  <2>1. /\ pc[r] = "prove" /\ UNCHANGED <<now, expires, nonce, of, issued>>
        /\ \A q \in Redemptions \ {r} : remaining'[q] = remaining[q]
    BY <1>4 DEF TimeLeft, TypeOK
  <2>2. \A i \in issued : remaining'[i[1]] = remaining[i[1]]
    BY <2>1 DEF FlowInv, TypeOK, Issues
  <2> QED BY <2>1, <2>2 DEF NonceInv
<1>5. CASE Answering(r)
  <2>1. UNCHANGED <<now, expires, of, remaining>>
    BY <1>5, AnsweringFrame
  <2>2. CASE Result(r) # "issued"
    BY <1>5, <2>1, <2>2, ScriptFacts DEF NonceInv
  <2>3. CASE Result(r) = "issued"
    <3> DEFINE new == <<r, now>>
    <3>1. /\ of[r] \in Challenges /\ expires[of[r]] # 0 /\ expires[of[r]] <= now + remaining[r]
          /\ remaining[r] # 0 /\ nonce[of[r]] <= now
          /\ issued' = issued \cup {new}
          /\ nonce' = [nonce EXCEPT ![of[r]] = now + remaining[r]]
      BY <1>5, <2>3, ScriptFacts
    <3>2. /\ now \in Nat /\ \A q \in Redemptions : remaining[q] \in Nat
          /\ \A d \in Challenges : nonce[d] \in Nat /\ expires[d] \in Nat
      BY DEF TypeOK
    <3>3. nonce'[of[r]] = now + remaining[r] /\ \A d \in Challenges \ {of[r]} : nonce'[d] = nonce[d]
      BY <3>1 DEF TypeOK
    <3>4. \A d \in Challenges : nonce'[d] # 0 =>
             /\ expires[d] # 0 /\ expires[d] <= nonce'[d] /\ \E i \in issued' : of[i[1]] = d
      <4>1. new[1] = r /\ new \in issued'
        BY <3>1
      <4> HIDE DEF new
      <4> QED BY <3>1, <3>3, <4>1 DEF NonceInv
    <3>5. ASSUME NEW i \in issued
          PROVE  i[2] + remaining[i[1]] <= nonce'[of[i[1]]]
      <4>1. /\ of[i[1]] \in Challenges /\ i[2] + remaining[i[1]] <= nonce[of[i[1]]]
            /\ i[1] \in Redemptions /\ i[2] \in Nat
        BY DEF NonceInv, TypeOK, Issues
      <4> QED BY <3>1, <3>2, <3>3, <4>1
    <3>6. /\ new[1] = r /\ new[2] = now
      OBVIOUS
    <3>7. \A i \in issued' :
             /\ i[2] <= now
             /\ of[i[1]] \in Challenges
             /\ remaining[i[1]] # 0
             /\ expires[of[i[1]]] <= i[2] + remaining[i[1]]
             /\ i[2] + remaining[i[1]] <= nonce'[of[i[1]]]
      <4>1. now <= now /\ now + remaining[r] <= now + remaining[r]
        BY <3>2
      <4> HIDE DEF new
      <4> QED BY <3>1, <3>3, <3>5, <3>6, <4>1 DEF NonceInv
    <3> QED BY <2>1, <3>4, <3>7 DEF NonceInv
  <2> QED BY <2>2, <2>3
<1>6. CASE Fail(r)
  BY <1>6 DEF Fail, NonceInv
<1>7. CASE Consume(t)
  BY <1>7, ConsumeFacts DEF NonceInv
<1> QED BY <1>1, <1>2, <1>3, <1>4, <1>5, <1>6, <1>7 DEF Moves

\* The challenge of an issue, and its scope, stay what they are.
LEMMA IssueFrame ==
    ASSUME TypeOK, NonceInv, FlowInv, KeyInv, NEW r \in Redemptions, NEW c \in Challenges,
           NEW t \in Tokens, Moves(r, c, t), NEW i \in issued
    PROVE  /\ of'[i[1]] = of[i[1]]
           /\ expires'[of[i[1]]] = expires[of[i[1]]]
           /\ scope'[of[i[1]]] = scope[of[i[1]]]
           /\ remaining'[i[1]] = remaining[i[1]]
<1> USE DEF Goto, challengeVars, redis, redemptionVars
<1>1. i[1] \in Redemptions /\ pc[i[1]] \notin {"idle", "prove", "rejected"}
  BY DEF FlowInv, TypeOK, Issues
<1>2. of[i[1]] \in Challenges /\ expires[of[i[1]]] # 0
  BY <1>1 DEF FlowInv
<1>3. CASE CreateChallenge(c)
  <2>1. /\ expires[c] = 0 /\ UNCHANGED <<of, remaining>>
        /\ \A d \in Challenges \ {c} : expires'[d] = expires[d] /\ scope'[d] = scope[d]
    BY <1>3 DEF CreateChallenge, TypeOK
  <2> QED BY <1>2, <2>1
<1>4. CASE VerifyChallenge(r)
  <2>1. /\ pc[r] = "idle" /\ UNCHANGED <<expires, scope, remaining>>
        /\ \A q \in Redemptions \ {r} : of'[q] = of[q]
    BY <1>4 DEF VerifyChallenge, TypeOK
  <2> QED BY <1>1, <2>1
<1>5. CASE TimeLeft(r)
  <2>1. /\ pc[r] = "prove" /\ UNCHANGED <<expires, scope, of>>
        /\ \A q \in Redemptions \ {r} : remaining'[q] = remaining[q]
    BY <1>5 DEF TimeLeft, TypeOK
  <2> QED BY <1>1, <2>1
<1>6. CASE Answering(r)
  BY <1>6, AnsweringFrame
<1>7. CASE Tick \/ Fail(r)
  BY <1>7 DEF Tick, Fail
<1>8. CASE Consume(t)
  BY <1>8, ConsumeFacts
<1> QED BY <1>3, <1>4, <1>5, <1>6, <1>7, <1>8 DEF Moves

LEMMA KeyStep ==
    ASSUME TypeOK, NonceInv, FlowInv, KeyInv, NEW r \in Redemptions, NEW c \in Challenges,
           NEW t \in Tokens, Moves(r, c, t)
    PROVE  KeyInv'
<1> USE DEF Goto, challengeVars, redis, redemptionVars
<1>1. CASE Tick \/ CreateChallenge(c) \/ VerifyChallenge(r) \/ TimeLeft(r) \/ Fail(r)
  <2>1. UNCHANGED <<key, issued, uses>>
    BY <1>1 DEF Tick, CreateChallenge, VerifyChallenge, TimeLeft, Fail
  <2>2. \A i \in issued : scope'[of'[i[1]]] = scope[of[i[1]]]
    BY IssueFrame
  <2> QED BY <2>1, <2>2 DEF KeyInv
<1>2. CASE Answering(r)
  <2>1. UNCHANGED <<scope, of, uses>>
    BY <1>2, AnsweringFrame
  <2>2. CASE Result(r) # "issued"
    <3>1. UNCHANGED <<key, issued>>
      BY <1>2, <2>2, ScriptFacts
    <3> QED BY <2>1, <3>1 DEF KeyInv
  <2>3. CASE Result(r) = "issued"
    <3> DEFINE new == <<r, now>>
               mine == [until |-> now + TokenTTL, scope |-> scope[of[r]], by |-> new]
    <3>1. /\ drawn[r] \in Tokens /\ new \notin issued /\ new \in Issues /\ uses[new] = 0
          /\ issued' = issued \cup {new}
          /\ key' = [key EXCEPT ![drawn[r]] = mine]
      BY <1>2, <2>3, ScriptFacts
    <3>2. /\ mine.by = new /\ mine.until = new[2] + TokenTTL /\ mine.scope = scope[of[new[1]]]
          /\ new # None
      BY <3>1, ConstantsAssumption DEF Issues
    <3>3. key'[drawn[r]] = mine /\ \A u \in Tokens \ {drawn[r]} : key'[u] = key[u]
      BY <3>1 DEF TypeOK
    <3>4. \A u \in Tokens \ {drawn[r]} : key'[u].by # new
      BY <3>1, <3>2, <3>3 DEF KeyInv
    <3> HIDE DEF new, mine
    <3>5. ASSUME NEW u \in Tokens, key'[u].by # None
          PROVE  /\ key'[u].by \in issued'
                 /\ uses[key'[u].by] = 0
                 /\ key'[u].until = key'[u].by[2] + TokenTTL
                 /\ key'[u].scope = scope[of[key'[u].by[1]]]
                 /\ \A v \in Tokens : key'[v].by = key'[u].by => v = u
      <4>1. CASE u = drawn[r]
        BY <3>1, <3>2, <3>3, <3>4, <4>1
      <4>2. CASE u # drawn[r]
        BY <3>1, <3>2, <3>3, <3>4, <3>5, <4>2 DEF KeyInv
      <4> QED BY <4>1, <4>2
    <3>6. ASSUME NEW u \in Tokens, key'[u].by = None PROVE key'[u].until = 0
      BY <3>2, <3>3, <3>6 DEF KeyInv
    <3>7. \A i \in Issues \ issued' : uses[i] = 0
      BY <3>1 DEF KeyInv
    <3> QED BY <2>1, <3>5, <3>6, <3>7 DEF KeyInv
  <2> QED BY <2>2, <2>3
<1>3. CASE Consume(t)
  <2>1. /\ key[t].by \in issued
        /\ \A u \in Tokens \ {t} : key'[u] = key[u] /\ key[u].by # key[t].by
        /\ key'[t] = NoKey
        /\ \A i \in Issues \ {key[t].by} : uses'[i] = uses[i]
        /\ UNCHANGED <<scope, of, issued>>
    BY <1>3, ConsumeFacts DEF TypeOK
  <2>2. NoKey.by = None /\ NoKey.until = 0
    BY DEF NoKey
  <2>3. issued \subseteq Issues
    BY DEF TypeOK
  <2> QED BY <2>1, <2>2, <2>3 DEF KeyInv
<1> QED BY <1>1, <1>2, <1>3 DEF Moves

LEMMA OneUseStep ==
    ASSUME TypeOK, NonceInv, FlowInv, KeyInv, OneUseWhileValid, ReplayIsLate,
           NEW r \in Redemptions, NEW c \in Challenges, NEW t \in Tokens, Moves(r, c, t)
    PROVE  OneUseWhileValid' /\ ReplayIsLate'
<1> USE DEF Goto, challengeVars, redis, redemptionVars
<1>1. now \in Nat /\ now' \in Nat /\ now <= now'
  BY TypeStep, AnsweringFrame, ConsumeFacts, ConstantsAssumption
     DEF TypeOK, Moves, Tick, CreateChallenge, VerifyChallenge, TimeLeft, Fail
<1>2. \A i \in issued : /\ of'[i[1]] = of[i[1]]
                        /\ expires'[of[i[1]]] = expires[of[i[1]]]
                        /\ expires[of[i[1]]] \in Nat
                        /\ remaining'[i[1]] = remaining[i[1]]
  BY IssueFrame DEF NonceInv, TypeOK
<1>3. CASE ~Answering(r)
  <2>1. issued' = issued
    BY <1>3, ConsumeFacts DEF Moves, Tick, CreateChallenge, VerifyChallenge, TimeLeft, Fail
  <2>2. \A i \in Issues : uses'[i] <= 1
    <3>1. CASE Consume(t)
      BY <3>1, ConsumeFacts DEF OneUseWhileValid, TypeOK
    <3>2. CASE ~Consume(t)
      BY <1>3, <3>2 DEF OneUseWhileValid, Moves, Tick, CreateChallenge, VerifyChallenge, TimeLeft, Fail
    <3> QED BY <3>1, <3>2
  <2> QED BY <1>1, <1>2, <2>1, <2>2 DEF OneUseWhileValid, ReplayIsLate, Replay
<1>4. CASE Answering(r)
  <2>1. UNCHANGED <<now, expires, of, remaining, uses>>
    BY <1>4, AnsweringFrame
  <2>2. CASE Result(r) # "issued"
    BY <1>4, <2>1, <2>2, ScriptFacts DEF OneUseWhileValid, ReplayIsLate, Replay
  <2>3. CASE Result(r) = "issued"
    <3> DEFINE new == <<r, now>>
    <3>1. issued' = issued \cup {new} /\ nonce[of[r]] <= now /\ of[r] \in Challenges
      BY <1>4, <2>3, ScriptFacts
    <3>2. new[1] = r /\ new[2] = now
      OBVIOUS
    <3>3. ASSUME NEW i \in issued, of[i[1]] = of[r]
          PROVE  expires[of[r]] <= now /\ i[2] + remaining[i[1]] <= now /\ i[2] < now
      <4>1. /\ expires[of[r]] <= i[2] + remaining[i[1]]
            /\ i[2] + remaining[i[1]] <= nonce[of[r]]
            /\ remaining[i[1]] # 0
        BY <3>3 DEF NonceInv
      <4>2. /\ remaining[i[1]] \in Nat /\ i[2] \in Nat /\ expires[of[r]] \in Nat /\ nonce[of[r]] \in Nat
        BY <3>1 DEF TypeOK, Issues
      <4> QED BY <1>1, <3>1, <4>1, <4>2
    <3> HIDE DEF new
    <3>4. \A i, j \in issued' : Replay(i, j)' => expires[of[i[1]]] <= now
      BY <2>1, <3>1, <3>2, <3>3 DEF Replay, OneUseWhileValid
    <3>5. \A i, j \in issued' : Replay(i, j)' /\ i[2] <= j[2] => j[2] >= i[2] + remaining[i[1]]
      <4> SUFFICES ASSUME NEW i \in issued', NEW j \in issued', Replay(i, j)', i[2] <= j[2]
                   PROVE  j[2] >= i[2] + remaining[i[1]]
        OBVIOUS
      <4>1. i # j /\ of[i[1]] = of[j[1]]
        BY <2>1 DEF Replay
      <4>2. CASE i \in issued /\ j \in issued
        BY <4>1, <4>2 DEF Replay, ReplayIsLate
      <4>3. CASE j = new /\ i \in issued
        <5>1. i[2] + remaining[i[1]] <= now /\ j[2] = now
          BY <3>2, <3>3, <4>1, <4>3
        <5>2. i[2] \in Nat /\ remaining[i[1]] \in Nat
          BY <4>3 DEF TypeOK, Issues
        <5> QED BY <1>1, <5>1, <5>2
      <4>4. CASE i = new /\ j \in issued
        <5>1. j[2] < now /\ i[2] = now
          BY <3>2, <3>3, <4>1, <4>4
        <5>2. j[2] \in Nat
          BY <4>4 DEF TypeOK, Issues
        <5> QED BY <1>1, <5>1, <5>2
      <4> QED BY <3>1, <4>1, <4>2, <4>3, <4>4
    <3> QED BY <2>1, <3>4, <3>5 DEF OneUseWhileValid, ReplayIsLate
  <2> QED BY <2>2, <2>3
<1> QED BY <1>3, <1>4

LEMMA RefusedStep ==
    ASSUME TypeOK, NonceInv, FlowInv, KeyInv, RefusedForAReason,
           NEW r \in Redemptions, NEW c \in Challenges, NEW t \in Tokens, Moves(r, c, t)
    PROVE  RefusedForAReason'
<1> USE DEF Goto, challengeVars, redis, redemptionVars
<1>1. \A i \in issued : of'[i[1]] = of[i[1]]
  BY IssueFrame
<1>2. now \in Nat /\ \A d \in Challenges : expires[d] \in Nat
  BY DEF TypeOK
<1>3. \A q \in Redemptions : pc[q] = "refused" => of[q] \in Challenges /\ expires[of[q]] # 0
  BY DEF FlowInv
<1>4. CASE Tick
  <2>1. now' = now + 1 /\ UNCHANGED <<expires, pc, of, issued>>
    BY <1>4 DEF Tick
  <2> QED BY <1>2, <1>3, <2>1 DEF RefusedForAReason
<1>5. CASE CreateChallenge(c)
  <2>1. /\ expires[c] = 0 /\ UNCHANGED <<now, pc, of, issued>>
        /\ \A d \in Challenges \ {c} : expires'[d] = expires[d]
    BY <1>5 DEF CreateChallenge, TypeOK
  <2> QED BY <1>3, <2>1 DEF RefusedForAReason
<1>6. CASE VerifyChallenge(r)
  <2>1. PICK d \in Challenges :
          /\ of' = [of EXCEPT ![r] = d]
          /\ pc'[r] = "refused" => expires[d] < now
    BY <1>6 DEF VerifyChallenge, TypeOK
  <2>2. /\ UNCHANGED <<now, expires, issued>>
        /\ \A q \in Redemptions \ {r} : pc'[q] = pc[q]
    BY <1>6 DEF VerifyChallenge, TypeOK
  <2>3. \A q \in Redemptions \ {r} : of'[q] = of[q]
    BY <2>1 DEF TypeOK
  <2>4. of'[r] = d
    BY <2>1 DEF TypeOK
  <2>5. pc'[r] = "refused" => expires[of'[r]] <= now
    BY <1>2, <2>1, <2>4
  <2> QED BY <1>1, <2>2, <2>3, <2>5 DEF RefusedForAReason
<1>7. CASE TimeLeft(r)
  <2>1. /\ UNCHANGED <<now, expires, of, issued>>
        /\ \A q \in Redemptions \ {r} : pc'[q] = pc[q]
        /\ pc'[r] = "refused" => expires[of[r]] <= now
    BY <1>7 DEF TimeLeft, TypeOK
  <2> QED BY <2>1 DEF RefusedForAReason
<1>8. CASE Answering(r)
  <2>1. /\ UNCHANGED <<now, expires, of>>
        /\ \A q \in Redemptions \ {r} : pc'[q] = pc[q]
        /\ pc'[r] = "refused" => Result(r) = "spent"
    BY <1>8, AnsweringFrame
  <2>2. issued \subseteq issued'
    BY <1>8, ScriptFacts
  <2>3. Result(r) = "spent" => \E i \in issued : of[i[1]] = of[r]
    <3>1. Result(r) = "spent" => now < nonce[of[r]] /\ of[r] \in Challenges
      BY <1>8, ScriptFacts DEF Result, Exists
    <3>2. Result(r) = "spent" => nonce[of[r]] # 0
      BY <1>2, <3>1
    <3> QED BY <3>1, <3>2 DEF NonceInv
  <2> QED BY <2>1, <2>2, <2>3 DEF RefusedForAReason
<1>9. CASE Fail(r)
  BY <1>9 DEF Fail, TypeOK, RefusedForAReason
<1>10. CASE Consume(t)
  BY <1>10, ConsumeFacts DEF RefusedForAReason
<1> QED BY <1>4, <1>5, <1>6, <1>7, <1>8, <1>9, <1>10 DEF Moves

LEMMA HonouredStep ==
    ASSUME TypeOK, NonceInv, FlowInv, KeyInv, TokensAreHonoured,
           NEW r \in Redemptions, NEW c \in Challenges, NEW t \in Tokens, Moves(r, c, t)
    PROVE  TokensAreHonoured'
<1> USE DEF Goto, challengeVars, redis, redemptionVars
<1> DEFINE Last(i) == \A j \in issued : j[1] = i[1] => j = i
           Good(i, u) == /\ key[u].by = i
                         /\ now < key[u].until
                         /\ key[u].scope = scope[of[i[1]]]
                         /\ pc[i[1]] = "ok" /\ Last(i) => drawn[i[1]] = u
<1> SUFFICES ASSUME NEW i \in issued', uses'[i] = 0, now' < i[2] + TokenTTL
             PROVE  \E u \in Tokens : Good(i, u)'
  BY DEF TokensAreHonoured, Exists
<1>1. i \in issued /\ uses[i] = 0 /\ now < i[2] + TokenTTL => \E u \in Tokens : Good(i, u)
  BY DEF TokensAreHonoured, Exists
<1>2. i \in issued => /\ i[1] \in Redemptions /\ pc[i[1]] \notin {"idle", "prove", "rejected"}
                      /\ scope'[of'[i[1]]] = scope[of[i[1]]]
                      /\ i[2] \in Nat
  BY IssueFrame DEF FlowInv, TypeOK, Issues
<1>3. now \in Nat /\ TokenTTL \in Nat /\ \A u \in Tokens : key[u].until \in Nat
  BY ConstantsAssumption DEF TypeOK, Keys
<1>4. CASE Tick
  <2>1. now' = now + 1 /\ UNCHANGED <<scope, of, key, pc, drawn, issued, uses>>
    BY <1>4 DEF Tick
  <2>2. PICK u \in Tokens : Good(i, u)
    BY <1>1, <1>2, <1>3, <2>1
  <2>3. key[u].by = i /\ i # None
    BY <1>2, <2>1, <2>2, ConstantsAssumption DEF TypeOK, Issues
  <2>4. key[u].until = i[2] + TokenTTL
    BY <2>3 DEF KeyInv
  <2> QED BY <2>1, <2>2, <2>4
<1>5. CASE CreateChallenge(c) \/ VerifyChallenge(r) \/ TimeLeft(r) \/ Fail(r)
  <2>1. /\ UNCHANGED <<now, key, issued, uses>>
        /\ \A q \in Redemptions \ {r} : pc'[q] = pc[q] /\ drawn'[q] = drawn[q]
        /\ \/ pc[r] \in {"idle", "prove"}
           \/ pc'[r] \in {"error", pc[r]} /\ drawn'[r] = drawn[r]
    <3>1. CASE CreateChallenge(c)
      BY <3>1 DEF CreateChallenge
    <3>2. CASE VerifyChallenge(r)
      BY <3>2 DEF VerifyChallenge, TypeOK
    <3>3. CASE TimeLeft(r)
      <4>1. pc[r] = "prove" /\ UNCHANGED <<now, key, issued, uses>>
        BY <3>3 DEF TimeLeft
      <4>2. /\ \E step \in {"refused", "issue"} : pc' = [pc EXCEPT ![r] = step]
            /\ drawn' = drawn \/ \E u \in Tokens : drawn' = [drawn EXCEPT ![r] = u]
        BY <3>3 DEF TimeLeft
      <4>3. \A q \in Redemptions \ {r} : pc'[q] = pc[q]
        BY <4>2 DEF TypeOK
      <4>4. \A q \in Redemptions \ {r} : drawn'[q] = drawn[q]
        BY <4>2 DEF TypeOK
      <4> QED BY <4>1, <4>3, <4>4
    <3>4. CASE Fail(r)
      BY <3>4 DEF Fail, TypeOK
    <3> QED BY <1>5, <3>1, <3>2, <3>3, <3>4
  <2>2. PICK u \in Tokens : Good(i, u)
    BY <1>1, <2>1
  <2>3. pc'[i[1]] = "ok" => pc[i[1]] = "ok" /\ drawn'[i[1]] = drawn[i[1]]
    BY <1>2, <2>1
  <2> QED BY <1>2, <2>1, <2>2, <2>3
<1>6. CASE Answering(r)
  <2>1. /\ UNCHANGED <<now, scope, of, uses>>
        /\ \A q \in Redemptions \ {r} : pc'[q] = pc[q] /\ drawn'[q] = drawn[q]
        /\ pc'[r] = "ok" => Result(r) = "issued" /\ drawn'[r] = drawn[r]
    BY <1>6, AnsweringFrame
  <2>2. CASE Result(r) # "issued"
    <3>1. UNCHANGED <<key, issued>>
      BY <1>6, <2>2, ScriptFacts
    <3>2. PICK u \in Tokens : Good(i, u)
      BY <1>1, <2>1, <3>1
    <3>3. pc'[i[1]] = "ok" => pc[i[1]] = "ok" /\ drawn'[i[1]] = drawn[i[1]]
      BY <1>2, <2>1, <2>2, <3>1
    <3> QED BY <1>2, <2>1, <3>1, <3>2, <3>3
  <2>3. CASE Result(r) = "issued"
    <3> DEFINE new == <<r, now>>
               mine == [until |-> now + TokenTTL, scope |-> scope[of[r]], by |-> new]
    <3>1. /\ drawn[r] \in Tokens /\ new \notin issued
          /\ issued' = issued \cup {new}
          /\ key' = [key EXCEPT ![drawn[r]] = mine]
          /\ key[drawn[r]].until <= now
      BY <1>6, <2>3, ScriptFacts
    <3>2. /\ mine.by = new /\ mine.until = now + TokenTTL /\ mine.scope = scope[of[r]]
          /\ new[1] = r /\ new[2] = now
      OBVIOUS
    <3>3. key'[drawn[r]] = mine /\ \A u \in Tokens \ {drawn[r]} : key'[u] = key[u]
      BY <3>1 DEF TypeOK
    <3>4. now < now + TokenTTL
      BY <1>3, ConstantsAssumption
    <3> HIDE DEF new, mine
    <3>5. CASE i = new
      <4>1. PICK d \in Tokens : d = drawn[r]
        BY <3>1
      <4>2. key'[d] = mine
        BY <3>3, <4>1
      <4>3. Good(i, d)'
        BY <2>1, <3>2, <3>4, <3>5, <4>1, <4>2
      <4> QED BY <4>3
    <3>6. CASE i \in issued
      <4>1. PICK u \in Tokens : Good(i, u)
        BY <1>1, <2>1, <3>6
      <4>2. u # drawn[r]
        BY <1>3, <3>1, <4>1
      <4>3. key'[u] = key[u]
        BY <3>3, <4>2
      <4>4. i[1] # r => pc'[i[1]] = pc[i[1]] /\ drawn'[i[1]] = drawn[i[1]]
        BY <1>2, <2>1, <3>6
      <4>5. i[1] = r => ~Last(i)'
        <5>1. new \in issued' /\ new # i /\ new[1] = r
          BY <3>1, <3>2, <3>6
        <5> QED BY <5>1
      <4>6. i[1] # r => (Last(i)' => Last(i))
        BY <3>1
      <4> QED BY <1>2, <2>1, <3>6, <4>1, <4>3, <4>4, <4>5, <4>6
    <3> QED BY <3>1, <3>5, <3>6
  <2> QED BY <2>2, <2>3
<1>7. CASE Consume(t)
  <2>1. /\ UNCHANGED <<now, scope, of, pc, drawn, issued>>
        /\ \A u \in Tokens \ {t} : key'[u] = key[u]
        /\ uses'[key[t].by] # 0
        /\ \A j \in Issues \ {key[t].by} : uses'[j] = uses[j]
    BY <1>7, ConsumeFacts DEF TypeOK
  <2>2. i \in issued /\ i \in Issues /\ i # key[t].by
    BY <2>1 DEF TypeOK
  <2>3. PICK u \in Tokens : Good(i, u)
    BY <1>1, <2>1, <2>2
  <2>4. u # t
    BY <2>2, <2>3
  <2> QED BY <2>1, <2>3, <2>4
<1> QED BY <1>4, <1>5, <1>6, <1>7 DEF Moves

-----------------------------------------------------------------------------
(* The invariant.                                                           *)

LEMMA InitInv == Init => IInv
<1> SUFFICES ASSUME Init PROVE IInv
  OBVIOUS
<1> USE DEF Init
<1>1. TypeOK
  <2>1. NoKey \in Keys
    BY ConstantsAssumption DEF NoKey, Keys
  <2> QED BY <2>1, ConstantsAssumption DEF TypeOK
<1>2. NonceInv
  BY DEF NonceInv
<1>3. FlowInv
  BY ConstantsAssumption DEF FlowInv
<1>4. KeyInv
  BY DEF KeyInv, NoKey
<1>5. OneUseWhileValid /\ ReplayIsLate /\ RefusedForAReason /\ TokensAreHonoured
  BY DEF OneUseWhileValid, ReplayIsLate, RefusedForAReason, TokensAreHonoured
<1> QED BY <1>1, <1>2, <1>3, <1>4, <1>5 DEF IInv

LEMMA MoveKeeps ==
    ASSUME IInv, NEW r \in Redemptions, NEW c \in Challenges, NEW t \in Tokens, Moves(r, c, t)
    PROVE  IInv'
  BY TypeStep, NonceStep, FlowStep, KeyStep, OneUseStep, RefusedStep, HonouredStep DEF IInv

LEMMA StepInv == IInv /\ [Next]_vars => IInv'
<1> SUFFICES ASSUME IInv, [Next]_vars PROVE IInv'
  OBVIOUS
<1>1. CASE Next
  <2>1. \E r \in Redemptions, c \in Challenges, t \in Tokens : Moves(r, c, t)
    <3>1. PICK r \in Redemptions, c \in Challenges, t \in Tokens : TRUE
      BY ConstantsAssumption
    <3>2. CASE Tick
      BY <3>1, <3>2 DEF Moves
    <3>3. CASE \E d \in Challenges : CreateChallenge(d)
      BY <3>1, <3>3 DEF Moves
    <3>4. CASE \E q \in Redemptions : VerifyChallenge(q) \/ TimeLeft(q) \/ Answering(q) \/ Fail(q)
      BY <3>1, <3>4 DEF Moves
    <3>5. CASE \E u \in Tokens : Consume(u)
      BY <3>1, <3>5 DEF Moves
    <3> QED BY <1>1, <3>2, <3>3, <3>4, <3>5
         DEF Next, Answering, ValidateToken, ValidateTokenWithScope
  <2> QED BY <2>1, MoveKeeps
<1>2. CASE UNCHANGED vars
  BY <1>2 DEF vars, challengeVars, redis, redemptionVars, IInv, TypeOK, NonceInv, FlowInv, KeyInv,
     OneUseWhileValid, ReplayIsLate, RefusedForAReason, TokensAreHonoured, Replay, Exists
<1> QED BY <1>1, <1>2

\* The inductive invariant holds in every state of security/cap/cap.go and its keys in Redis.
THEOREM Invariance == Spec => []IInv
  BY InitInv, StepInv, PTL DEF Spec

\* Every redemption is at a step of RedeemChallengeWithScope and has drawn at most three tokens.
THEOREM TypeCorrect == Spec => []TypeOK
<1>1. IInv => TypeOK
  BY DEF IInv
<1> QED BY Invariance, <1>1, PTL

\* However redemptions overlap, a challenge yields one token until it expires, and a token of
\* ValidateToken and ValidateTokenWithScope one validation.
THEOREM OneUse == Spec => []OneUseWhileValid
<1>1. IInv => OneUseWhileValid
  BY DEF IInv
<1> QED BY Invariance, <1>1, PTL

\* A second token for one challenge takes a script that ran when the nonce of the first one,
\* set for the time that one had found left, was gone.
THEOREM ReplaysAreLate == Spec => []ReplayIsLate
<1>1. IInv => ReplayIsLate
  BY DEF IInv
<1> QED BY Invariance, <1>1, PTL

\* RedeemChallengeWithScope never spends a challenge without issuing a token for it.
THEOREM RefusalsHaveAReason == Spec => []RefusedForAReason
<1>1. IInv => RefusedForAReason
  BY DEF IInv
<1> QED BY Invariance, <1>1, PTL

\* The key of an issued token is there, with the scope of its challenge, until it is used or
\* has expired.
THEOREM HonoursTokens == Spec => []TokensAreHonoured
<1>1. IInv => TokensAreHonoured
  BY DEF IInv
<1> QED BY Invariance, <1>1, PTL
=============================================================================
