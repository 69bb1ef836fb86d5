--------------------------- MODULE Accounts_proofs ---------------------------
(***************************************************************************)
(* Proofs about the requests that act on one user, for any number of       *)
(* requests and any operations.                                            *)
(***************************************************************************)
EXTENDS Accounts, TLAPS

Acts(r) == Start(r) \/ Step(r) \/ Fail(r)

SessionOps == {"resolve", "logout", "profile", "change"}

\* An operation starts at its first step, with a token or session that exists.
FirstStep(kind, a, step) ==
    \/ kind = "register" /\ step = "findEmail"
    \/ kind \in {"resend", "forgot", "update", "disable", "enable"} /\ step = "getUser"
    \/ kind = "verify" /\ a \in Mailed({"register", "resend"}) /\ step = "consumeToken"
    \/ kind = "reset" /\ a \in Mailed({"forgot"}) /\ step = "findResetToken"
    \/ kind = "login" /\ step = "getUser"
    \/ kind \in SessionOps /\ a \in logins /\ step = "findLogin"

Starts(r, kind, a, p, step) == Begin(r, kind, a, p, step) /\ FirstStep(kind, a, step)

LEMMA StartCases ==
    ASSUME TypeOK, NEW r \in Requests, Start(r)
    PROVE  \E kind \in Ops, a \in Secrets, p \in Secrets, step \in Steps : Starts(r, kind, a, p, step)
<1> DEFINE Goal == \E kind \in Ops, a \in Secrets, p \in Secrets, step \in Steps :
                     Starts(r, kind, a, p, step)
<1> SUFFICES Goal
  BY DEF Goal
<1> HIDE DEF Goal
<1>1. CASE Begin(r, "register", Initial, Initial, "findEmail")
  BY <1>1 DEF Goal, Begin, Secrets, Steps, Starts, FirstStep
<1>2. CASE \E kind \in {"resend", "forgot", "update", "disable", "enable"} :
             Begin(r, kind, Initial, Initial, "getUser")
  BY <1>2 DEF Goal, Begin, Secrets, Steps, Starts, FirstStep
<1>3. CASE \E t \in Mailed({"register", "resend"}) : Begin(r, "verify", t, Initial, "consumeToken")
  BY <1>3 DEF Goal, Begin, Mailed, TypeOK, Secrets, Steps, Starts, FirstStep
<1>4. CASE \E t \in Mailed({"forgot"}) : Begin(r, "reset", t, Initial, "findResetToken")
  BY <1>4 DEF Goal, Begin, Mailed, TypeOK, Secrets, Steps, Starts, FirstStep
<1>5. CASE \E p \in wrote \cup {Initial} : Begin(r, "login", Initial, p, "getUser")
  <2>1. PICK p \in wrote \cup {Initial} : Begin(r, "login", Initial, p, "getUser")
    BY <1>5
  <2>2. "login" \in Ops
    BY <2>1 DEF Begin
  <2>3. FirstStep("login", Initial, "getUser")
    BY DEF FirstStep
  <2>4. p \in Secrets /\ Initial \in Secrets /\ "getUser" \in Steps
    BY DEF TypeOK, Secrets, Steps
  <2> QED BY <2>1, <2>2, <2>3, <2>4 DEF Goal, Starts
<1>6. CASE \E l \in logins, kind \in {"resolve", "logout", "profile"} :
             Begin(r, kind, l, Initial, "findLogin")
  <2>1. PICK l \in logins, kind \in {"resolve", "logout", "profile"} :
               Begin(r, kind, l, Initial, "findLogin")
    BY <1>6
  <2>2. kind \in Ops
    BY <2>1 DEF Begin
  <2>3. FirstStep(kind, l, "findLogin")
    BY <2>1 DEF FirstStep, SessionOps
  <2>4. l \in Secrets /\ Initial \in Secrets /\ "findLogin" \in Steps
    BY <2>1 DEF TypeOK, Secrets, Steps
  <2> QED BY <2>1, <2>2, <2>3, <2>4 DEF Goal, Starts
<1>7. CASE \E l \in logins, p \in wrote \cup {Initial} : Begin(r, "change", l, p, "findLogin")
  BY <1>7 DEF Goal, Begin, TypeOK, Secrets, Steps, Starts, FirstStep, SessionOps
<1> QED
  BY <1>1, <1>2, <1>3, <1>4, <1>5, <1>6, <1>7 DEF Start

-----------------------------------------------------------------------------
(* Type correctness.                                                        *)

LEMMA AdvanceType ==
    ASSUME TypeOK, NEW r \in Requests, NEW step \in Steps \cup Ended, Advance(r, step)
    PROVE  TypeOK'
  BY DEF TypeOK, Advance, Goto, userVars, tokenVars, loginVars, callVars, history

LEMMA AfterUserType ==
    ASSUME NEW r \in Requests
    PROVE  AfterUser(r) \in Steps \cup Ended
<1>1. AfterUser(r) \in {"createToken", "done", "failed", "revokeLogins", "updateStatus",
                       "updateProfile", "findAuthenticator", "touch"}
  BY Zenon DEF AfterUser
<1> QED BY <1>1 DEF Steps, Ended

LEMMA TypeStep == TypeOK /\ FlowInv /\ [Next]_vars => TypeOK'
<1> SUFFICES ASSUME TypeOK, FlowInv, [Next]_vars PROVE TypeOK'
  OBVIOUS
<1>1. CASE UNCHANGED vars
  BY <1>1 DEF TypeOK, vars, userVars, tokenVars, loginVars, callVars, history
<1>2. ASSUME NEW r \in Requests, Start(r) PROVE TypeOK'
  <2>1. PICK kind \in Ops, a \in Secrets, p \in Secrets, step \in Steps : Starts(r, kind, a, p, step)
    BY <1>2, StartCases
  <2>2. Begin(r, kind, a, p, step)
    BY <2>1 DEF Starts
  <2> QED BY <2>2 DEF Begin, TypeOK, Goto, userVars, tokenVars, loginVars, history
<1>3. ASSUME NEW r \in Requests, Fail(r) PROVE TypeOK'
  BY <1>3, AdvanceType DEF Fail, Ended
<1>4. ASSUME NEW r \in Requests, Step(r) PROVE TypeOK'
  <2> USE DEF Goto, Wrote, Secrets, userVars, tokenVars, loginVars, callVars, history, Steps, Ended
  <2>1. CASE FindEmail(r) \/ CreateToken(r) \/ FindLogin(r) \/ FindResetToken(r) \/ RevokeTokens(r)
    BY <2>1, AdvanceType DEF FindEmail, CreateToken, FindLogin, FindResetToken, RevokeTokens
  <2>2. CASE FindAuthenticator(r) \/ ComparePassword(r) \/ Touch(r)
    BY <2>2, AdvanceType DEF FindAuthenticator, ComparePassword, Touch, AfterTouch
  <2>3. ASSUME Advance(r, "failed") PROVE TypeOK'
    BY <2>3, AdvanceType
  <2>4. CASE CreateUser(r)
    BY <2>3, <2>4 DEF CreateUser, TypeOK
  <2>5. CASE SendMail(r)
    BY <2>5 DEF SendMail, TypeOK
  <2>6. CASE ConsumeToken(r) \/ ResetPassword(r)
    <3>1. arg[r] \in Requests
      BY <2>6 DEF ConsumeToken, ResetPassword, FlowInv, Mailed, TypeOK
    <3> QED BY <2>3, <2>6, <3>1 DEF ConsumeToken, ResetPassword, TypeOK
  <2>7. CASE ActivateEmail(r)
    <3>1. CASE status # "pending"
      BY <2>3, <2>7, <3>1 DEF ActivateEmail
    <3>2. CASE status = "pending"
      <4>1. /\ status' = "active" /\ verified' = TRUE /\ etag' = r
            /\ pc' = [pc EXCEPT ![r] = "done"]
            /\ wrote' = wrote \cup {r}
            /\ covered' = [covered EXCEPT ![r] = logins]
            /\ racing' \in [Requests -> SUBSET Requests]
            /\ UNCHANGED <<authenticator, password, tokenVars, loginVars, callVars, seen, erred>>
        BY <2>7, <3>2 DEF ActivateEmail, TypeOK
      <4> QED BY <4>1 DEF TypeOK
    <3> QED BY <3>1, <3>2
  <2>8. CASE GetUser(r)
    <3> HIDE DEF Steps, Ended
    <3>1. AfterUser(r) \in Steps \cup Ended
      BY AfterUserType
    <3>2. /\ pc' = [pc EXCEPT ![r] = AfterUser(r)]
          /\ seen' = [seen EXCEPT ![r] = etag]
          /\ covered' = [covered EXCEPT ![r] = logins]
          /\ UNCHANGED <<userVars, tokenVars, loginVars, callVars, erred, wrote, racing>>
      BY <2>8 DEF GetUser
    <3> QED BY <3>1, <3>2 DEF TypeOK
  <2>9. CASE CreateLogin(r)
    BY <2>9 DEF CreateLogin, TypeOK
  <2>10. CASE ReplacePassword(r)
    BY <2>10 DEF ReplacePassword, TypeOK
  <2>11. CASE UpdateProfile(r)
    BY <2>3, <2>11 DEF UpdateProfile, TypeOK
  <2>12. CASE UpdateStatus(r)
    BY <2>3, <2>12 DEF UpdateStatus, TypeOK
  <2>13. CASE RevokeLogins(r)
    <3>1. Revoked(r) \subseteq Requests
      BY <2>13 DEF RevokeLogins, Revoked, FlowInv, TypeOK
    <3> QED BY <2>13, <3>1 DEF RevokeLogins, TypeOK
  <2> QED BY <1>4, <2>1, <2>2, <2>4, <2>5, <2>6, <2>7, <2>8, <2>9, <2>10, <2>11, <2>12, <2>13 DEF Step
<1> QED BY <1>1, <1>2, <1>3, <1>4 DEF Next

-----------------------------------------------------------------------------
(* What a step leaves alone.                                                *)

\* A request that goes on or fails keeps its operation and what it was called with.
LEMMA CallKept ==
    ASSUME TypeOK, NEW r \in Requests, Step(r) \/ Fail(r)
    PROVE  UNCHANGED callVars /\ pc[r] \in Steps
<1> USE DEF Advance, Steps
<1>1. CASE Fail(r)
  BY <1>1 DEF Fail
<1>2. CASE FindEmail(r) \/ CreateUser(r) \/ CreateToken(r) \/ SendMail(r)
  BY <1>2 DEF FindEmail, CreateUser, CreateToken, SendMail
<1>3. CASE ConsumeToken(r) \/ ActivateEmail(r) \/ GetUser(r) \/ FindAuthenticator(r)
  BY <1>3 DEF ConsumeToken, ActivateEmail, GetUser, FindAuthenticator
<1>4. CASE ComparePassword(r) \/ CreateLogin(r) \/ FindLogin(r) \/ Touch(r)
  BY <1>4 DEF ComparePassword, CreateLogin, FindLogin, Touch
<1>5. CASE FindResetToken(r) \/ ResetPassword(r) \/ ReplacePassword(r) \/ UpdateProfile(r)
  BY <1>5 DEF FindResetToken, ResetPassword, ReplacePassword, UpdateProfile
<1>6. CASE UpdateStatus(r) \/ RevokeLogins(r) \/ RevokeTokens(r)
  BY <1>6 DEF UpdateStatus, RevokeLogins, RevokeTokens
<1> QED BY <1>1, <1>2, <1>3, <1>4, <1>5, <1>6 DEF Step

\* What a request that has not begun, or has, may do to itself; the others are untouched.
Untouched(q) ==
    /\ pc'[q] = pc[q] /\ op'[q] = op[q] /\ arg'[q] = arg[q] /\ typed'[q] = typed[q]
    /\ seen'[q] = seen[q] /\ covered'[q] = covered[q] /\ racing'[q] = racing[q]
    /\ (q \in mailed' <=> q \in mailed) /\ (q \in logins' <=> q \in logins)
    /\ (q \in wrote' <=> q \in wrote) /\ (q \in erred' <=> q \in erred)

LEMMA OthersUntouched ==
    ASSUME TypeOK, NEW r \in Requests, Acts(r), NEW q \in Requests \ {r}
    PROVE  Untouched(q)
<1> USE DEF Untouched, Goto, Advance, Wrote, TypeOK, tokenVars, loginVars, callVars, history
<1>1. CASE Start(r)
  <2>1. PICK kind \in Ops, a \in Secrets, p \in Secrets, step \in Steps : Starts(r, kind, a, p, step)
    BY <1>1, StartCases
  <2> QED BY <2>1 DEF Starts, Begin
<1>2. CASE Fail(r) \/ FindEmail(r) \/ CreateToken(r) \/ FindLogin(r) \/ FindResetToken(r)
           \/ RevokeTokens(r) \/ FindAuthenticator(r) \/ ComparePassword(r) \/ Touch(r)
  <2>1. PICK step : Advance(r, step)
    BY <1>2 DEF Fail, FindEmail, CreateToken, FindLogin, FindResetToken, RevokeTokens,
                FindAuthenticator, ComparePassword, Touch
  <2> QED BY <2>1
<1>3. CASE CreateUser(r)
  BY <1>3 DEF CreateUser
<1>4. CASE SendMail(r)
  BY <1>4 DEF SendMail
<1>5. CASE ConsumeToken(r)
  BY <1>5 DEF ConsumeToken
<1>6. CASE ActivateEmail(r)
  BY <1>6 DEF ActivateEmail
<1>7. CASE GetUser(r)
  BY <1>7 DEF GetUser
<1>8. CASE CreateLogin(r)
  BY <1>8 DEF CreateLogin
<1>9. CASE ResetPassword(r)
  BY <1>9 DEF ResetPassword
<1>10. CASE ReplacePassword(r)
  BY <1>10 DEF ReplacePassword
<1>11. CASE UpdateProfile(r)
  BY <1>11 DEF UpdateProfile
<1>12. CASE UpdateStatus(r)
  BY <1>12 DEF UpdateStatus
<1>13. CASE RevokeLogins(r)
  BY <1>13 DEF RevokeLogins
<1> QED BY <1>1, <1>2, <1>3, <1>4, <1>5, <1>6, <1>7, <1>8, <1>9, <1>10, <1>11, <1>12, <1>13
        DEF Acts, Step

\* Tokens that were mailed and sessions that exist stay, and so does what created them.
LEMMA Kept ==
    ASSUME TypeOK, FlowInv, NEW r \in Requests, Acts(r)
    PROVE  /\ mailed \subseteq mailed' /\ logins \subseteq logins' /\ wrote \subseteq wrote'
           /\ consumed \subseteq consumed'
           /\ \A q \in Requests : pc[q] # "idle" => op'[q] = op[q] /\ arg'[q] = arg[q]
           /\ \A kinds : Mailed(kinds) \subseteq Mailed(kinds)'
<1>1. /\ mailed \subseteq mailed' /\ logins \subseteq logins' /\ wrote \subseteq wrote'
      /\ consumed \subseteq consumed'
  <2> USE DEF Advance, Wrote, tokenVars, loginVars, history
  <2>1. CASE Start(r)
    BY <2>1, StartCases DEF Starts, Begin
  <2>2. CASE Fail(r) \/ FindEmail(r) \/ CreateToken(r) \/ FindLogin(r) \/ FindResetToken(r)
             \/ RevokeTokens(r) \/ FindAuthenticator(r) \/ ComparePassword(r) \/ Touch(r)
    BY <2>2 DEF Fail, FindEmail, CreateToken, FindLogin, FindResetToken, RevokeTokens,
                FindAuthenticator, ComparePassword, Touch
  <2>3. CASE CreateUser(r) \/ SendMail(r) \/ ConsumeToken(r) \/ ActivateEmail(r)
    BY <2>3 DEF CreateUser, SendMail, ConsumeToken, ActivateEmail
  <2>4. CASE GetUser(r) \/ CreateLogin(r) \/ ResetPassword(r) \/ ReplacePassword(r)
    BY <2>4 DEF GetUser, CreateLogin, ResetPassword, ReplacePassword
  <2>5. CASE UpdateProfile(r) \/ UpdateStatus(r) \/ RevokeLogins(r)
    BY <2>5 DEF UpdateProfile, UpdateStatus, RevokeLogins
  <2> QED BY <2>1, <2>2, <2>3, <2>4, <2>5 DEF Acts, Step
<1>2. \A q \in Requests : pc[q] # "idle" => op'[q] = op[q] /\ arg'[q] = arg[q]
  <2>1. CASE Start(r)
    <3>1. pc[r] = "idle"
      BY <2>1, StartCases DEF Starts, Begin
    <3> QED BY <3>1, OthersUntouched DEF Untouched
  <2>2. CASE Step(r) \/ Fail(r)
    BY <2>2, CallKept DEF callVars
  <2> QED BY <2>1, <2>2 DEF Acts
<1>3. \A t \in mailed : t \in Requests /\ pc[t] # "idle"
  BY DEF FlowInv, TypeOK, Ended
<1> QED BY <1>1, <1>2, <1>3 DEF Mailed

-----------------------------------------------------------------------------
\* A request is at the steps of its operation.
LEMMA FlowStep == TypeOK /\ FlowInv /\ [Next]_vars => FlowInv'
<1> SUFFICES ASSUME TypeOK, FlowInv, [Next]_vars PROVE FlowInv'
  OBVIOUS
<1> DEFINE
      Place(r) ==
        /\ pc[r] = "idle" => op[r] = "none"
        /\ pc[r] \in {"findEmail", "createUser"} => op[r] = "register"
        /\ pc[r] \in {"createToken", "sendMail"} => op[r] \in {"register", "resend", "forgot"}
        /\ pc[r] \in {"consumeToken", "activate"} => op[r] = "verify"
        /\ pc[r] \in {"findResetToken", "resetPassword"} => op[r] = "reset"
        /\ pc[r] = "findAuthenticator" => op[r] \in {"reset", "login", "change"}
        /\ pc[r] = "comparePassword" => op[r] \in {"login", "change"}
        /\ pc[r] \in {"findAgain", "replacePassword"} => op[r] = "change"
        /\ pc[r] = "createLogin" => op[r] = "login"
        /\ pc[r] \in {"findLogin", "touch"} => op[r] \in {"resolve", "logout", "profile", "change"}
        /\ pc[r] = "getUser" => op[r] \in {"resend", "forgot", "login", "update", "disable", "enable",
                                         "resolve", "logout", "profile", "change"}
        /\ pc[r] = "updateProfile" => op[r] \in {"profile", "update"}
        /\ pc[r] = "updateStatus" => op[r] \in {"disable", "enable"}
        /\ pc[r] \in {"revokeLogins", "revokeTokens"} =>
            op[r] \in {"reset", "change", "logout", "disable"}
      Presents(r) ==
        /\ op[r] = "verify" => arg[r] \in Mailed({"register", "resend"})
        /\ op[r] = "reset" => arg[r] \in Mailed({"forgot"})
        /\ op[r] \in {"resolve", "logout", "profile", "change"} => arg[r] \in logins
      Finished(r) == r \in mailed \cup logins => pc[r] \in Ended
<1>1. \A r \in Requests : Place(r) /\ Presents(r) /\ Finished(r)
  BY DEF FlowInv
<1>2. SUFFICES \A r \in Requests : Place(r)' /\ Presents(r)' /\ Finished(r)'
  BY DEF FlowInv
<1>3. CASE UNCHANGED vars
  BY <1>1, <1>3 DEF vars, userVars, tokenVars, loginVars, callVars, history, Mailed
<1>4. ASSUME NEW r \in Requests, Acts(r), NEW q \in Requests \ {r}
      PROVE  Place(q)' /\ Presents(q)' /\ Finished(q)'
  <2>1. Place(q) /\ Presents(q) /\ Finished(q)
    BY <1>1
  <2>2. Untouched(q)
    BY <1>4, OthersUntouched
  <2>3. \A kinds : Mailed(kinds) \subseteq Mailed(kinds)'
    BY <1>4, Kept
  <2>4. logins \subseteq logins'
    BY <1>4, Kept
  <2> QED BY <2>1, <2>2, <2>3, <2>4 DEF Untouched
<1>5. ASSUME NEW r \in Requests, Acts(r) PROVE Place(r)' /\ Presents(r)' /\ Finished(r)'
  <2> USE <1>1 DEF TypeOK, Goto
  <2>1. CASE Start(r)
    <3>1. PICK kind \in Ops, a \in Secrets, p \in Secrets, step \in Steps : Starts(r, kind, a, p, step)
      BY <2>1, StartCases
    <3>2. /\ pc[r] = "idle" /\ pc'[r] = step /\ op'[r] = kind /\ arg'[r] = a
          /\ UNCHANGED <<mailed, logins>>
      BY <3>1 DEF Starts, Begin, tokenVars, loginVars
    <3>3. FirstStep(kind, a, step)
      BY <3>1 DEF Starts
    <3>4. \A kinds : Mailed(kinds) \subseteq Mailed(kinds)'
      BY <1>5, Kept
    <3>5. r \notin mailed \cup logins
      BY <1>1, <3>2 DEF Ended
    <3> HIDE <1>1
    <3>6. Place(r)'
      BY <3>2, <3>3 DEF FirstStep, SessionOps
    <3>7. Presents(r)'
      BY <3>2, <3>3, <3>4 DEF FirstStep, SessionOps
    <3> QED BY <3>2, <3>5, <3>6, <3>7
  <2>2. ASSUME Step(r) \/ Fail(r) PROVE Presents(r)'
    <3>1. \A kinds : Mailed(kinds) \subseteq Mailed(kinds)'
      BY <1>5, Kept
    <3>2. op'[r] = op[r] /\ arg'[r] = arg[r] /\ logins \subseteq logins'
      BY <1>5, <2>2, CallKept, Kept DEF callVars
    <3> HIDE DEF Mailed
    <3> QED BY <3>1, <3>2
  <2>3. CASE Step(r) \/ Fail(r)
    <3>1. op'[r] = op[r] /\ r \notin mailed \cup logins
      BY <2>3, CallKept DEF callVars, Steps, Ended
    <3>2. SUFFICES Place(r)' /\ Finished(r)'
      BY <2>2, <2>3
    <3>3. ASSUME NEW step, Advance(r, step) PROVE Finished(r)' /\ pc'[r] = step
      BY <3>1, <3>3 DEF Advance, tokenVars, loginVars
    <3>4. ASSUME pc'[r] \in Ended PROVE Place(r)' /\ Finished(r)'
      BY <3>4 DEF Ended
    <3>5. ASSUME Advance(r, "failed") PROVE pc'[r] \in Ended
      BY <3>3, <3>5 DEF Ended
    <3>6. CASE Fail(r)
      BY <3>4, <3>5, <3>6 DEF Fail
    <3>7. CASE FindEmail(r)
      BY <3>1, <3>3, <3>7 DEF FindEmail
    <3>8. CASE CreateUser(r)
      BY <3>1, <3>4, <3>5, <3>8 DEF CreateUser, tokenVars, loginVars
    <3>9. CASE CreateToken(r)
      BY <3>1, <3>3, <3>9 DEF CreateToken
    <3>10. CASE SendMail(r)
      BY <3>4, <3>10 DEF SendMail, Ended
    <3>11. CASE ConsumeToken(r)
      BY <3>1, <3>4, <3>5, <3>11 DEF ConsumeToken, loginVars
    <3>12. CASE ActivateEmail(r)
      BY <3>4, <3>5, <3>12 DEF ActivateEmail, Ended
    <3>13. CASE GetUser(r)
      <4>1. pc'[r] = AfterUser(r) /\ pc[r] = "getUser" /\ UNCHANGED <<mailed, logins>>
        BY <3>13 DEF GetUser, tokenVars, loginVars
      <4>2. op[r] \in {"resend", "forgot", "login", "update", "disable", "enable",
                       "resolve", "logout", "profile", "change"}
        BY <4>1
      <4>3. Finished(r)'
        BY <3>1, <4>1
      <4> HIDE <1>1
      <4>4. Place(r)'
        BY <3>1, <4>1, <4>2 DEF AfterUser
      <4> QED BY <4>3, <4>4
    <3>14. CASE FindAuthenticator(r)
      BY <3>1, <3>3, <3>14 DEF FindAuthenticator
    <3>15. CASE ComparePassword(r)
      BY <3>1, <3>3, <3>15 DEF ComparePassword
    <3>16. CASE CreateLogin(r)
      BY <3>4, <3>16 DEF CreateLogin, Ended
    <3>17. CASE FindLogin(r)
      BY <3>1, <3>3, <3>17 DEF FindLogin
    <3>18. CASE Touch(r)
      BY <3>1, <3>3, <3>18 DEF Touch, AfterTouch
    <3>19. CASE FindResetToken(r)
      BY <3>1, <3>3, <3>19 DEF FindResetToken
    <3>20. CASE ResetPassword(r)
      BY <3>1, <3>4, <3>5, <3>20 DEF ResetPassword, loginVars
    <3>21. CASE ReplacePassword(r)
      BY <3>1, <3>21 DEF ReplacePassword, loginVars, tokenVars
    <3>22. CASE UpdateProfile(r)
      BY <3>4, <3>5, <3>22 DEF UpdateProfile, Ended
    <3>23. CASE UpdateStatus(r)
      BY <3>1, <3>4, <3>5, <3>23 DEF UpdateStatus, Ended, loginVars, tokenVars
    <3>24. CASE RevokeLogins(r)
      BY <3>1, <3>24 DEF RevokeLogins, loginVars, tokenVars
    <3>25. CASE RevokeTokens(r)
      BY <3>4, <3>3, <3>25 DEF RevokeTokens, Ended
    <3> QED BY <2>3, <3>6, <3>7, <3>8, <3>9, <3>10, <3>11, <3>12, <3>13, <3>14, <3>15, <3>16,
               <3>17, <3>18, <3>19, <3>20, <3>21, <3>22, <3>23, <3>24, <3>25 DEF Step
  <2> QED BY <1>5, <2>1, <2>3 DEF Acts
<1> QED BY <1>3, <1>4, <1>5 DEF Next, Acts

-----------------------------------------------------------------------------
(* Who writes, and when.                                                    *)

Quiet(r) ==
    Fail(r) \/ FindEmail(r) \/ CreateToken(r) \/ FindLogin(r) \/ FindResetToken(r) \/ RevokeTokens(r)
    \/ FindAuthenticator(r) \/ ComparePassword(r) \/ Touch(r)

LEMMA QuietAdvances ==
    ASSUME NEW r \in Requests, Quiet(r)
    PROVE  \E step : Advance(r, step)
  BY DEF Quiet, Fail, FindEmail, CreateToken, FindLogin, FindResetToken, RevokeTokens,
         FindAuthenticator, ComparePassword, Touch

WritingSteps ==
    {"createUser", "activate", "resetPassword", "replacePassword", "updateProfile", "updateStatus"}

\* Where a request is once it wrote.
After == {"createToken", "sendMail", "revokeLogins", "revokeTokens"} \cup Ended

\* A request writes in one step, and then never again.
Writes(r) ==
    /\ pc[r] \in WritingSteps
    /\ pc'[r] \in After
    /\ wrote' = wrote \cup {r}
    /\ covered' = [covered EXCEPT ![r] = logins]
    /\ UNCHANGED <<callVars, seen, logins, loginRevoked, mailed, erred>>
    /\ \/ UNCHANGED <<etag, status, authenticator, verified>>
       \/ etag' = r
    /\ password' \in {password, r}
    /\ pc[r] \in {"updateProfile", "updateStatus"} => seen[r] = etag /\ etag' = r
    /\ pc[r] = "resetPassword" => arg[r] \notin consumed /\ arg[r] \in consumed'

LEMMA WriteCases ==
    ASSUME TypeOK, NEW r \in Requests, Acts(r)
    PROVE  Writes(r) \/ UNCHANGED <<userVars, wrote>>
<1> USE DEF Writes, Wrote, Goto, WritingSteps, After, Ended, userVars, tokenVars, loginVars, history
<1>1. CASE Start(r)
  BY <1>1, StartCases DEF Starts, Begin
<1>2. ASSUME NEW step, Advance(r, step) PROVE UNCHANGED <<userVars, wrote>>
  BY <1>2 DEF Advance
<1>3. CASE Quiet(r)
  BY <1>2, <1>3, QuietAdvances
<1>4. CASE SendMail(r) \/ ConsumeToken(r) \/ GetUser(r) \/ CreateLogin(r) \/ RevokeLogins(r)
  BY <1>2, <1>4 DEF SendMail, ConsumeToken, GetUser, CreateLogin, RevokeLogins
<1>5. CASE CreateUser(r)
  BY <1>2, <1>5 DEF CreateUser, TypeOK
<1>6. CASE ActivateEmail(r)
  BY <1>2, <1>6 DEF ActivateEmail, TypeOK
<1>7. CASE ResetPassword(r)
  BY <1>2, <1>7 DEF ResetPassword, TypeOK
<1>8. CASE ReplacePassword(r)
  BY <1>8 DEF ReplacePassword, TypeOK
<1>9. CASE UpdateProfile(r)
  BY <1>2, <1>9 DEF UpdateProfile, TypeOK
<1>10. CASE UpdateStatus(r)
  BY <1>2, <1>10 DEF UpdateStatus, TypeOK
<1> QED BY <1>1, <1>3, <1>4, <1>5, <1>6, <1>7, <1>8, <1>9, <1>10 DEF Acts, Step, Quiet

\* A request that has written is past everything but revoking, mailing and ending.
LEMMA WrotePast ==
    ASSUME TypeOK, VersionInv, NEW r \in Requests, pc[r] \in WritingSteps \/ pc[r] = "idle"
    PROVE  r \notin wrote
  BY DEF VersionInv, WritingSteps, Ended

-----------------------------------------------------------------------------
(* Versions of the user row, passwords and reset tokens.                    *)

\* A request that has written goes on to revoke, mail or end, and nothing else.
LEMMA AfterStays ==
    ASSUME TypeOK, VersionInv, NEW r \in Requests, Acts(r), r \in wrote
    PROVE  pc'[r] \in After /\ UNCHANGED <<seen, covered, callVars, userVars, wrote, racing>>
<1>1. pc[r] \in After
  BY DEF VersionInv, After
<1>2. UNCHANGED <<userVars, wrote>>
  BY WriteCases, WrotePast DEF Writes
<1>3. Step(r) \/ Fail(r)
  BY <1>1, StartCases DEF Acts, Starts, Begin, After, Ended
<1>4. CASE Fail(r)
  BY <1>2, <1>4, <1>3, CallKept DEF Fail, Advance, Goto, TypeOK, After, Ended, history
<1>5. CASE CreateToken(r) \/ RevokeTokens(r)
  BY <1>2, <1>5, <1>3, CallKept DEF CreateToken, RevokeTokens, Advance, Goto, TypeOK, After, Ended, history
<1>6. CASE SendMail(r) \/ RevokeLogins(r)
  BY <1>2, <1>6, <1>3, CallKept DEF SendMail, RevokeLogins, Goto, TypeOK, After, Ended, history
<1> QED BY <1>1, <1>3, <1>4, <1>5, <1>6 DEF Step, After, Ended, FindEmail, CreateUser, ConsumeToken,
           ActivateEmail, GetUser, FindAuthenticator, ComparePassword, CreateLogin, FindLogin, Touch,
           FindResetToken, ResetPassword, ReplacePassword, UpdateProfile, UpdateStatus

LEMMA VersionStep ==
    TypeOK /\ FlowInv /\ VersionInv /\ VersionsReplacedOnce /\ ResetTokenUsedOnce /\ [Next]_vars
      => VersionInv' /\ VersionsReplacedOnce' /\ ResetTokenUsedOnce'
<1> SUFFICES ASSUME TypeOK, FlowInv, VersionInv, VersionsReplacedOnce, ResetTokenUsedOnce, [Next]_vars
             PROVE  VersionInv' /\ VersionsReplacedOnce' /\ ResetTokenUsedOnce'
  OBVIOUS
<1> DEFINE
      Version(r) ==
        /\ seen[r] \in wrote \cup {Initial}
        /\ r \in wrote => pc[r] \in After
        /\ r \in wrote /\ op[r] \in Rewriting => seen[r] # etag
        /\ r \in wrote /\ op[r] = "reset" => arg[r] \in consumed
        /\ pc[r] = "updateStatus" /\ seen[r] = etag =>
            IF op[r] = "disable" THEN status \in {"pending", "active"} ELSE status = "disabled"
<1>1. {etag, password} \subseteq wrote \cup {Initial} /\ \A r \in Requests : Version(r)
  BY DEF VersionInv, After
<1>2. CASE UNCHANGED vars
  BY <1>2 DEF vars, userVars, tokenVars, loginVars, callVars, history, VersionInv,
              VersionsReplacedOnce, ResetTokenUsedOnce
<1>3. ASSUME NEW r \in Requests, Acts(r) PROVE VersionInv' /\ VersionsReplacedOnce' /\ ResetTokenUsedOnce'
  <2>1. /\ consumed \subseteq consumed' /\ wrote \subseteq wrote'
        /\ \A q \in wrote : q \in Requests /\ op'[q] = op[q] /\ arg'[q] = arg[q]
    <3>1. \A q \in wrote : q \in Requests /\ pc[q] # "idle"
      BY WrotePast DEF TypeOK
    <3> QED BY <1>3, <3>1, Kept
  <2>2. ASSUME NEW q \in Requests \ {r} PROVE Version(q)'
    <3>1. Untouched(q) /\ Version(q) /\ op'[q] = op[q] /\ arg'[q] = arg[q]
      BY <1>1, <1>3, OthersUntouched DEF Untouched
    <3>2. CASE UNCHANGED <<userVars, wrote>>
      BY <2>1, <3>1, <3>2 DEF Untouched, userVars
    <3>3. CASE Writes(r)
      <4>1. seen[q] # r
        BY <3>1, <3>3, WrotePast, ConstantsAssumption DEF Writes
      <4> QED BY <2>1, <3>1, <3>3, <4>1 DEF Untouched, Writes
    <3> QED BY <1>3, <3>2, <3>3, WriteCases
  <2>3. Version(r)'
    <3>1. Version(r)
      BY <1>1
    <3>2. CASE r \in wrote
      BY <1>3, <2>1, <3>1, <3>2, AfterStays DEF userVars, callVars, After, Ended
    <3>3. CASE Writes(r)
      <4>1. /\ seen'[r] = seen[r] /\ op'[r] = op[r] /\ arg'[r] = arg[r] /\ pc'[r] \in After
            /\ pc[r] \in WritingSteps
        BY <3>3 DEF Writes, callVars
      <4>2. op[r] \in Rewriting => pc[r] \in {"updateProfile", "updateStatus"}
        BY <4>1 DEF FlowInv, Rewriting, WritingSteps
      <4>3. op[r] = "reset" => pc[r] = "resetPassword"
        BY <4>1 DEF FlowInv, WritingSteps
      <4>4. seen[r] # r
        BY <3>1, <3>3, WrotePast, ConstantsAssumption DEF Writes
      <4> QED BY <2>1, <3>1, <3>3, <4>1, <4>2, <4>3, <4>4 DEF Writes, After, Ended
    <3>4. CASE r \notin wrote /\ UNCHANGED <<userVars, wrote>>
      <4>1. CASE pc'[r] = "updateStatus"
        <5>1. CASE Start(r)
          BY <4>1, <5>1, StartCases DEF Starts, Begin, FirstStep, Goto, TypeOK
        <5>2. CASE GetUser(r)
          <6>1. AfterUser(r) = "updateStatus" /\ seen'[r] = etag /\ UNCHANGED <<op, status, etag>>
            BY <4>1, <5>2 DEF GetUser, Goto, TypeOK, callVars, userVars
          <6>2. op[r] \in {"disable", "enable"}
            BY <6>1 DEF AfterUser
          <6>3. IF op[r] = "disable" THEN status \in {"pending", "active"} ELSE status = "disabled"
            BY <6>1, <6>2 DEF AfterUser, TypeOK
          <6> QED BY <1>1, <3>4, <6>1, <6>3 DEF userVars
        <5>3. CASE Fail(r) \/ (Step(r) /\ ~GetUser(r))
          <6> USE <5>3, <4>1 DEF Goto, Advance, TypeOK
          <6>1. ASSUME NEW step, Advance(r, step) PROVE pc'[r] = step
            BY <6>1
          <6>2. ~Quiet(r)
            BY <6>1 DEF Quiet, Fail, FindEmail, CreateToken, FindLogin, FindResetToken, RevokeTokens,
                        FindAuthenticator, ComparePassword, Touch, AfterTouch
          <6>3. ~CreateUser(r) /\ ~SendMail(r) /\ ~ConsumeToken(r) /\ ~ActivateEmail(r)
            BY DEF CreateUser, SendMail, ConsumeToken, ActivateEmail, Ended
          <6>4. ~CreateLogin(r) /\ ~ResetPassword(r) /\ ~ReplacePassword(r)
            BY DEF CreateLogin, ResetPassword, ReplacePassword
          <6>5. ~UpdateProfile(r) /\ ~UpdateStatus(r) /\ ~RevokeLogins(r)
            BY DEF UpdateProfile, UpdateStatus, RevokeLogins
          <6> QED BY <6>2, <6>3, <6>4, <6>5 DEF Step, Quiet
        <5> QED BY <1>3, <5>1, <5>2, <5>3 DEF Acts
      <4>2. seen'[r] \in wrote \cup {Initial}
        <5>1. CASE GetUser(r)
          BY <1>1, <5>1 DEF GetUser, TypeOK
        <5>2. CASE ~GetUser(r)
          <6>1. UNCHANGED seen
            BY <1>3, <3>4, <5>2, StartCases, QuietAdvances DEF Acts, Step, Quiet, Advance, Starts,
               Begin, CreateUser, SendMail, ConsumeToken, ActivateEmail, CreateLogin, ResetPassword,
               ReplacePassword, UpdateProfile, UpdateStatus, RevokeLogins
          <6> QED BY <3>1, <6>1
        <5> QED BY <5>1, <5>2
      <4> QED BY <3>4, <4>1, <4>2
    <3> QED BY <1>3, <3>2, <3>3, <3>4, WriteCases
  <2>4. {etag', password'} \subseteq wrote' \cup {Initial}
    BY <1>1, <1>3, WriteCases DEF Writes, userVars
  <2>5. VersionInv'
    <3>1. \A q \in Requests : Version(q)'
      BY <2>2, <2>3
    <3> QED BY <2>4, <3>1 DEF VersionInv, After
  <2>6. ASSUME NEW q \in wrote PROVE seen'[q] = seen[q]
    <3>1. q \in Requests
      BY <2>6 DEF TypeOK
    <3> QED BY <1>3, <2>6, <3>1, OthersUntouched, AfterStays DEF Untouched
  <2>7. CASE wrote' = wrote
    <3>1. VersionsReplacedOnce'
      BY <2>1, <2>6, <2>7 DEF VersionsReplacedOnce
    <3>2. ResetTokenUsedOnce'
      BY <2>1, <2>7 DEF ResetTokenUsedOnce
    <3> QED BY <2>5, <3>1, <3>2
  <2>8. CASE Writes(r)
    <3>1. /\ wrote' = wrote \cup {r} /\ UNCHANGED <<op, arg, seen>>
          /\ pc[r] \in WritingSteps
      BY <2>8 DEF Writes, callVars
    <3>2. op[r] \in Rewriting => seen[r] = etag
      BY <2>8, <3>1 DEF Writes, FlowInv, Rewriting, WritingSteps
    <3>3. op[r] = "reset" => arg[r] \notin consumed
      BY <2>8, <3>1 DEF Writes, FlowInv, WritingSteps
    <3>4. \A q \in wrote : /\ op[q] \in Rewriting => seen[q] # etag
                           /\ op[q] = "reset" => arg[q] \in consumed
      BY <1>1, <2>1
    <3>5. VersionsReplacedOnce'
      BY <3>1, <3>2, <3>4 DEF VersionsReplacedOnce, Rewriting
    <3>6. ResetTokenUsedOnce'
      BY <3>1, <3>3, <3>4 DEF ResetTokenUsedOnce
    <3> QED BY <2>5, <3>5, <3>6
  <2> QED BY <1>3, <2>7, <2>8, WriteCases
<1> QED BY <1>2, <1>3 DEF Next, Acts

-----------------------------------------------------------------------------
(* Verification.                                                            *)

\* How a step changes the user's status, and with it the authenticator and the verification.
Changes(r) ==
    \/ /\ UNCHANGED <<status, authenticator, verified>>
       /\ op[r] # "register" \/ UNCHANGED wrote
    \/ /\ op[r] = "register" /\ status = "none" /\ status' = "pending"
       /\ authenticator' = "active" /\ verified' = verified
    \/ /\ pc[r] = "activate" /\ op[r] = "verify" /\ status = "pending" /\ status' = "active"
       /\ authenticator' = authenticator /\ verified' = TRUE
    \/ /\ op[r] = "disable" /\ status' = "disabled"
       /\ authenticator' = "disabled" /\ verified' = verified
    \/ /\ op[r] = "enable" /\ status' = "active" /\ r \in wrote'
       /\ authenticator' = "active" /\ verified' = verified

LEMMA ChangeCases ==
    ASSUME TypeOK, FlowInv, NEW r \in Requests, Acts(r)
    PROVE  Changes(r)
<1> USE DEF Changes, Wrote, userVars, history
<1>1. CASE Start(r)
  BY <1>1, StartCases DEF Starts, Begin
<1>2. ASSUME NEW step, Advance(r, step) PROVE Changes(r)
  BY <1>2 DEF Advance
<1>3. CASE Quiet(r)
  BY <1>2, <1>3, QuietAdvances
<1>4. CASE SendMail(r) \/ ConsumeToken(r) \/ GetUser(r) \/ CreateLogin(r) \/ RevokeLogins(r)
  BY <1>2, <1>4 DEF SendMail, ConsumeToken, GetUser, CreateLogin, RevokeLogins
<1>5. CASE CreateUser(r)
  <2>1. op[r] = "register"
    BY <1>5 DEF CreateUser, FlowInv
  <2> QED BY <1>2, <1>5, <2>1 DEF CreateUser
<1>6. CASE ActivateEmail(r)
  <2>1. op[r] = "verify"
    BY <1>6 DEF ActivateEmail, FlowInv
  <2> QED BY <1>2, <1>6, <2>1 DEF ActivateEmail
<1>7. CASE ResetPassword(r) \/ ReplacePassword(r) \/ UpdateProfile(r)
  <2>1. op[r] # "register"
    BY <1>7 DEF ResetPassword, ReplacePassword, UpdateProfile, FlowInv
  <2> QED BY <1>2, <1>7, <2>1 DEF ResetPassword, ReplacePassword, UpdateProfile
<1>8. CASE UpdateStatus(r)
  <2>1. op[r] \in {"disable", "enable"}
    BY <1>8 DEF UpdateStatus, FlowInv
  <2> QED BY <1>2, <1>8, <2>1 DEF UpdateStatus
<1> QED BY <1>1, <1>3, <1>4, <1>5, <1>6, <1>7, <1>8 DEF Acts, Step, Quiet

\* Login sessions are only created, by a login at its last step.
LEMMA LoginsGrow ==
    ASSUME TypeOK, NEW r \in Requests, Acts(r)
    PROVE  logins' = logins \/ (pc[r] = "createLogin" /\ logins' = logins \cup {r} /\ pc'[r] = "done")
<1> USE DEF Advance, Goto, loginVars, TypeOK
<1>1. CASE CreateLogin(r)
  BY <1>1 DEF CreateLogin
<1>2. CASE Start(r) \/ Quiet(r)
  BY <1>2, StartCases, QuietAdvances DEF Starts, Begin
<1>3. CASE CreateUser(r) \/ SendMail(r) \/ ConsumeToken(r) \/ ActivateEmail(r) \/ GetUser(r)
  BY <1>3 DEF CreateUser, SendMail, ConsumeToken, ActivateEmail, GetUser
<1>4. CASE ResetPassword(r) \/ ReplacePassword(r) \/ UpdateProfile(r) \/ UpdateStatus(r) \/ RevokeLogins(r)
  BY <1>4 DEF ResetPassword, ReplacePassword, UpdateProfile, UpdateStatus, RevokeLogins
<1> QED BY <1>1, <1>2, <1>3, <1>4 DEF Acts, Step, Quiet

\* A request that acts on a user it found active and verified, or on what such a user was sent.
Trusts(r) ==
    \/ /\ op[r] = "forgot"
       /\ pc[r] \in {"createToken", "sendMail"} \/ r \in mailed
    \/ op[r] = "reset"
    \/ pc[r] \in {"findAuthenticator", "touch", "comparePassword", "findAgain",
                  "replacePassword", "createLogin"}

LEMMA TrustFounded ==
    ASSUME TypeOK, FlowInv, UserInv, NEW r \in Requests, Acts(r), Trusts(r)'
    PROVE  verified
<1>1. \A q \in Requests : Trusts(q) => verified
  BY DEF UserInv, Trusts
<1> SUFFICES ASSUME ~Trusts(r) PROVE verified
  BY <1>1
<1> USE DEF Goto, TypeOK
<1>2. CASE Start(r)
  <2>1. PICK kind \in Ops, a \in Secrets, p \in Secrets, step \in Steps : Starts(r, kind, a, p, step)
    BY <1>2, StartCases
  <2>2. pc[r] = "idle" /\ pc'[r] = step /\ op'[r] = kind /\ UNCHANGED mailed
    BY <2>1 DEF Starts, Begin, tokenVars
  <2>3. FirstStep(kind, a, step) /\ r \notin mailed
    BY <2>1, <2>2 DEF Starts, FlowInv, Ended
  <2> HIDE DEF TypeOK, Goto
  <2>4. /\ step \in {"findEmail", "getUser", "consumeToken", "findResetToken", "findLogin"}
        /\ kind = "reset" => a \in Mailed({"forgot"})
    BY <2>3 DEF FirstStep, SessionOps
  <2>5. kind = "reset"
    BY <2>2, <2>3, <2>4 DEF Trusts
  <2> QED BY <1>1, <2>4, <2>5 DEF Mailed, Trusts, TypeOK
<1>3. CASE GetUser(r)
  <2>1. pc'[r] = AfterUser(r) /\ UNCHANGED <<op, mailed>>
    BY <1>3 DEF GetUser, callVars, tokenVars
  <2> QED BY <2>1 DEF Trusts, AfterUser, Eligible
<1>4. ASSUME UNCHANGED op, UNCHANGED mailed, pc'[r] \in {"failed", "done"} PROVE FALSE
  BY <1>4 DEF Trusts
<1>5. CASE Quiet(r)
  <2>1. PICK step : Advance(r, step)
    BY <1>5, QuietAdvances
  <2>2. UNCHANGED op /\ UNCHANGED mailed /\ pc'[r] = step
    BY <2>1 DEF Advance, callVars, tokenVars
  <2>3. ~Fail(r)
    BY <1>4, <2>2 DEF Fail, Advance
  <2> QED BY <1>5, <2>2, <2>3 DEF Quiet, Trusts, Advance, FindEmail, CreateToken, FindLogin, FindResetToken,
             RevokeTokens, FindAuthenticator, ComparePassword, Touch, FlowInv
<1>6. CASE SendMail(r)
  BY <1>6 DEF SendMail, Trusts, callVars, Ended
<1>7. CASE CreateUser(r)
  BY <1>7 DEF CreateUser, Trusts, callVars, tokenVars, FlowInv, Advance
<1>8. CASE ConsumeToken(r) \/ ActivateEmail(r)
  BY <1>8 DEF ConsumeToken, ActivateEmail, Trusts, callVars, tokenVars, Advance
<1>9. CASE CreateLogin(r) \/ RevokeLogins(r)
  BY <1>9 DEF CreateLogin, RevokeLogins, Trusts, callVars, tokenVars
<1>10. CASE ResetPassword(r) \/ ReplacePassword(r)
  BY <1>10 DEF ResetPassword, ReplacePassword, Trusts, callVars, tokenVars, Advance
<1>11. CASE UpdateProfile(r) \/ UpdateStatus(r)
  BY <1>11 DEF UpdateProfile, UpdateStatus, Trusts, callVars, tokenVars, Advance
<1> QED BY <1>2, <1>3, <1>5, <1>6, <1>7, <1>8, <1>9, <1>10, <1>11 DEF Acts, Step, Quiet

LEMMA UserStep == TypeOK /\ FlowInv /\ UserInv /\ [Next]_vars => UserInv'
<1> SUFFICES ASSUME TypeOK, FlowInv, UserInv, [Next]_vars PROVE UserInv'
  OBVIOUS
<1>1. CASE UNCHANGED vars
  BY <1>1 DEF UserInv, vars, userVars, tokenVars, loginVars, callVars
<1>2. ASSUME NEW r \in Requests, Acts(r) PROVE UserInv'
  <2>1. verified => verified'
    BY <1>2, ChangeCases DEF Changes
  <2>2. \A q \in Requests : Trusts(q)' => verified'
    <3>1. \A q \in Requests \ {r} : Trusts(q)' => Trusts(q)
      BY <1>2, OthersUntouched DEF Untouched, Trusts
    <3>2. \A q \in Requests : Trusts(q) => verified
      BY DEF UserInv, Trusts
    <3> QED BY <1>2, <2>1, <3>1, <3>2, TrustFounded
  <2>3. logins' # {} => verified'
    <3>1. CASE logins' = logins
      BY <2>1, <3>1 DEF UserInv
    <3>2. CASE pc[r] = "createLogin"
      BY <2>1, <3>2 DEF UserInv
    <3> QED BY <1>2, <3>1, <3>2, LoginsGrow
  <2>4. authenticator' = (IF status' = "none" THEN "none"
                          ELSE IF status' = "disabled" THEN "disabled" ELSE "active")
    BY <1>2, ChangeCases DEF Changes, UserInv
  <2>5. status' \in {"none", "pending"} => ~verified'
    BY <1>2, ChangeCases DEF Changes, UserInv
  <2> QED BY <2>2, <2>3, <2>4, <2>5 DEF UserInv, Trusts
<1> QED BY <1>1, <1>2 DEF Next, Acts

\* Verification comes by a token that was mailed, and unverified activation by EnableUser.
LEMMA MailStep == TypeOK /\ FlowInv /\ UserInv /\ VersionInv /\ MailInv /\ [Next]_vars => MailInv'
<1> SUFFICES ASSUME TypeOK, FlowInv, UserInv, VersionInv, MailInv, [Next]_vars PROVE MailInv'
  OBVIOUS
<1>1. CASE UNCHANGED vars
  BY <1>1 DEF MailInv, vars, userVars, tokenVars, callVars, history
<1>2. ASSUME NEW r \in Requests, Acts(r) PROVE MailInv'
  <2>1. /\ consumed \subseteq consumed' /\ wrote \subseteq wrote'
        /\ \A q \in Requests : pc[q] # "idle" => op'[q] = op[q] /\ arg'[q] = arg[q]
    BY <1>2, Kept
  <2>2. \A q \in wrote : op'[q] = op[q]
    BY <2>1, WrotePast DEF TypeOK
  <2>3. \A t \in consumed : op[t] \in {"register", "resend"} => op'[t] = op[t]
    BY <2>1 DEF FlowInv, TypeOK
  <2>4. \A q \in Requests : pc'[q] = "activate" => arg'[q] \in consumed'
    <3>1. \A q \in Requests \ {r} : pc'[q] = "activate" => arg'[q] \in consumed'
      BY <1>2, <2>1, OthersUntouched DEF Untouched, MailInv
    <3>2. ASSUME pc'[r] = "activate" PROVE arg'[r] \in consumed'
      <4> USE <3>2 DEF Goto, TypeOK
      <4>1. CASE ConsumeToken(r)
        BY <4>1 DEF ConsumeToken, Advance, callVars
      <4>2. CASE Start(r)
        BY <4>2, StartCases DEF Starts, Begin, FirstStep
      <4>3. ~Quiet(r)
        BY DEF Quiet, Fail, FindEmail, CreateToken, FindLogin, FindResetToken, RevokeTokens,
               FindAuthenticator, ComparePassword, Touch, AfterTouch, Advance
      <4>4. ~CreateUser(r) /\ ~SendMail(r) /\ ~ActivateEmail(r) /\ ~CreateLogin(r)
        BY DEF CreateUser, SendMail, ActivateEmail, CreateLogin, Advance, Ended
      <4>5. ~GetUser(r)
        BY DEF GetUser, AfterUser
      <4>6. ~ResetPassword(r) /\ ~ReplacePassword(r)
        BY DEF ResetPassword, ReplacePassword, Advance
      <4>7. ~UpdateProfile(r) /\ ~UpdateStatus(r) /\ ~RevokeLogins(r)
        BY DEF UpdateProfile, UpdateStatus, RevokeLogins, Advance
      <4> QED BY <1>2, <4>1, <4>2, <4>3, <4>4, <4>5, <4>6, <4>7 DEF Acts, Step, Quiet
    <3> QED BY <3>1, <3>2
  <2>5. verified' => \/ \E t \in consumed' : op'[t] \in {"register", "resend"}
                     \/ \A q \in wrote' : op'[q] # "register"
    <3>1. CASE pc[r] = "activate" /\ op[r] = "verify"
      <4>1. arg[r] \in consumed /\ op[arg[r]] \in {"register", "resend"}
        BY <3>1 DEF MailInv, FlowInv, Mailed
      <4> QED BY <2>1, <2>3, <4>1
    <3>2. CASE verified' = verified /\ (op[r] # "register" \/ UNCHANGED wrote)
      <4>1. wrote' = wrote \/ (wrote' = wrote \cup {r} /\ UNCHANGED op)
        BY <1>2, WriteCases DEF Writes, callVars
      <4>2. \A q \in wrote : op[q] # "register" => op'[q] # "register"
        BY <2>2
      <4>3. (\A q \in wrote : op[q] # "register") => (\A q \in wrote' : op'[q] # "register")
        BY <3>2, <4>1, <4>2
      <4>4. (\E t \in consumed : op[t] \in {"register", "resend"})
              => (\E t \in consumed' : op'[t] \in {"register", "resend"})
        BY <2>1, <2>3
      <4> QED BY <3>2, <4>3, <4>4 DEF MailInv
    <3>3. CASE status = "none" /\ verified' = verified
      BY <3>3 DEF UserInv
    <3> QED BY <1>2, <3>1, <3>2, <3>3, ChangeCases DEF Changes
  <2>6. status' = "active" /\ ~verified' => \E q \in wrote' : op'[q] = "enable"
    <3>1. CASE op[r] = "enable" /\ r \in wrote' /\ Writes(r)
      BY <3>1 DEF Writes, callVars
    <3>2. CASE UNCHANGED <<status, verified>>
      BY <2>1, <2>2, <3>2 DEF MailInv
    <3>3. CASE op[r] = "enable" /\ r \in wrote' /\ wrote' = wrote
      BY <2>2, <3>3
    <3> QED BY <1>2, <3>1, <3>2, <3>3, ChangeCases, WriteCases DEF Changes
  <2> QED BY <2>4, <2>5, <2>6 DEF MailInv
<1> QED BY <1>1, <1>2 DEF Next, Acts

-----------------------------------------------------------------------------
(* Racing logins.                                                           *)

Revoking == {"reset", "change", "disable"}
Exempt(r) == IF op[r] = "change" THEN {arg[r]} ELSE {}

\* A request that revokes: what it has covered when it gets to the token sessions or reports.
Covers(r) ==
    /\ covered[r] \subseteq logins
    /\ pc[r] \in {"revokeTokens", "done"} /\ op[r] \in Revoking =>
        r \in erred \/ covered[r] \subseteq loginRevoked \cup Exempt(r)
    /\ pc[r] = "done" => r \notin erred
    /\ r \in erred => pc[r] \in {"revokeTokens"} \cup Ended

\* A request whose disabling of the user stands.
ShutsOut(r) ==
    op[r] = "disable" /\ r \in wrote /\ etag = r =>
        /\ status = "disabled"
        /\ logins \subseteq covered[r] \cup racing[r]
        /\ \A q \in Requests : op[q] = "login" /\ pc[q] \in {"comparePassword", "createLogin"}
                                 => q \in racing[r]

\* A request whose password stands.
Rekeys(r) ==
    op[r] \in {"reset", "change"} /\ password = r =>
        /\ \A l \in logins : l \in covered[r] \cup racing[r] \/ typed[l] = r
        /\ \A q \in Requests : pc[q] = "createLogin" => q \in racing[r] \/ typed[q] = r

LEMMA RaceParts == RaceInv <=> \A r \in Requests : Covers(r) /\ ShutsOut(r) /\ Rekeys(r)
  BY DEF RaceInv, Covers, ShutsOut, Rekeys, Revoking, Exempt

LEMMA RevokedGrows ==
    ASSUME NEW r \in Requests, Acts(r)
    PROVE  loginRevoked \subseteq loginRevoked'
<1> USE DEF Advance, loginVars
<1>1. CASE Start(r)
  BY <1>1 DEF Start, Begin
<1>2. CASE Quiet(r)
  BY <1>2, QuietAdvances
<1>3. CASE CreateUser(r) \/ SendMail(r) \/ ConsumeToken(r) \/ ActivateEmail(r) \/ GetUser(r)
  BY <1>3 DEF CreateUser, SendMail, ConsumeToken, ActivateEmail, GetUser
<1>4. CASE CreateLogin(r) \/ ResetPassword(r) \/ ReplacePassword(r) \/ UpdateProfile(r)
  BY <1>4 DEF CreateLogin, ResetPassword, ReplacePassword, UpdateProfile
<1>5. CASE UpdateStatus(r) \/ RevokeLogins(r)
  BY <1>5 DEF UpdateStatus, RevokeLogins
<1> QED BY <1>1, <1>2, <1>3, <1>4, <1>5 DEF Acts, Step, Quiet

\* A request that reports success, or reaches the token sessions, revoked unless it erred.
LEMMA CoversStep ==
    ASSUME TypeOK, FlowInv, RaceInv, NEW r \in Requests, Acts(r)
    PROVE  \A q \in Requests : Covers(q)'
<1>1. \A q \in Requests : Covers(q)
  BY RaceParts
<1>2. logins \subseteq logins' /\ loginRevoked \subseteq loginRevoked'
  BY Kept, RevokedGrows
<1>3. ASSUME NEW q \in Requests \ {r} PROVE Covers(q)'
  BY <1>1, <1>2, OthersUntouched DEF Untouched, Covers, Exempt
<1>4. Covers(r)'
  <2> USE DEF Goto, TypeOK
  <2>1. CASE Start(r)
    <3>1. PICK kind \in Ops, a \in Secrets, p \in Secrets, step \in Steps : Starts(r, kind, a, p, step)
      BY <2>1, StartCases
    <3>2. /\ pc[r] = "idle" /\ pc'[r] = step /\ UNCHANGED <<logins, loginRevoked, erred, covered>>
      BY <3>1 DEF Starts, Begin, loginVars, history
    <3>3. step \notin {"revokeTokens", "done"}
      BY <3>1 DEF Starts, FirstStep
    <3>4. r \notin erred
      BY <1>1, <3>2 DEF Covers, Ended
    <3> HIDE DEF TypeOK
    <3> QED BY <1>1, <3>2, <3>3, <3>4 DEF Covers
  <2>2. ASSUME pc'[r] \notin {"revokeTokens", "done"}, r \in erred => pc'[r] \in Ended,
               covered'[r] \subseteq logins', UNCHANGED erred
        PROVE  Covers(r)'
    BY <2>2 DEF Covers
  <2>3. ASSUME r \notin erred, op[r] \notin Revoking, covered'[r] \subseteq logins', UNCHANGED <<erred, op>>
        PROVE  Covers(r)'
    BY <2>3 DEF Covers
  <2>4. pc[r] \notin {"revokeTokens"} \cup Ended => r \notin erred
    BY <1>1 DEF Covers
  <2>5. CASE RevokeTokens(r)
    <3>1. /\ pc[r] = "revokeTokens" /\ pc'[r] = (IF r \in erred THEN "failed" ELSE "done")
          /\ UNCHANGED <<op, arg, logins, loginRevoked, erred, covered>>
      BY <2>5 DEF RevokeTokens, Advance, callVars, loginVars, history
    <3>2. Covers(r)
      BY <1>1
    <3> HIDE DEF TypeOK
    <3> QED BY <3>1, <3>2 DEF Covers, Exempt, Ended
  <2>6. CASE RevokeLogins(r)
    <3>1. /\ pc[r] = "revokeLogins" /\ pc'[r] = "revokeTokens"
          /\ UNCHANGED <<op, arg, logins, covered>>
          /\ r \in erred' \/ loginRevoked' = loginRevoked \cup Revoked(r)
      BY <2>6 DEF RevokeLogins, callVars, history
    <3>2. covered[r] \subseteq logins
      BY <1>1 DEF Covers
    <3> HIDE DEF TypeOK
    <3> QED BY <3>1, <3>2 DEF Covers, Exempt, Revoked, Revoking
  <2>7. CASE Quiet(r) /\ ~RevokeTokens(r)
    <3>1. PICK step : Advance(r, step)
      BY <2>7, QuietAdvances
    <3>2. pc'[r] = step /\ UNCHANGED <<op, logins, erred, covered>>
      BY <3>1 DEF Advance, callVars, loginVars, history
    <3>3. covered'[r] \subseteq logins'
      BY <1>1, <3>2 DEF Covers
    <3>4. CASE step = "failed"
      BY <2>2, <3>2, <3>3, <3>4 DEF Ended
    <3>5. pc[r] \notin {"revokeTokens"} \cup Ended \/ Fail(r)
      BY <2>7 DEF Quiet, Fail, FindEmail, CreateToken, FindLogin, FindResetToken, RevokeTokens,
                  FindAuthenticator, ComparePassword, Touch, Ended
    <3>6. CASE Fail(r)
      BY <2>2, <3>2, <3>3, <3>6 DEF Fail, Advance, Ended
    <3>7. CASE ~Fail(r) /\ step \notin {"revokeTokens", "done"}
      BY <2>2, <2>4, <3>2, <3>3, <3>5, <3>7
    <3>8. CASE ~Fail(r) /\ step \in {"revokeTokens", "done"}
      <4>1. Touch(r) /\ step = "done"
        BY <2>7, <3>2, <3>8 DEF Quiet, FindEmail, CreateToken, FindLogin, FindResetToken, Advance,
                  FindAuthenticator, ComparePassword, Touch, AfterTouch
      <4>2. op[r] \notin Revoking
        BY <3>2, <4>1 DEF Touch, Advance, AfterTouch, FlowInv, Revoking
      <4> QED BY <2>3, <2>4, <3>2, <3>3, <4>1, <4>2 DEF Touch, Ended
    <3> QED BY <3>6, <3>7, <3>8
  <2>8. CASE GetUser(r)
    <3>1. /\ pc[r] = "getUser" /\ pc'[r] = AfterUser(r) /\ UNCHANGED <<op, logins, erred>>
          /\ covered'[r] = logins
      BY <2>8 DEF GetUser, callVars, loginVars
    <3>2. pc'[r] # "revokeTokens" /\ (pc'[r] = "done" => op[r] \notin Revoking)
      BY <3>1 DEF AfterUser, Revoking
    <3> QED BY <2>2, <2>3, <2>4, <3>1, <3>2 DEF Ended
  <2>9. CASE SendMail(r) \/ CreateLogin(r)
    <3>1. op[r] \notin Revoking /\ UNCHANGED <<op, erred, covered>> /\ pc[r] \in {"sendMail", "createLogin"}
      BY <2>9 DEF SendMail, CreateLogin, FlowInv, Revoking, callVars, history
    <3> QED BY <1>1, <1>2, <2>3, <2>4, <3>1 DEF Covers, Ended
  <2>10. CASE ConsumeToken(r)
    <3>1. pc'[r] \in {"failed", "activate"} /\ UNCHANGED <<erred, covered>> /\ pc[r] = "consumeToken"
      BY <2>10 DEF ConsumeToken, Advance, history
    <3> QED BY <1>1, <1>2, <2>2, <2>4, <3>1 DEF Covers, Ended
  <2>11. ASSUME Advance(r, "failed"), pc[r] \notin {"revokeTokens"} \cup Ended PROVE Covers(r)'
    <3>1. pc'[r] = "failed" /\ UNCHANGED <<logins, erred, covered>>
      BY <2>11 DEF Advance, loginVars, history
    <3> QED BY <1>1, <2>2, <2>4, <3>1 DEF Covers, Ended
  <2>12. CASE CreateUser(r) \/ ActivateEmail(r) \/ UpdateProfile(r)
    <3>1. op[r] \notin Revoking /\ pc[r] \notin {"revokeTokens"} \cup Ended
      BY <2>12 DEF CreateUser, ActivateEmail, UpdateProfile, FlowInv, Revoking, Ended
    <3>2. Advance(r, "failed") \/ (UNCHANGED <<op, erred, logins>> /\ covered'[r] = logins)
      BY <2>12 DEF CreateUser, ActivateEmail, UpdateProfile, Wrote, callVars, loginVars
    <3> QED BY <2>3, <2>4, <2>11, <3>1, <3>2
  <2>13. CASE ResetPassword(r) \/ ReplacePassword(r) \/ UpdateStatus(r)
    <3>1. pc[r] \notin {"revokeTokens"} \cup Ended
      BY <2>13 DEF ResetPassword, ReplacePassword, UpdateStatus, Ended
    <3>2. \/ Advance(r, "failed")
          \/ /\ UNCHANGED <<op, erred, logins>> /\ covered'[r] = logins
             /\ pc'[r] # "revokeTokens"
             /\ pc'[r] = "done" => op[r] # "disable" /\ pc[r] = "updateStatus"
      BY <2>13 DEF ResetPassword, ReplacePassword, UpdateStatus, Wrote, callVars, loginVars
    <3>3. pc[r] = "updateStatus" => op[r] \in {"disable", "enable"}
      BY DEF FlowInv
    <3> QED BY <2>2, <2>3, <2>4, <2>11, <3>1, <3>2, <3>3 DEF Revoking
  <2> QED BY <2>1, <2>5, <2>6, <2>7, <2>8, <2>9, <2>10, <2>12, <2>13 DEF Acts, Step, Quiet
<1> QED BY <1>3, <1>4

\* A login gets to its last two steps past an active authenticator and the current password.
LEMMA Reaches ==
    ASSUME TypeOK, FlowInv, NEW r \in Requests, Acts(r)
    PROVE  /\ pc'[r] = "comparePassword" => authenticator = "active" /\ UNCHANGED <<userVars, wrote>>
           /\ pc'[r] = "createLogin" => /\ pc[r] = "comparePassword" /\ op[r] = "login"
                                        /\ password = typed[r]
                                        /\ UNCHANGED <<userVars, wrote, op, typed>>
<1> SUFFICES ASSUME pc'[r] \in {"comparePassword", "createLogin"}
             PROVE  \/ /\ FindAuthenticator(r) /\ authenticator = "active" /\ pc'[r] = "comparePassword"
                       /\ UNCHANGED <<userVars, history>>
                    \/ /\ ComparePassword(r) /\ op[r] = "login" /\ password = typed[r]
                       /\ pc'[r] = "createLogin" /\ UNCHANGED <<userVars, history, callVars>>
  BY DEF ComparePassword, history, callVars
<1> USE DEF Goto, TypeOK, Advance
<1>1. CASE FindAuthenticator(r)
  BY <1>1 DEF FindAuthenticator
<1>2. CASE ComparePassword(r)
  BY <1>2 DEF ComparePassword
<1>3. ~Start(r)
  BY StartCases DEF Starts, Begin, FirstStep
<1>4. ~Fail(r) /\ ~FindEmail(r) /\ ~CreateToken(r) /\ ~FindLogin(r) /\ ~FindResetToken(r)
      /\ ~RevokeTokens(r) /\ ~Touch(r)
  BY DEF Fail, FindEmail, CreateToken, FindLogin, FindResetToken, RevokeTokens, Touch, AfterTouch
<1>5. ~CreateUser(r) /\ ~SendMail(r) /\ ~ConsumeToken(r) /\ ~ActivateEmail(r)
  BY DEF CreateUser, SendMail, ConsumeToken, ActivateEmail, Ended
<1>6. ~GetUser(r)
  BY DEF GetUser, AfterUser
<1>7. ~CreateLogin(r) /\ ~ResetPassword(r) /\ ~ReplacePassword(r)
  BY DEF CreateLogin, ResetPassword, ReplacePassword
<1>8. ~UpdateProfile(r) /\ ~UpdateStatus(r) /\ ~RevokeLogins(r)
  BY DEF UpdateProfile, UpdateStatus, RevokeLogins
<1> QED BY <1>1, <1>2, <1>3, <1>4, <1>5, <1>6, <1>7, <1>8 DEF Acts, Step

\* What a write notes of the logins under way.
LEMMA RaceNoted ==
    ASSUME TypeOK, FlowInv, VersionInv, NEW r \in Requests, Acts(r), Writes(r)
    PROVE  /\ op[r] = "disable" =>
                /\ status' = "disabled"
                /\ racing'[r] = {q \in Requests : op[q] = "login" /\ pc[q] \in {"comparePassword", "createLogin"}}
           /\ op[r] \in {"reset", "change"} =>
                racing'[r] = {q \in Requests : op[q] = "login" /\ pc[q] \in {"createLogin"}}
<1>1. pc[r] \in WritingSteps /\ r \in wrote' /\ r \notin wrote
  BY WrotePast, TypeOK DEF Writes, TypeOK
<1>2. ASSUME NEW step, Advance(r, step) PROVE FALSE
  BY <1>1, <1>2 DEF Advance, history
<1>3. ~Start(r) /\ ~Fail(r)
  BY <1>1, <1>2, StartCases DEF Starts, Begin, history, Fail
<1>4. CASE op[r] = "disable"
  <2>1. pc[r] = "updateStatus"
    BY <1>1, <1>4 DEF FlowInv, WritingSteps
  <2>2. UpdateStatus(r)
    BY <1>3, <2>1 DEF Acts, Step, FindEmail, CreateUser, CreateToken, SendMail, ConsumeToken,
           ActivateEmail, GetUser, FindAuthenticator, ComparePassword, CreateLogin, FindLogin, Touch,
           FindResetToken, ResetPassword, ReplacePassword, UpdateProfile, RevokeLogins, RevokeTokens
  <2> QED BY <1>2, <1>4, <2>2 DEF UpdateStatus, Wrote, TypeOK
<1>5. CASE op[r] \in {"reset", "change"}
  <2>1. pc[r] \in {"resetPassword", "replacePassword"}
    BY <1>1, <1>5 DEF FlowInv, WritingSteps
  <2>2. ResetPassword(r) \/ ReplacePassword(r)
    BY <1>3, <2>1 DEF Acts, Step, FindEmail, CreateUser, CreateToken, SendMail, ConsumeToken,
           ActivateEmail, GetUser, FindAuthenticator, ComparePassword, CreateLogin, FindLogin, Touch,
           FindResetToken, UpdateStatus, UpdateProfile, RevokeLogins, RevokeTokens
  <2> QED BY <1>2, <1>5, <2>2 DEF ResetPassword, ReplacePassword, Wrote, TypeOK
<1> QED BY <1>4, <1>5

\* While what a request wrote stands, what it covered and raced with stays what it was.
LEMMA Stands ==
    ASSUME TypeOK, FlowInv, VersionInv, NEW r \in Requests, Acts(r), NEW q \in Requests, q \in wrote
    PROVE  /\ covered'[q] = covered[q] /\ racing'[q] = racing[q] /\ op'[q] = op[q]
           /\ etag' = q => UNCHANGED <<etag, status, authenticator, verified>>
           /\ password' = q => password = q
<1>1. covered'[q] = covered[q] /\ racing'[q] = racing[q] /\ op'[q] = op[q]
  <2>1. CASE q = r
    BY <2>1, AfterStays DEF callVars
  <2>2. CASE q # r
    <3>1. Untouched(q)
      BY <2>2, OthersUntouched
    <3> QED BY <3>1 DEF Untouched
  <2> QED BY <2>1, <2>2
<1>2. CASE UNCHANGED <<userVars, wrote>>
  BY <1>1, <1>2 DEF userVars
<1>3. CASE Writes(r)
  <2>1. q # r
    BY <1>3, WrotePast DEF Writes
  <2> QED BY <1>1, <1>3, <2>1 DEF Writes
<1> QED BY <1>2, <1>3, WriteCases

LEMMA ShutsOutStep ==
    ASSUME TypeOK, FlowInv, UserInv, VersionInv, RaceInv, NEW r \in Requests, Acts(r), NEW q \in Requests
    PROVE  ShutsOut(q)'
<1> SUFFICES ASSUME op'[q] = "disable", q \in wrote', etag' = q
             PROVE  /\ status' = "disabled"
                    /\ logins' \subseteq covered'[q] \cup racing'[q]
                    /\ \A p \in Requests :
                        op'[p] = "login" /\ pc'[p] \in {"comparePassword", "createLogin"} => p \in racing'[q]
  BY DEF ShutsOut
<1>1. CASE q \in wrote
  <2>1. /\ covered'[q] = covered[q] /\ racing'[q] = racing[q] /\ op[q] = "disable"
        /\ etag = q /\ status' = status
    BY <1>1, Stands
  <2>2. /\ status = "disabled" /\ logins \subseteq covered[q] \cup racing[q]
        /\ \A p \in Requests : op[p] = "login" /\ pc[p] \in {"comparePassword", "createLogin"}
                                 => p \in racing[q]
    BY <1>1, <2>1, RaceParts DEF ShutsOut
  <2>3. logins' \subseteq covered[q] \cup racing[q]
    <3>1. pc[r] = "createLogin" => r \in racing[q]
      BY <2>2 DEF FlowInv
    <3> QED BY <2>2, <3>1, LoginsGrow
  <2>4. ASSUME NEW p \in Requests, op'[p] = "login", pc'[p] \in {"comparePassword", "createLogin"}
        PROVE  p \in racing[q]
    <3>1. CASE p # r
      BY <2>2, <2>4, <3>1, OthersUntouched DEF Untouched
    <3>2. CASE p = r
      BY <2>2, <2>4, <3>2, Reaches DEF UserInv
    <3> QED BY <3>1, <3>2
  <2> QED BY <2>1, <2>2, <2>3, <2>4
<1>2. CASE q \notin wrote
  <2>1. Writes(r) /\ q = r
    BY <1>2, WriteCases, OthersUntouched DEF Writes, Untouched
  <2>2. op[r] = "disable" /\ logins' = logins /\ covered'[r] = logins /\ UNCHANGED op
    BY <2>1 DEF Writes, callVars, TypeOK
  <2>3. /\ status' = "disabled"
        /\ racing'[r] = {p \in Requests : op[p] = "login" /\ pc[p] \in {"comparePassword", "createLogin"}}
    BY <2>1, <2>2, RaceNoted
  <2>4. \A p \in Requests \ {r} : pc'[p] = pc[p]
    BY OthersUntouched DEF Untouched
  <2> QED BY <2>1, <2>2, <2>3, <2>4
<1> QED BY <1>1, <1>2

LEMMA RekeysStep ==
    ASSUME TypeOK, FlowInv, VersionInv, RaceInv, NEW r \in Requests, Acts(r), NEW q \in Requests
    PROVE  Rekeys(q)'
<1> SUFFICES ASSUME op'[q] \in {"reset", "change"}, password' = q
             PROVE  /\ \A l \in logins' : l \in covered'[q] \cup racing'[q] \/ typed'[l] = q
                    /\ \A p \in Requests : pc'[p] = "createLogin" => p \in racing'[q] \/ typed'[p] = q
  BY DEF Rekeys
<1>1. \A p \in Requests : pc[p] # "idle" => typed'[p] = typed[p]
  <2>1. CASE Start(r)
    <3>1. pc[r] = "idle"
      BY <2>1, StartCases DEF Starts, Begin
    <3> QED BY <3>1, OthersUntouched DEF Untouched
  <2>2. CASE Step(r) \/ Fail(r)
    BY <2>2, CallKept DEF callVars
  <2> QED BY <2>1, <2>2 DEF Acts
<1>2. CASE q \in wrote
  <2>1. /\ covered'[q] = covered[q] /\ racing'[q] = racing[q] /\ op[q] \in {"reset", "change"}
        /\ password = q
    BY <1>2, Stands
  <2>2. /\ \A l \in logins : l \in covered[q] \cup racing[q] \/ typed[l] = q
        /\ \A p \in Requests : pc[p] = "createLogin" => p \in racing[q] \/ typed[p] = q
    BY <2>1, RaceParts DEF Rekeys
  <2>3. \A l \in logins : typed'[l] = typed[l]
    BY <1>1 DEF FlowInv, TypeOK, Ended
  <2>4. \A l \in logins' : l \in covered[q] \cup racing[q] \/ typed'[l] = q
    BY <1>1, <2>2, <2>3, LoginsGrow
  <2>5. ASSUME NEW p \in Requests, pc'[p] = "createLogin" PROVE p \in racing[q] \/ typed'[p] = q
    <3>1. CASE p # r
      BY <2>2, <2>5, <3>1, OthersUntouched DEF Untouched
    <3>2. CASE p = r
      BY <2>1, <2>5, <3>2, Reaches
    <3> QED BY <3>1, <3>2
  <2> QED BY <2>1, <2>4, <2>5
<1>3. CASE q \notin wrote
  <2>1. Writes(r) /\ q = r
    <3>1. password # q
      BY <1>3, ConstantsAssumption DEF VersionInv
    <3> QED BY <3>1, WriteCases DEF Writes, userVars
  <2>2. op[r] \in {"reset", "change"} /\ logins' = logins /\ covered'[r] = logins /\ pc'[r] # "createLogin"
    BY <2>1 DEF Writes, callVars, TypeOK, After, Ended
  <2>3. racing'[r] = {p \in Requests : op[p] = "login" /\ pc[p] \in {"createLogin"}}
    BY <2>1, <2>2, RaceNoted
  <2>4. \A p \in Requests \ {r} : pc'[p] = pc[p]
    BY OthersUntouched DEF Untouched
  <2>5. \A p \in Requests : pc'[p] = "createLogin" => p \in racing'[r]
    BY <2>2, <2>3, <2>4 DEF FlowInv
  <2> QED BY <2>1, <2>2, <2>5
<1> QED BY <1>2, <1>3

LEMMA RaceStep == TypeOK /\ FlowInv /\ UserInv /\ VersionInv /\ RaceInv /\ [Next]_vars => RaceInv'
<1> SUFFICES ASSUME TypeOK, FlowInv, UserInv, VersionInv, RaceInv, [Next]_vars PROVE RaceInv'
  OBVIOUS
<1>1. CASE UNCHANGED vars
  BY <1>1 DEF RaceInv, vars, userVars, loginVars, callVars, history
<1>2. ASSUME NEW r \in Requests, Acts(r) PROVE RaceInv'
  <2>1. \A q \in Requests : Covers(q)' /\ ShutsOut(q)' /\ Rekeys(q)'
    BY <1>2, CoversStep, ShutsOutStep, RekeysStep
  <2> QED BY <2>1 DEF RaceInv, Covers, ShutsOut, Rekeys, Revoking, Exempt
<1> QED BY <1>1, <1>2 DEF Next, Acts

-----------------------------------------------------------------------------
(* The inductive invariant and the theorems.                                *)

IInv ==
    /\ TypeOK /\ FlowInv /\ UserInv /\ VersionInv /\ MailInv /\ RaceInv
    /\ VersionsReplacedOnce /\ ResetTokenUsedOnce

LEMMA InitIInv == Init => IInv
<1> SUFFICES ASSUME Init PROVE IInv
  OBVIOUS
<1> USE ConstantsAssumption DEF Init
<1>1. TypeOK
  BY DEF TypeOK, Secrets
<1>2. FlowInv
  BY DEF FlowInv, Mailed, Ended
<1>3. UserInv
  BY DEF UserInv
<1>4. VersionInv
  BY DEF VersionInv
<1>5. MailInv
  BY DEF MailInv
<1>6. RaceInv
  BY DEF RaceInv
<1>7. VersionsReplacedOnce /\ ResetTokenUsedOnce
  BY DEF VersionsReplacedOnce, ResetTokenUsedOnce
<1> QED BY <1>1, <1>2, <1>3, <1>4, <1>5, <1>6, <1>7 DEF IInv

\* Every step of every request keeps the inductive invariant.
THEOREM Invariance == Spec => []IInv
<1>1. IInv /\ [Next]_vars => IInv'
  BY TypeStep, FlowStep, UserStep, VersionStep, MailStep, RaceStep DEF IInv
<1> QED BY <1>1, InitIInv, PTL DEF Spec

\* Every variable has its type, whatever the operations do to the rows.
THEOREM TypeCorrect == Spec => []TypeOK
  BY Invariance, PTL DEF IInv

\* A profile, status or administrator's update replaces the version of the user row it read.
THEOREM VersionsAreReplacedOnce == Spec => []VersionsReplacedOnce
  BY Invariance, PTL DEF IInv

\* ConsumeAndReplacePassword uses a reset token once, however many requests present it.
THEOREM ResetTokensAreUsedOnce == Spec => []ResetTokenUsedOnce
  BY Invariance, PTL DEF IInv

\* ConfirmPasswordReset, ChangePassword and DisableUser leave at most the logins racing them.
THEOREM OnlyRacingLoginsLive == Spec => []OnlyRacingLoginsSurvive
<1>1. IInv => OnlyRacingLoginsSurvive
  <2> SUFFICES ASSUME IInv, NEW r \in Requests, pc[r] = "done"
               PROVE  /\ op[r] \in {"reset", "disable"} => covered[r] \subseteq loginRevoked
                      /\ op[r] = "change" => covered[r] \subseteq loginRevoked \cup {arg[r]}
                      /\ op[r] = "reset" /\ password = r =>
                           Live \subseteq racing[r] \cup {l \in Requests : typed[l] = r}
                      /\ op[r] = "change" /\ password = r =>
                           Live \subseteq racing[r] \cup {l \in Requests : typed[l] = r} \cup {arg[r]}
                      /\ op[r] = "disable" /\ etag = r => Live \subseteq racing[r]
    BY DEF OnlyRacingLoginsSurvive, Done
  <2>1. Covers(r) /\ ShutsOut(r) /\ Rekeys(r) /\ r \notin erred
    BY RaceParts DEF IInv, Covers
  <2>2. op[r] \in Revoking => covered[r] \subseteq loginRevoked \cup Exempt(r)
    BY <2>1 DEF Covers
  <2>3. /\ op[r] \in {"reset", "disable"} => covered[r] \subseteq loginRevoked
        /\ op[r] = "change" => covered[r] \subseteq loginRevoked \cup {arg[r]}
    BY <2>2 DEF Revoking, Exempt
  <2>4. etag = r => r \in wrote
    BY ConstantsAssumption DEF IInv, VersionInv
  <2>5. \A l \in Live : l \in Requests /\ l \in logins /\ l \notin loginRevoked
    BY DEF Live, IInv, TypeOK
  <2> QED BY <2>1, <2>3, <2>4, <2>5 DEF ShutsOut, Rekeys
<1> QED BY <1>1, Invariance, PTL

\* No login session before the email is verified, which takes a token that was mailed; only
\* EnableUser activates a user without.
THEOREM LoginsNeedVerification == Spec => []LoginNeedsVerification
<1>1. IInv => LoginNeedsVerification
  BY DEF IInv, UserInv, MailInv, LoginNeedsVerification
<1> QED BY <1>1, Invariance, PTL

-----------------------------------------------------------------------------
(* Verification.                                                            *)

\* Tokens are consumed by VerifyEmail and ConfirmPasswordReset, and a verified email stays so.
LEMMA ConsumedBy ==
    ASSUME TypeOK, NEW r \in Requests, Acts(r)
    PROVE  /\ verified => verified'
           /\ consumed' = consumed \/ (ConsumeToken(r) /\ arg[r] \notin consumed) \/ ResetPassword(r)
<1> USE DEF Advance, userVars, tokenVars
<1>1. CASE Start(r)
  BY <1>1, StartCases DEF Starts, Begin
<1>2. CASE Fail(r) \/ FindEmail(r) \/ CreateUser(r) \/ CreateToken(r) \/ SendMail(r)
  BY <1>2 DEF Fail, FindEmail, CreateUser, CreateToken, SendMail
<1>3. CASE ConsumeToken(r) \/ ActivateEmail(r) \/ GetUser(r) \/ FindAuthenticator(r)
  BY <1>3 DEF ConsumeToken, ActivateEmail, GetUser, FindAuthenticator
<1>4. CASE ComparePassword(r) \/ CreateLogin(r) \/ FindLogin(r) \/ Touch(r)
  BY <1>4 DEF ComparePassword, CreateLogin, FindLogin, Touch
<1>5. CASE FindResetToken(r) \/ ResetPassword(r) \/ ReplacePassword(r) \/ UpdateProfile(r)
  BY <1>5 DEF FindResetToken, ResetPassword, ReplacePassword, UpdateProfile
<1>6. CASE UpdateStatus(r) \/ RevokeLogins(r) \/ RevokeTokens(r)
  BY <1>6 DEF UpdateStatus, RevokeLogins, RevokeTokens
<1> QED BY <1>1, <1>2, <1>3, <1>4, <1>5, <1>6 DEF Acts, Step

\* A request of VerifyEmail consumes, activates or fails.
LEMMA VerifySteps ==
    ASSUME FlowInv, NEW r \in Requests, op[r] = "verify", Step(r) \/ Fail(r)
    PROVE  Fail(r) \/ ConsumeToken(r) \/ ActivateEmail(r)
<1>1. pc[r] \in Steps => pc[r] \in {"consumeToken", "activate"}
  BY DEF FlowInv, Steps
<1>2. ~FindEmail(r) /\ ~CreateUser(r) /\ ~CreateToken(r) /\ ~SendMail(r)
  BY <1>1 DEF FindEmail, CreateUser, CreateToken, SendMail, Steps
<1>3. ~GetUser(r) /\ ~FindAuthenticator(r) /\ ~ComparePassword(r) /\ ~CreateLogin(r)
  BY <1>1 DEF GetUser, FindAuthenticator, ComparePassword, CreateLogin, Steps
<1>4. ~FindLogin(r) /\ ~Touch(r) /\ ~FindResetToken(r) /\ ~ResetPassword(r)
  BY <1>1 DEF FindLogin, Touch, FindResetToken, ResetPassword, Steps
<1>5. ~ReplacePassword(r) /\ ~UpdateProfile(r) /\ ~UpdateStatus(r) /\ ~RevokeLogins(r) /\ ~RevokeTokens(r)
  BY <1>1 DEF ReplacePassword, UpdateProfile, UpdateStatus, RevokeLogins, RevokeTokens, Steps
<1> QED BY <1>2, <1>3, <1>4, <1>5 DEF Step

\* Where a request of VerifyEmail goes from its two steps.
LEMMA VerifyOutcome ==
    ASSUME TypeOK, FlowInv, NEW r \in Requests, Step(r) \/ Fail(r), op[r] = "verify"
    PROVE  /\ pc'[r] = "done" => verified'
           /\ pc[r] \in {"consumeToken", "activate"}
           /\ pc[r] = "activate" => pc'[r] = "failed" \/ verified'
           /\ ConsumeToken(r) /\ arg[r] \notin consumed => pc'[r] = "activate" /\ consumed' = consumed \cup {arg[r]}
<1>1. CASE Fail(r) /\ ~ConsumeToken(r)
  BY <1>1 DEF Fail, Advance, Goto, FlowInv, Steps, TypeOK
<1>2. CASE ConsumeToken(r)
  BY <1>2 DEF ConsumeToken, Advance, Goto, TypeOK
<1>3. CASE ActivateEmail(r)
  BY <1>3 DEF ActivateEmail, ConsumeToken, Advance, Goto, TypeOK
<1> QED BY <1>1, <1>2, <1>3, VerifySteps

\* Only a token that was mailed is consumed.
OnlyMailed == consumed \subseteq mailed

LEMMA MailedStep == TypeOK /\ FlowInv /\ OnlyMailed /\ [Next]_vars => OnlyMailed'
<1> SUFFICES ASSUME TypeOK, FlowInv, OnlyMailed, [Next]_vars
             PROVE  OnlyMailed'
  OBVIOUS
<1>1. CASE UNCHANGED vars
  BY <1>1 DEF vars, tokenVars, OnlyMailed
<1>2. ASSUME NEW r \in Requests, Acts(r) PROVE OnlyMailed'
  <2>1. mailed \subseteq mailed'
    BY <1>2, Kept
  <2>2. CASE ResetPassword(r)
    BY <2>1, <2>2 DEF ResetPassword, Advance, tokenVars, FlowInv, Mailed, OnlyMailed
  <2>3. CASE ConsumeToken(r) /\ arg[r] \notin consumed
    BY <2>1, <2>3 DEF ConsumeToken, FlowInv, Mailed, OnlyMailed
  <2>4. CASE consumed' = consumed
    BY <2>1, <2>4 DEF OnlyMailed
  <2> QED BY <1>2, <2>2, <2>3, <2>4, ConsumedBy
<1> QED BY <1>1, <1>2 DEF Next, Acts

LEMMA VerifyStep ==
    TypeOK /\ FlowInv /\ OnlyMailed /\ VerificationIsReported /\ [Next]_vars
        => VerificationIsReported'
<1> SUFFICES ASSUME TypeOK, FlowInv, OnlyMailed, VerificationIsReported, [Next]_vars
             PROVE  VerificationIsReported'
  OBVIOUS
<1>1. CASE UNCHANGED vars
  BY <1>1 DEF vars, userVars, tokenVars, callVars, VerificationIsReported, Done
<1>2. ASSUME NEW r \in Requests, Acts(r) PROVE VerificationIsReported'
  <2>1. verified => verified'
    BY <1>2, ConsumedBy
  <2>2. \A q \in Requests \ {r} : pc'[q] = pc[q] /\ op'[q] = op[q] /\ arg'[q] = arg[q]
    BY <1>2, OthersUntouched DEF Untouched
  <2>3. Start(r) => pc[r] = "idle" /\ pc'[r] \in Steps
    BY StartCases DEF Starts, Begin, Goto, TypeOK
  <2>4. ~Start(r) => op'[r] = op[r] /\ arg'[r] = arg[r] /\ (Step(r) \/ Fail(r)) /\ pc[r] \in Steps
    BY <1>2, CallKept DEF Acts, callVars
  <2>5. ASSUME NEW q \in Requests, pc'[q] = "done", op'[q] = "verify" PROVE verified'
    <3>1. CASE q # r
      BY <2>1, <2>2, <2>5, <3>1 DEF VerificationIsReported, Done
    <3>2. CASE q = r
      BY <2>3, <2>4, <2>5, <3>2, VerifyOutcome DEF Steps
    <3> QED BY <3>1, <3>2
  <2>6. ASSUME NEW t \in consumed', op'[t] \in {"register", "resend"}
        PROVE  verified' \/ \E q \in Requests : op'[q] = "verify" /\ arg'[q] = t /\ pc'[q] \in {"activate", "failed"}
    <3>1. CASE t \notin consumed
      <4>1. consumed' # consumed /\ ~Start(r)
        BY <3>1, <2>6, StartCases DEF Starts, Begin, tokenVars
      <4>2. CASE ResetPassword(r)
        <5>1. t = arg[r] /\ op[r] = "reset"
          BY <3>1, <2>6, <4>2 DEF ResetPassword, Advance, tokenVars, FlowInv
        <5>2. t \in mailed /\ op[t] = "forgot"
          BY <5>1 DEF FlowInv, Mailed
        <5>3. t \in Requests /\ pc[t] # "idle"
          BY <5>2 DEF FlowInv, Ended, TypeOK
        <5>4. op'[t] = op[t]
          BY <1>2, <5>3, Kept
        <5> QED BY <2>6, <5>2, <5>4
      <4>3. CASE ConsumeToken(r) /\ arg[r] \notin consumed
        <5>1. op[r] = "verify"
          BY <4>3 DEF ConsumeToken, FlowInv
        <5>2. pc'[r] = "activate" /\ consumed' = consumed \cup {arg[r]}
          BY <2>4, <4>1, <4>3, <5>1, VerifyOutcome
        <5> QED BY <2>4, <2>6, <3>1, <4>1, <5>1, <5>2
      <4> QED BY <1>2, <4>1, <4>2, <4>3, ConsumedBy
    <3>2. CASE t \in consumed /\ ~verified
      <4>1. t \in Requests
        BY <3>2 DEF TypeOK
      <4>2. CASE t = r /\ Start(r)
        <5>1. pc[r] \in Ended
          BY <3>2, <4>2 DEF FlowInv, OnlyMailed
        <5> QED BY <2>3, <4>2, <5>1 DEF Ended
      <4>3. CASE ~(t = r /\ Start(r))
        <5>1. op[t] = op'[t]
          BY <2>2, <2>4, <4>1, <4>3
        <5>2. PICK q \in Requests : op[q] = "verify" /\ arg[q] = t /\ pc[q] \in {"activate", "failed"}
          BY <2>6, <3>2, <5>1 DEF VerificationIsReported
        <5>3. CASE q # r
          BY <2>2, <5>2, <5>3
        <5>4. CASE q = r
          <6>1. ~Start(r) /\ pc[r] = "activate"
            BY <2>3, <2>4, <5>2, <5>4 DEF Steps
          <6> QED BY <2>4, <5>2, <5>4, <6>1, VerifyOutcome
        <5> QED BY <5>3, <5>4
      <4> QED BY <4>2, <4>3
    <3> QED BY <2>1, <3>1, <3>2
  <2> QED BY <2>5, <2>6 DEF VerificationIsReported, Done
<1> QED BY <1>1, <1>2 DEF Next, Acts

\* A token of VerifyEmail that is used up verified the email, unless its request failed.
THEOREM VerificationsAreReported == Spec => []VerificationIsReported
<1>1. Init => OnlyMailed /\ VerificationIsReported
  BY DEF Init, OnlyMailed, VerificationIsReported, Done
<1>2. IInv /\ OnlyMailed /\ VerificationIsReported /\ [Next]_vars
        => OnlyMailed' /\ VerificationIsReported'
  BY MailedStep, VerifyStep DEF IInv
<1> QED BY <1>1, <1>2, Invariance, PTL DEF Spec

-----------------------------------------------------------------------------
(* The promises of UserAccount.                                             *)

Known == {r \in LettingIn : pc[r] = "createLogin"}
Late == {"comparePassword", "createLogin"}

\* Of those being let in, a step changes at most the request itself.
LEMMA LettingInStep ==
    ASSUME TypeOK, NEW r \in Requests, Acts(r)
    PROVE  /\ LettingIn' \ {r} = LettingIn \ {r} /\ Known' \ {r} = Known \ {r}
           /\ LettingIn \subseteq Requests /\ LettingIn' \subseteq Requests
           /\ Known \subseteq Requests /\ Known' \subseteq Requests
<1>1. \A q \in Requests \ {r} : op'[q] = op[q] /\ pc'[q] = pc[q]
  BY OthersUntouched DEF Untouched
<1> QED BY <1>1 DEF LettingIn, Known

\* A step that keeps away from the last two steps of a login.
LEMMA Away ==
    ASSUME TypeOK, NEW r \in Requests, Acts(r), pc[r] \notin Late, pc'[r] \notin Late
    PROVE  LettingIn' = LettingIn /\ Known' = Known
<1>1. r \notin LettingIn /\ r \notin LettingIn' /\ r \notin Known /\ r \notin Known'
  BY DEF LettingIn, Known, Late
<1> QED BY <1>1, LettingInStep

LEMMA AccountStutters ==
    ASSUME UNCHANGED <<status, verified, password, typed, logins, loginRevoked, LettingIn, Known>>
    PROVE  UNCHANGED Account!vars
  BY DEF Account!vars, Known

LEMMA AccountSteps ==
    ASSUME IInv, NEW r \in Requests, Step(r) \/ Fail(r)
    PROVE  Account!Next \/ UNCHANGED Account!vars
<1> DEFINE Goal == Account!Next \/ UNCHANGED Account!vars
<1> SUFFICES Goal
  OBVIOUS
<1>1. TypeOK /\ FlowInv /\ UserInv /\ VersionInv /\ Acts(r) /\ typed' = typed /\ op' = op
  BY CallKept DEF IInv, Acts, callVars
<1>2. ASSUME UNCHANGED <<status, verified, password, logins, loginRevoked, LettingIn, Known>> PROVE Goal
  BY <1>1, <1>2, AccountStutters
<1> HIDE DEF Goal
<1>3. ASSUME pc[r] \notin Late, pc'[r] \notin Late PROVE LettingIn' = LettingIn /\ Known' = Known
  BY <1>1, <1>3, Away
<1>4. ASSUME NEW step, Advance(r, step)
      PROVE  pc'[r] = step /\ UNCHANGED <<status, verified, password, logins, loginRevoked>>
  BY <1>1, <1>4 DEF Advance, Goto, TypeOK, userVars, loginVars
<1>5. ASSUME Advance(r, "failed") PROVE Goal
  <2>1. CASE r \notin LettingIn
    <3>1. LettingIn' = LettingIn /\ Known' = Known
      BY <1>1, <1>4, <1>5, <2>1, LettingInStep DEF LettingIn, Known
    <3> QED BY <1>2, <1>4, <1>5, <3>1
  <2>2. CASE r \in LettingIn
    <3>1. r \notin logins
      BY <1>1, <2>2 DEF LettingIn, FlowInv, Ended
    <3>2. r \notin LettingIn' /\ r \notin Known'
      BY <1>4, <1>5 DEF LettingIn, Known
    <3>3. LettingIn' = LettingIn \ {r} /\ Known' = Known \ {r}
      BY <1>1, <3>2, LettingInStep
    <3>4. Account!GiveUp(r)
      BY <1>1, <1>4, <1>5, <3>1, <3>3 DEF Account!GiveUp, Known
    <3> QED BY <3>4 DEF Goal, Account!Next
  <2> QED BY <2>1, <2>2
<1>6. CASE Fail(r)
  BY <1>5, <1>6 DEF Fail
<1>7. CASE FindEmail(r) \/ CreateToken(r) \/ FindLogin(r) \/ FindResetToken(r) \/ RevokeTokens(r) \/ Touch(r)
  <2>1. PICK step : Advance(r, step) /\ step \notin Late /\ pc[r] \notin Late
    BY <1>7 DEF FindEmail, CreateToken, FindLogin, FindResetToken, RevokeTokens, Touch, AfterTouch, Late
  <2> QED BY <1>2, <1>3, <1>4, <2>1
<1>8. CASE FindAuthenticator(r)
  <2>1. CASE authenticator # "active" \/ op[r] # "login" \/ pc[r] # "findAuthenticator"
    <3>1. PICK step : Advance(r, step) /\ (step = "comparePassword" => op[r] # "login")
                      /\ step # "createLogin"
      BY <1>8, <2>1 DEF FindAuthenticator
    <3>2. r \notin LettingIn /\ r \notin LettingIn' /\ r \notin Known /\ r \notin Known'
      BY <1>1, <1>4, <1>8, <3>1 DEF LettingIn, Known, FindAuthenticator
    <3> QED BY <1>1, <1>2, <1>4, <3>1, <3>2, LettingInStep
  <2>2. CASE authenticator = "active" /\ op[r] = "login" /\ pc[r] = "findAuthenticator"
    <3>1. Advance(r, "comparePassword")
      BY <1>8, <2>2 DEF FindAuthenticator
    <3>2. r \in LettingIn' /\ r \notin Known /\ r \notin Known'
      BY <1>1, <1>4, <2>2, <3>1 DEF LettingIn, Known
    <3>3. LettingIn' = LettingIn \cup {r} /\ Known' = Known
      BY <1>1, <3>2, LettingInStep
    <3>4. status = "active" /\ verified
      BY <1>1, <2>2 DEF UserInv, TypeOK
    <3>5. Account!Admit(r)
      BY <1>1, <1>4, <3>1, <3>3, <3>4 DEF Account!Admit, Known
    <3> QED BY <3>5 DEF Goal, Account!Next
  <2> QED BY <2>1, <2>2
<1>9. CASE ComparePassword(r)
  <2>1. CASE password # typed[r]
    BY <1>5, <1>9, <2>1 DEF ComparePassword
  <2>2. CASE password = typed[r] /\ op[r] # "login"
    <3>1. Advance(r, "findAgain")
      BY <1>9, <2>2 DEF ComparePassword
    <3>2. r \notin LettingIn /\ r \notin LettingIn' /\ r \notin Known /\ r \notin Known'
      BY <1>1, <2>2 DEF LettingIn, Known
    <3> QED BY <1>1, <1>2, <1>4, <3>1, <3>2, LettingInStep
  <2>3. CASE password = typed[r] /\ op[r] = "login"
    <3>1. Advance(r, "createLogin") /\ pc[r] = "comparePassword"
      BY <1>9, <2>3 DEF ComparePassword
    <3>2. r \in LettingIn /\ r \in LettingIn' /\ r \in Known'
      BY <1>1, <1>4, <2>3, <3>1 DEF LettingIn, Known
    <3>3. LettingIn' = LettingIn /\ Known' = Known \cup {r}
      BY <1>1, <3>2, LettingInStep
    <3>4. Account!Prove(r)
      BY <1>1, <1>4, <2>3, <3>1, <3>2, <3>3 DEF Account!Prove, Known
    <3> QED BY <3>4 DEF Goal, Account!Next
  <2> QED BY <2>1, <2>2, <2>3
<1>10. CASE CreateLogin(r)
  <2>1. /\ pc[r] = "createLogin" /\ pc'[r] = "done" /\ logins' = logins \cup {r}
        /\ UNCHANGED <<status, verified, password, loginRevoked>>
    BY <1>1, <1>10 DEF CreateLogin, Goto, TypeOK, userVars
  <2>2. r \in LettingIn /\ r \in Known /\ r \notin LettingIn' /\ r \notin Known'
    BY <1>1, <2>1 DEF LettingIn, Known, FlowInv
  <2>3. LettingIn' = LettingIn \ {r} /\ Known' = Known \ {r}
    BY <1>1, <2>2, LettingInStep
  <2>4. Account!Open(r)
    BY <1>1, <2>1, <2>2, <2>3 DEF Account!Open, Known
  <2> QED BY <2>4 DEF Goal, Account!Next
<1>11. CASE SendMail(r) \/ ConsumeToken(r) \/ GetUser(r)
  <2>1. pc[r] \notin Late /\ UNCHANGED <<status, verified, password, logins, loginRevoked>>
    BY <1>4, <1>11 DEF SendMail, ConsumeToken, GetUser, Late, userVars, loginVars
  <2>2. pc'[r] \notin Late
    <3>1. AfterUser(r) \notin Late
      BY DEF AfterUser, Late
    <3> QED BY <1>1, <1>4, <1>11, <3>1 DEF SendMail, ConsumeToken, GetUser, Late, Ended, Goto, TypeOK
  <2> QED BY <1>2, <1>3, <2>1, <2>2
<1>12. CASE RevokeLogins(r)
  <2>1. /\ pc[r] = "revokeLogins" /\ pc'[r] = "revokeTokens"
        /\ UNCHANGED <<status, verified, password, logins>>
        /\ loginRevoked' = loginRevoked \/ loginRevoked' = loginRevoked \cup Revoked(r)
    BY <1>1, <1>12 DEF RevokeLogins, Goto, TypeOK, userVars
  <2>2. LettingIn' = LettingIn /\ Known' = Known
    BY <1>3, <2>1 DEF Late
  <2>3. Revoked(r) \in SUBSET logins
    BY <1>1, <2>1 DEF Revoked, FlowInv
  <2>4. ASSUME loginRevoked' = loginRevoked \cup Revoked(r) PROVE Account!Close(Revoked(r))
    BY <1>1, <2>1, <2>2, <2>4 DEF Account!Close, Known
  <2> QED BY <1>2, <2>1, <2>2, <2>3, <2>4 DEF Goal, Account!Next
<1>13. ASSUME pc[r] \in WritingSteps, pc'[r] \in After PROVE LettingIn' = LettingIn /\ Known' = Known
  BY <1>3, <1>13 DEF WritingSteps, After, Ended, Late
<1> USE <1>1 DEF Goto, userVars, loginVars
<1>14. CASE CreateUser(r)
  <2>1. CASE status # "none"
    BY <1>5, <1>14, <2>1 DEF CreateUser
  <2>2. CASE status = "none"
    <3>1. /\ status' = "pending" /\ password' = r /\ pc' = [pc EXCEPT ![r] = "createToken"]
          /\ pc[r] = "createUser" /\ UNCHANGED <<verified, logins, loginRevoked>>
      BY <1>14, <2>2 DEF CreateUser
    <3>2. LettingIn' = LettingIn /\ Known' = Known
      BY <1>3, <3>1 DEF Late, TypeOK
    <3>3. Account!Register(r)
      BY <2>2, <3>1, <3>2 DEF Account!Register, Account!Sessions, Known
    <3> QED BY <3>3 DEF Goal, Account!Next
  <2> QED BY <2>1, <2>2
<1>15. CASE ActivateEmail(r)
  <2>1. CASE status # "pending"
    BY <1>5, <1>15, <2>1 DEF ActivateEmail
  <2>2. CASE status = "pending"
    <3>1. /\ status' = "active" /\ verified' = TRUE /\ pc' = [pc EXCEPT ![r] = "done"]
          /\ pc[r] = "activate" /\ UNCHANGED <<password, logins, loginRevoked>>
      BY <1>15, <2>2 DEF ActivateEmail
    <3>2. LettingIn' = LettingIn /\ Known' = Known
      BY <1>3, <3>1 DEF Late, TypeOK
    <3>3. Account!Verify
      BY <2>2, <3>1, <3>2 DEF Account!Verify, Account!Sessions, Known
    <3> QED BY <3>3 DEF Goal, Account!Next
  <2> QED BY <2>1, <2>2
<1>16. CASE ResetPassword(r) \/ ReplacePassword(r)
  <2>1. CASE Advance(r, "failed")
    BY <1>5, <2>1
  <2>2. CASE ~Advance(r, "failed")
    <3>1. /\ password' = r /\ pc' = [pc EXCEPT ![r] = "revokeLogins"]
          /\ pc[r] \in {"resetPassword", "replacePassword"}
          /\ UNCHANGED <<status, verified, logins, loginRevoked>>
      BY <1>16, <2>2 DEF ResetPassword, ReplacePassword
    <3>2. LettingIn' = LettingIn /\ Known' = Known
      BY <1>3, <3>1 DEF Late, TypeOK
    <3>3. verified /\ status # "none"
      BY <3>1 DEF UserInv, FlowInv
    <3>4. Account!ReplacePassword(r)
      BY <3>1, <3>2, <3>3 DEF Account!ReplacePassword, Account!Sessions, Known
    <3> QED BY <3>4 DEF Goal, Account!Next
  <2> QED BY <2>1, <2>2
<1>17. CASE UpdateProfile(r)
  <2>1. CASE Advance(r, "failed")
    BY <1>5, <2>1
  <2>2. CASE ~Advance(r, "failed")
    <3>1. /\ pc' = [pc EXCEPT ![r] = "done"] /\ pc[r] = "updateProfile"
          /\ UNCHANGED <<status, verified, password, logins, loginRevoked>>
      BY <1>17, <2>2 DEF UpdateProfile
    <3>2. LettingIn' = LettingIn /\ Known' = Known
      BY <1>3, <3>1 DEF Late, TypeOK
    <3> QED BY <1>2, <3>1, <3>2
  <2> QED BY <2>1, <2>2
<1>18. CASE UpdateStatus(r)
  <2>1. CASE etag # seen[r]
    BY <1>5, <1>18, <2>1 DEF UpdateStatus
  <2>2. CASE etag = seen[r]
    <3>1. /\ status' = (IF op[r] = "disable" THEN "disabled" ELSE "active")
          /\ pc'[r] \in {"revokeLogins", "done"} /\ pc[r] = "updateStatus"
          /\ UNCHANGED <<verified, password, logins, loginRevoked>>
      BY <1>18, <2>2 DEF UpdateStatus, TypeOK
    <3>2. LettingIn' = LettingIn /\ Known' = Known
      BY <1>3, <3>1 DEF Late
    <3>3. IF op[r] = "disable" THEN status \in {"pending", "active"} ELSE status = "disabled"
      BY <2>2, <3>1 DEF VersionInv
    <3>4. Account!Disable \/ Account!Enable
      BY <3>1, <3>2, <3>3 DEF Account!Disable, Account!Enable, Account!Sessions, Known
    <3> QED BY <3>4 DEF Goal, Account!Next
  <2> QED BY <2>1, <2>2
<1> QED BY <1>6, <1>7, <1>8, <1>9, <1>10, <1>11, <1>12, <1>14, <1>15, <1>16, <1>17, <1>18 DEF Step

\* The service keeps the promises of UserAccount: a login session opens only for a request
\* that was let in while the user was active and verified, and knew the password of the moment.
THEOREM ServiceKeepsPromises == Spec => KeepsPromises
<1>1. Init => Account!Init
  BY DEF Init, Account!Init, LettingIn
<1>2. IInv /\ [Next]_vars => [Account!Next]_(Account!vars)
  <2> SUFFICES ASSUME IInv, [Next]_vars PROVE Account!Next \/ UNCHANGED Account!vars
    OBVIOUS
  <2>1. CASE UNCHANGED vars
    BY <2>1 DEF vars, userVars, loginVars, callVars, Account!vars, LettingIn
  <2>2. ASSUME NEW r \in Requests, Start(r) PROVE Account!Next
    <3>1. TypeOK /\ FlowInv /\ Acts(r)
      BY <2>2 DEF IInv, Acts
    <3>2. PICK kind \in Ops, a \in Secrets, p \in Secrets, step \in Steps : Starts(r, kind, a, p, step)
      BY <2>2, <3>1, StartCases
    <3>3. /\ pc[r] = "idle" /\ pc' = [pc EXCEPT ![r] = step] /\ typed' = [typed EXCEPT ![r] = p]
          /\ UNCHANGED <<status, verified, password, logins, loginRevoked>> /\ step \notin Late
      BY <3>2 DEF Starts, Begin, Goto, FirstStep, userVars, loginVars, Late
    <3>4. LettingIn' = LettingIn /\ Known' = Known
      BY <3>1, <3>3, Away DEF TypeOK, Late
    <3>5. r \notin logins \cup LettingIn
      BY <3>1, <3>3 DEF FlowInv, LettingIn, Ended
    <3>6. Account!Present(r, p)
      BY <3>3, <3>4, <3>5 DEF Account!Present, Known
    <3> QED BY <3>6 DEF Account!Next, Account!Passwords, Secrets
  <2> QED BY <2>1, <2>2, AccountSteps DEF Next
<1> QED BY <1>1, <1>2, Invariance, PTL DEF Spec, KeepsPromises, Account!Spec
=============================================================================
