------------------------ MODULE TokenSessions_proofs ------------------------
(***************************************************************************)
(* Proofs about OAuth token sessions, for any number of requests, codes    *)
(* and login sessions and any operations.                                  *)
(***************************************************************************)
EXTENDS TokenSessions, TLAPS

\* A request's place in its operation and the existence of what it refers to are part of
\* why the row locks have their type.
BaseInv == TypeOK /\ FlowInv /\ IssuedInv

-----------------------------------------------------------------------------
(* What the three statements of a revocation write.                         *)

WrittenRows == [sessions : SUBSET Requests, access : SUBSET Requests, refresh : SUBSET Requests]

\* The UPDATE of the sessions adds the live ones among its targets to what is written.
LEMMA RevokeSessionsWrites ==
    ASSUME TypeOK, NEW r \in Requests, RevokeSessions(r)
    PROVE  /\ written' \in [Requests -> WrittenRows]
           /\ written'[r].sessions = written[r].sessions \cup {s \in targets[r] : Live(s)}
           /\ written'[r].access = written[r].access
           /\ written'[r].refresh = written[r].refresh
           /\ \A q \in Requests \ {r} : written'[q] = written[q]
<1> DEFINE matched == {s \in targets[r] : Live(s)}
<1>1. matched \subseteq Requests
  BY DEF TypeOK, TokensOf
<1>2. written' = [written EXCEPT ![r].sessions = @ \cup matched]
  BY DEF RevokeSessions
<1>3. written \in [Requests -> WrittenRows]
  BY DEF TypeOK, WrittenRows
<1> HIDE DEF matched
<1>4. /\ written' \in [Requests -> WrittenRows]
      /\ written'[r].sessions = written[r].sessions \cup matched
      /\ written'[r].access = written[r].access
      /\ written'[r].refresh = written[r].refresh
      /\ \A q \in Requests \ {r} : written'[q] = written[q]
  BY <1>1, <1>2, <1>3 DEF WrittenRows
<1> QED BY <1>4 DEF matched

\* The UPDATE of the access tokens adds those of the target sessions.
LEMMA RevokeAccessWrites ==
    ASSUME TypeOK, NEW r \in Requests, RevokeAccess(r)
    PROVE  /\ written' \in [Requests -> WrittenRows]
           /\ written'[r].access = written[r].access \cup TokensOf(targets[r], access \ accessRevoked)
           /\ written'[r].sessions = written[r].sessions
           /\ written'[r].refresh = written[r].refresh
           /\ \A q \in Requests \ {r} : written'[q] = written[q]
<1> DEFINE matched == TokensOf(targets[r], access \ accessRevoked)
<1>1. matched \subseteq Requests
  BY DEF TypeOK, TokensOf
<1>2. written' = [written EXCEPT ![r].access = @ \cup matched]
  BY DEF RevokeAccess
<1>3. written \in [Requests -> WrittenRows]
  BY DEF TypeOK, WrittenRows
<1> HIDE DEF matched
<1>4. /\ written' \in [Requests -> WrittenRows]
      /\ written'[r].access = written[r].access \cup matched
      /\ written'[r].sessions = written[r].sessions
      /\ written'[r].refresh = written[r].refresh
      /\ \A q \in Requests \ {r} : written'[q] = written[q]
  BY <1>1, <1>2, <1>3 DEF WrittenRows
<1> QED BY <1>4 DEF matched

\* The UPDATE of the refresh tokens adds those of the target sessions.
LEMMA RevokeRefreshWrites ==
    ASSUME TypeOK, NEW r \in Requests, RevokeRefresh(r)
    PROVE  /\ written' \in [Requests -> WrittenRows]
           /\ written'[r].refresh = written[r].refresh \cup TokensOf(targets[r], refresh \ refreshRevoked)
           /\ written'[r].sessions = written[r].sessions
           /\ written'[r].access = written[r].access
           /\ \A q \in Requests \ {r} : written'[q] = written[q]
<1> DEFINE matched == TokensOf(targets[r], refresh \ refreshRevoked)
<1>1. matched \subseteq Requests
  BY DEF TypeOK, TokensOf
<1>2. written' = [written EXCEPT ![r].refresh = @ \cup matched]
  BY DEF RevokeRefresh
<1>3. written \in [Requests -> WrittenRows]
  BY DEF TypeOK, WrittenRows
<1> HIDE DEF matched
<1>4. /\ written' \in [Requests -> WrittenRows]
      /\ written'[r].refresh = written[r].refresh \cup matched
      /\ written'[r].sessions = written[r].sessions
      /\ written'[r].access = written[r].access
      /\ \A q \in Requests \ {r} : written'[q] = written[q]
  BY <1>1, <1>2, <1>3 DEF WrittenRows
<1> QED BY <1>4 DEF matched

-----------------------------------------------------------------------------
\* The steps of the requests keep the types of the variables.
LEMMA TypeStep == BaseInv /\ [Next]_vars => TypeOK'
<1> SUFFICES ASSUME BaseInv, [Next]_vars PROVE TypeOK'
  OBVIOUS
<1> USE DEF BaseInv, TypeOK, authVars, tables, reqVars, revokeVars
<1>1. ASSUME NEW c \in Codes, NEW l \in Logins, ResolveLogin(c, l) PROVE TypeOK'
  BY <1>1 DEF ResolveLogin
<1>2. ASSUME NEW c \in Codes, NEW l \in Logins, CompleteAuthRequest(c, l) PROVE TypeOK'
  BY <1>2 DEF CompleteAuthRequest
<1>3. ASSUME NEW c \in Codes, SaveAuthCode(c) PROVE TypeOK'
  BY <1>3 DEF SaveAuthCode
<1>4. CASE Enable
  BY <1>4 DEF Enable
<1>5. ASSUME NEW r \in Requests, Start(r) PROVE TypeOK'
  <2> USE DEF Begin, Goto, Covers, Steps
  <2>1. ASSUME NEW c \in Codes, BeginExchange(r, c) PROVE TypeOK'
    BY <2>1 DEF BeginExchange
  <2>2. ASSUME NEW t \in Requests, BeginRefresh(r, t) PROVE TypeOK'
    BY <2>2 DEF BeginRefresh
  <2>3. ASSUME NEW t \in Requests, BeginRevoke(r, t) PROVE TypeOK'
    <3>1. {s \in {family[t]} : Live(s)} \subseteq Requests
      BY DEF Live
    <3> QED BY <2>3, <3>1 DEF BeginRevoke
  <2>4. CASE BeginTerminate(r)
    BY <2>4 DEF BeginTerminate
  <2>5. ASSUME NEW l \in Logins, BeginLogout(r, l) PROVE TypeOK'
    <3>1. {s \in {s \in sessions : LoginOf(s) = l} : Live(s)} \subseteq Requests
      OBVIOUS
    <3> QED BY <2>5, <3>1 DEF BeginLogout
  <2>6. CASE BeginDisable(r)
    BY <2>6 DEF BeginDisable
  <2> QED BY <1>5, <2>1, <2>2, <2>3, <2>4, <2>5, <2>6 DEF Start
<1>6. ASSUME NEW r \in Requests, NEW how \in Ended, End(r, how) PROVE TypeOK'
  BY <1>6 DEF End, Goto, Release, Moved
<1>7. ASSUME NEW r \in Requests, NEW step \in Steps, Advance(r, step) PROVE TypeOK'
  BY <1>7 DEF Advance, Goto, Moved
<1>8. ASSUME NEW r \in Requests, op[r] = "refresh", Replayed(r) PROVE TypeOK'
  <2>1. family[arg[r]] \in Requests
    BY <1>8 DEF FlowInv, IssuedInv
  <2> QED BY <1>8, <2>1 DEF Replayed, Goto, Steps
<1>9. ASSUME NEW r \in Requests, Step(r) PROVE TypeOK'
  <2> USE DEF Goto, Steps, Ended, Moved
  <2>1. CASE ConsumeCode(r)
    <3>1. <<r, <<"code", arg[r]>>>> \in Requests \X Rows
      BY <2>1 DEF ConsumeCode, FlowInv, Rows
    <3>2. CASE End(r, "failed")
      BY <1>6, <3>2
    <3>3. CASE locks' = locks \cup {<<r, <<"code", arg[r]>>>>} /\ Goto(r, "checkUser") /\ Moved
      <4>1. locks' \in SUBSET (Requests \X Rows)
        BY <3>1, <3>3
      <4> QED BY <3>3, <4>1
    <3> QED BY <2>1, <3>2, <3>3 DEF ConsumeCode
  <2>2. CASE CheckUser(r)
    BY <1>6, <2>2 DEF CheckUser
  <2>3. CASE IssueForCode(r)
    BY <2>3 DEF IssueForCode, FlowInv, Release
  <2>4. CASE Lookup(r) \/ LookupSession(r) \/ QueryCurrent(r) \/ CheckSession(r)
    BY <1>6, <1>7, <1>8, <2>4 DEF Lookup, LookupSession, QueryCurrent, CheckSession, FlowInv
  <2>5. CASE TouchSession(r)
    <3>1. <<r, <<"session", family[arg[r]]>>>> \in Requests \X Rows
      BY <2>5 DEF TouchSession, FlowInv, IssuedInv, Rows
    <3>2. CASE End(r, "failed")
      BY <1>6, <3>2
    <3>3. CASE /\ locks' = locks \cup {<<r, <<"session", family[arg[r]]>>>>}
               /\ Goto(r, "consumeRefresh")
               /\ Moved
      <4>1. locks' \in SUBSET (Requests \X Rows)
        BY <3>1, <3>3
      <4> QED BY <3>3, <4>1
    <3> QED BY <2>5, <3>2, <3>3 DEF TouchSession
  <2>6. CASE ConsumeRefresh(r)
    <3>1. <<r, <<"refresh", arg[r]>>>> \in Requests \X Rows /\ op[r] = "refresh"
      BY <2>6 DEF ConsumeRefresh, FlowInv, Rows
    <3>2. CASE Replayed(r)
      BY <1>8, <3>1, <3>2
    <3>3. CASE locks' = locks \cup {<<r, <<"refresh", arg[r]>>>>} /\ Goto(r, "issue") /\ Moved
      <4>1. locks' \in SUBSET (Requests \X Rows)
        BY <3>1, <3>3
      <4> QED BY <3>3, <4>1
    <3> QED BY <2>6, <3>2, <3>3 DEF ConsumeRefresh
  <2>7. CASE IssueForRefresh(r)
    BY <2>7 DEF IssueForRefresh, FlowInv, Release
  <2>8. CASE RevokeLogins(r)
    BY <2>8 DEF RevokeLogins, FlowInv
  <2>9. CASE FindSessions(r)
    <3>1. Found(r) \subseteq Requests
      BY DEF Found
    <3>2. CASE Found(r) = {}
      BY <1>6, <2>9, <3>2 DEF FindSessions, Outcome
    <3>3. CASE Found(r) # {}
      <4>1. PICK first \in IF op[r] = "terminate" THEN {{s} : s \in Found(r)} ELSE {Found(r)} :
                /\ targets' = [targets EXCEPT ![r] = first]
                /\ todo' = [todo EXCEPT ![r] = Found(r) \ first]
        BY <2>9, <3>3 DEF FindSessions
      <4>2. first \subseteq Requests
        BY <3>1
      <4> QED BY <2>9, <3>1, <3>3, <4>1, <4>2 DEF FindSessions
    <3> QED BY <3>2, <3>3
  <2>10. CASE RevokeSessions(r)
    <3> DEFINE matched == {s \in targets[r] : Live(s)}
    <3>1. {r} \X ({"session"} \X matched) \subseteq Requests \X Rows
      BY DEF Rows
    <3>2. locks' \in SUBSET (Requests \X Rows)
      BY <2>10, <3>1 DEF RevokeSessions
    <3>3. written' \in [Requests -> WrittenRows]
      BY <2>10, RevokeSessionsWrites
    <3> QED BY <2>10, <3>2, <3>3 DEF RevokeSessions, RevokeStep, WrittenRows
  <2>11. CASE RevokeAccess(r)
    <3>1. written' \in [Requests -> WrittenRows]
      BY <2>11, RevokeAccessWrites
    <3> QED BY <2>11, <3>1 DEF RevokeAccess, RevokeStep, WrittenRows
  <2>12. CASE RevokeRefresh(r)
    <3> DEFINE matched == TokensOf(targets[r], refresh \ refreshRevoked)
    <3>1. {r} \X ({"refresh"} \X matched) \subseteq Requests \X Rows
      BY DEF Rows, TokensOf
    <3>2. locks' \in SUBSET (Requests \X Rows)
      BY <2>12, <3>1 DEF RevokeRefresh
    <3>3. written' \in [Requests -> WrittenRows]
      BY <2>12, RevokeRefreshWrites
    <3>4. CASE todo[r] = {}
      <4>1. RevokeStep(r, "commitRevoke") /\ UNCHANGED <<todo, targets>>
        BY <2>12, <3>4 DEF RevokeRefresh
      <4> QED BY <3>2, <3>3, <4>1 DEF RevokeStep, WrittenRows
    <3>5. CASE todo[r] # {}
      <4>1. PICK s \in todo[r] : /\ targets' = [targets EXCEPT ![r] = {s}]
                                 /\ todo' = [todo EXCEPT ![r] = @ \ {s}]
                                 /\ RevokeStep(r, "revokeSessions")
        BY <2>12, <3>5 DEF RevokeRefresh
      <4>2. {s} \subseteq Requests
        OBVIOUS
      <4> QED BY <3>2, <3>3, <4>1, <4>2 DEF RevokeStep, WrittenRows
    <3> QED BY <3>4, <3>5
  <2>13. CASE CommitRevoke(r)
    BY <2>13 DEF CommitRevoke, Release, Outcome
  <2> QED BY <1>9, <2>1, <2>2, <2>3, <2>4, <2>5, <2>6, <2>7, <2>8, <2>9, <2>10, <2>11, <2>12,
             <2>13 DEF Step
<1>10. ASSUME NEW r \in Requests, Fail(r) PROVE TypeOK'
  BY <1>6, <1>10 DEF Fail, Ended
<1>11. CASE UNCHANGED vars
  BY <1>11 DEF vars
<1> QED
  BY <1>1, <1>2, <1>3, <1>4, <1>5, <1>9, <1>10, <1>11 DEF Next, Authorize
-----------------------------------------------------------------------------
\* A request takes the steps of its operation only, and keeps what it was called with.
LEMMA FlowStep == BaseInv /\ [Next]_vars => FlowInv'
<1> SUFFICES ASSUME BaseInv, [Next]_vars PROVE FlowInv'
  OBVIOUS
<1> USE DEF BaseInv, TypeOK, FlowInv, authVars, tables, reqVars, revokeVars
<1>1. ASSUME NEW c \in Codes, NEW l \in Logins, ResolveLogin(c, l) PROVE FlowInv'
  BY <1>1 DEF ResolveLogin
<1>2. ASSUME NEW c \in Codes, NEW l \in Logins, CompleteAuthRequest(c, l) PROVE FlowInv'
  <2>1. \A d \in Codes : auth[d] = "code" => auth'[d] = "code"
    BY <1>2 DEF CompleteAuthRequest
  <2> QED BY <1>2, <2>1 DEF CompleteAuthRequest
<1>3. ASSUME NEW c \in Codes, SaveAuthCode(c) PROVE FlowInv'
  <2>1. \A d \in Codes : auth[d] = "code" => auth'[d] = "code"
    BY <1>3 DEF SaveAuthCode
  <2> QED BY <1>3, <2>1 DEF SaveAuthCode
<1>4. CASE Enable
  BY <1>4 DEF Enable
<1>5. ASSUME NEW r \in Requests, Start(r) PROVE FlowInv'
  <2> USE DEF Begin, Goto
  <2>1. ASSUME NEW c \in Codes, BeginExchange(r, c) PROVE FlowInv'
    BY <2>1 DEF BeginExchange
  <2>2. ASSUME NEW t \in Requests, BeginRefresh(r, t) PROVE FlowInv'
    BY <2>2 DEF BeginRefresh
  <2>3. ASSUME NEW t \in Requests, BeginRevoke(r, t) PROVE FlowInv'
    BY <2>3 DEF BeginRevoke
  <2>4. CASE BeginTerminate(r)
    BY <2>4 DEF BeginTerminate
  <2>5. ASSUME NEW l \in Logins, BeginLogout(r, l) PROVE FlowInv'
    BY <2>5 DEF BeginLogout
  <2>6. CASE BeginDisable(r)
    BY <2>6 DEF BeginDisable
  <2> QED BY <1>5, <2>1, <2>2, <2>3, <2>4, <2>5, <2>6 DEF Start
<1>6. ASSUME NEW r \in Requests, NEW how \in {"failed", "revoked"}, End(r, how) PROVE FlowInv'
  BY <1>6 DEF End, Goto, Moved, Ended
<1>7. ASSUME NEW r \in Requests, Replayed(r) PROVE FlowInv'
  BY <1>7 DEF Replayed, Goto
<1>8. ASSUME NEW r \in Requests, Step(r) PROVE FlowInv'
  <2> USE DEF Goto, Ended, Moved
  <2>1. CASE ConsumeCode(r)
    BY <1>6, <2>1 DEF ConsumeCode
  <2>2. CASE CheckUser(r)
    BY <1>6, <2>2 DEF CheckUser
  <2>3. CASE IssueForCode(r)
    BY <2>3 DEF IssueForCode
  <2>4. CASE Lookup(r)
    BY <1>6, <1>7, <2>4 DEF Lookup, Advance
  <2>5. CASE LookupSession(r)
    BY <1>6, <2>5 DEF LookupSession, Advance
  <2>6. CASE QueryCurrent(r)
    BY <1>6, <1>7, <2>6 DEF QueryCurrent, Advance
  <2>7. CASE CheckSession(r)
    BY <1>6, <2>7 DEF CheckSession, Advance
  <2>8. CASE TouchSession(r)
    BY <1>6, <2>8 DEF TouchSession
  <2>9. CASE ConsumeRefresh(r)
    BY <1>7, <2>9 DEF ConsumeRefresh
  <2>10. CASE IssueForRefresh(r)
    BY <2>10 DEF IssueForRefresh
  <2>11. CASE RevokeLogins(r)
    BY <2>11 DEF RevokeLogins
  <2>12. CASE FindSessions(r)
    <3>1. op[r] \in {"revoke", "terminate", "logout", "disable"}
      BY <2>12 DEF FindSessions
    <3>2. CASE Found(r) = {}
      BY <1>6, <2>12, <3>1, <3>2 DEF FindSessions, Outcome
    <3>3. CASE Found(r) # {}
      BY <2>12, <3>1, <3>3 DEF FindSessions
    <3> QED BY <3>2, <3>3
  <2>13. CASE RevokeSessions(r)
    BY <2>13 DEF RevokeSessions, RevokeStep
  <2>14. CASE RevokeAccess(r)
    BY <2>14 DEF RevokeAccess, RevokeStep
  <2>15. CASE RevokeRefresh(r)
    BY <2>15 DEF RevokeRefresh, RevokeStep
  <2>16. CASE CommitRevoke(r)
    BY <2>16 DEF CommitRevoke, Outcome
  <2> QED BY <1>8, <2>1, <2>2, <2>3, <2>4, <2>5, <2>6, <2>7, <2>8, <2>9, <2>10, <2>11, <2>12,
             <2>13, <2>14, <2>15, <2>16 DEF Step
<1>9. ASSUME NEW r \in Requests, Fail(r) PROVE FlowInv'
  BY <1>6, <1>9 DEF Fail, Ended
<1>10. CASE UNCHANGED vars
  BY <1>10 DEF vars
<1> QED
  BY <1>1, <1>2, <1>3, <1>4, <1>5, <1>8, <1>9, <1>10 DEF Next, Authorize

\* What the start of an operation changes: the request's place, operation and argument.
LEMMA StartFrame ==
    ASSUME TypeOK, NEW r \in Requests, Start(r)
    PROVE  /\ pc[r] = "idle"
           /\ pc'[r] \in {"consumeCode", "lookup", "findSessions", "revokeLogins"}
           /\ \A q \in Requests \ {r} : pc'[q] = pc[q] /\ op'[q] = op[q] /\ arg'[q] = arg[q]
           /\ UNCHANGED <<tables, locks, revokeVars>>
<1>1. ASSUME NEW kind, NEW a, NEW step \in {"consumeCode", "lookup", "findSessions", "revokeLogins"},
             Begin(r, kind, a, step)
      PROVE  /\ pc[r] = "idle"
             /\ pc'[r] \in {"consumeCode", "lookup", "findSessions", "revokeLogins"}
             /\ \A q \in Requests \ {r} : pc'[q] = pc[q] /\ op'[q] = op[q] /\ arg'[q] = arg[q]
             /\ UNCHANGED <<tables, locks, revokeVars>>
  BY <1>1 DEF Begin, Goto, TypeOK
<1>2. ASSUME NEW c \in Codes, BeginExchange(r, c) PROVE Begin(r, "exchange", c, "consumeCode")
  BY <1>2 DEF BeginExchange
<1>3. ASSUME NEW t \in Requests, BeginRefresh(r, t) PROVE Begin(r, "refresh", t, "lookup")
  BY <1>3 DEF BeginRefresh
<1>4. ASSUME NEW t \in Requests, BeginRevoke(r, t) PROVE Begin(r, "revoke", t, "findSessions")
  BY <1>4 DEF BeginRevoke
<1>5. ASSUME BeginTerminate(r) PROVE Begin(r, "terminate", None, "findSessions")
  BY <1>5 DEF BeginTerminate
<1>6. ASSUME NEW l \in Logins, BeginLogout(r, l) PROVE Begin(r, "logout", l, "revokeLogins")
  BY <1>6 DEF BeginLogout
<1>7. CASE BeginDisable(r)
  BY <1>7 DEF BeginDisable, Goto, TypeOK
<1>8. CASE \E kind, a : \E step \in {"consumeCode", "lookup", "findSessions", "revokeLogins"} :
              Begin(r, kind, a, step)
  BY <1>1, <1>8
<1> QED BY <1>2, <1>3, <1>4, <1>5, <1>6, <1>7, <1>8 DEF Start

\* What a request issues is named after it and belongs to an existing session.
LEMMA IssuedStep == BaseInv /\ LockInv /\ RevokeInv /\ [Next]_vars => IssuedInv'
<1> SUFFICES ASSUME BaseInv, LockInv, RevokeInv, [Next]_vars PROVE IssuedInv'
  OBVIOUS
<1> USE DEF BaseInv, TypeOK, IssuedInv, authVars, tables, reqVars, revokeVars
<1>1. ASSUME NEW c \in Codes, NEW l \in Logins, ResolveLogin(c, l) PROVE IssuedInv'
  BY <1>1 DEF ResolveLogin
<1>2. ASSUME NEW c \in Codes, NEW l \in Logins, CompleteAuthRequest(c, l) PROVE IssuedInv'
  BY <1>2 DEF CompleteAuthRequest
<1>3. ASSUME NEW c \in Codes, SaveAuthCode(c) PROVE IssuedInv'
  BY <1>3 DEF SaveAuthCode
<1>4. CASE Enable
  BY <1>4 DEF Enable
\* Every other step but an issue and the commit of a revocation leaves the tables alone, and
\* is taken by a request that has not issued anything.
<1>5. ASSUME NEW r \in Requests, pc[r] # "issued", UNCHANGED tables,
             \A q \in Requests \ {r} : pc'[q] = pc[q] /\ op'[q] = op[q] /\ arg'[q] = arg[q]
      PROVE  IssuedInv'
  <2>1. r \notin sessions \cup access \cup refresh
    BY <1>5
  <2> QED BY <1>5, <2>1
<1>6. ASSUME NEW r \in Requests, Start(r) PROVE IssuedInv'
  <2>1. pc[r] # "issued" /\ UNCHANGED tables
    BY <1>6, StartFrame
  <2>2. \A q \in Requests \ {r} : pc'[q] = pc[q] /\ op'[q] = op[q] /\ arg'[q] = arg[q]
    BY <1>6, StartFrame
  <2> QED BY <1>5, <2>1, <2>2
<1>7. ASSUME NEW r \in Requests, Step(r) PROVE IssuedInv'
  <2> USE DEF Goto, Moved, End, Advance, Replayed, RevokeStep
  <2>1. CASE IssueForCode(r)
    <3>1. r \notin sessions \cup access \cup refresh
      BY <2>1 DEF IssueForCode
    <3> QED BY <2>1, <3>1 DEF IssueForCode
  <2>2. CASE IssueForRefresh(r)
    <3>1. r \notin sessions \cup access \cup refresh /\ arg[r] \in refresh
      BY <2>2 DEF IssueForRefresh, FlowInv
    <3>2. family[arg[r]] \in sessions
      BY <3>1
    <3> QED BY <2>2, <3>1, <3>2 DEF IssueForRefresh
  <2>3. CASE CommitRevoke(r)
    <3>1. r \notin sessions \cup access \cup refresh
      BY <2>3 DEF CommitRevoke
    <3>2. written[r].sessions \subseteq sessions
      BY <2>3 DEF CommitRevoke, RevokeInv, Revoking
    <3> QED BY <2>3, <3>1, <3>2 DEF CommitRevoke
  <2>4. CASE ConsumeCode(r) \/ CheckUser(r) \/ Lookup(r) \/ LookupSession(r)
    BY <1>5, <2>4 DEF ConsumeCode, CheckUser, Lookup, LookupSession
  <2>5. CASE QueryCurrent(r) \/ CheckSession(r) \/ TouchSession(r) \/ ConsumeRefresh(r)
    BY <1>5, <2>5 DEF QueryCurrent, CheckSession, TouchSession, ConsumeRefresh
  <2>6. CASE RevokeLogins(r)
    BY <1>5, <2>6 DEF RevokeLogins
  <2>7. CASE FindSessions(r)
    BY <1>5, <2>7 DEF FindSessions
  <2>8. CASE RevokeSessions(r) \/ RevokeAccess(r) \/ RevokeRefresh(r)
    BY <1>5, <2>8 DEF RevokeSessions, RevokeAccess, RevokeRefresh
  <2> QED BY <1>7, <2>1, <2>2, <2>3, <2>4, <2>5, <2>6, <2>7, <2>8 DEF Step
<1>8. ASSUME NEW r \in Requests, Fail(r) PROVE IssuedInv'
  BY <1>5, <1>8 DEF Fail, End, Goto, Moved, Steps
<1>9. CASE UNCHANGED vars
  BY <1>9 DEF vars
<1> QED
  BY <1>1, <1>2, <1>3, <1>4, <1>6, <1>7, <1>8, <1>9 DEF Next, Authorize
-----------------------------------------------------------------------------
(* What one request's step means for the others.                            *)

Acts(r) == Start(r) \/ Step(r) \/ Fail(r)

\* A step moves one request only.
LEMMA OthersUntouched ==
    ASSUME TypeOK, NEW r \in Requests, Acts(r), NEW q \in Requests \ {r}
    PROVE  /\ pc'[q] = pc[q] /\ op'[q] = op[q] /\ arg'[q] = arg[q]
           /\ todo'[q] = todo[q] /\ targets'[q] = targets[q] /\ written'[q] = written[q]
           /\ covered'[q] = covered[q]
<1> USE DEF TypeOK, authVars, tables, reqVars, revokeVars, Goto, Moved, Release
<1>1. CASE Start(r)
  BY <1>1 DEF Start, BeginExchange, BeginRefresh, BeginRevoke, BeginTerminate, BeginLogout,
              BeginDisable, Begin, Covers
<1>2. CASE Fail(r)
  BY <1>2 DEF Fail, End
<1>3. CASE ConsumeCode(r) \/ CheckUser(r) \/ Lookup(r) \/ LookupSession(r)
  BY <1>3 DEF ConsumeCode, CheckUser, Lookup, LookupSession, End, Replayed, Advance
<1>4. CASE QueryCurrent(r) \/ CheckSession(r) \/ TouchSession(r) \/ ConsumeRefresh(r)
  BY <1>4 DEF QueryCurrent, CheckSession, TouchSession, ConsumeRefresh, End, Replayed, Advance
<1>5. CASE IssueForCode(r) \/ IssueForRefresh(r) \/ RevokeLogins(r)
  BY <1>5 DEF IssueForCode, IssueForRefresh, RevokeLogins
<1>6. CASE FindSessions(r)
  BY <1>6 DEF FindSessions, End
<1>7. CASE RevokeSessions(r)
  BY <1>7 DEF RevokeSessions, RevokeStep
<1>8. CASE RevokeAccess(r)
  BY <1>8 DEF RevokeAccess, RevokeStep
<1>9. CASE RevokeRefresh(r)
  BY <1>9 DEF RevokeRefresh, RevokeStep
<1>10. CASE CommitRevoke(r)
  BY <1>10 DEF CommitRevoke
<1> QED
  BY <1>1, <1>2, <1>3, <1>4, <1>5, <1>6, <1>7, <1>8, <1>9, <1>10 DEF Acts, Step

\* A request gives up no row but its own, and takes no row another one holds.
LEMMA Locking ==
    ASSUME TypeOK, NEW r \in Requests, Acts(r)
    PROVE  /\ \A l \in locks : l[1] # r => l \in locks'
           /\ \A l \in locks' : l \in locks \/ (l[1] = r /\ Free(r, l[2]))
<1> USE DEF TypeOK, Goto, Moved, Release
<1>1. CASE Start(r)
  BY <1>1 DEF Start, BeginExchange, BeginRefresh, BeginRevoke, BeginTerminate, BeginLogout,
              BeginDisable, Begin
<1>2. CASE Fail(r)
  BY <1>2 DEF Fail, End
<1>3. CASE CheckUser(r) \/ Lookup(r) \/ LookupSession(r) \/ QueryCurrent(r) \/ CheckSession(r)
  BY <1>3 DEF CheckUser, Lookup, LookupSession, QueryCurrent, CheckSession, End, Replayed, Advance
<1>4. CASE ConsumeCode(r) \/ TouchSession(r) \/ ConsumeRefresh(r)
  <2>1. ASSUME NEW row, Free(r, row), locks' = locks \cup {<<r, row>>}
        PROVE  /\ \A l \in locks : l[1] # r => l \in locks'
               /\ \A l \in locks' : l \in locks \/ (l[1] = r /\ Free(r, l[2]))
    <3>1. <<r, row>>[1] = r /\ <<r, row>>[2] = row
      OBVIOUS
    <3> QED BY <2>1, <3>1
  <2>2. CASE UNCHANGED locks \/ locks' = {l \in locks : l[1] # r}
    BY <2>2
  <2>3. CASE ConsumeCode(r)
    BY <2>1, <2>2, <2>3 DEF ConsumeCode, End
  <2>4. CASE TouchSession(r)
    BY <2>1, <2>2, <2>4 DEF TouchSession, End
  <2>5. CASE ConsumeRefresh(r)
    BY <2>1, <2>2, <2>5 DEF ConsumeRefresh, Replayed
  <2> QED BY <1>4, <2>3, <2>4, <2>5
<1>5. CASE IssueForCode(r) \/ IssueForRefresh(r) \/ RevokeLogins(r)
  BY <1>5 DEF IssueForCode, IssueForRefresh, RevokeLogins
<1>6. CASE FindSessions(r)
  BY <1>6 DEF FindSessions, End
<1>7. CASE RevokeSessions(r)
  BY <1>7 DEF RevokeSessions, RevokeStep
<1>8. CASE RevokeAccess(r)
  BY <1>8 DEF RevokeAccess, RevokeStep
<1>9. CASE RevokeRefresh(r)
  BY <1>9 DEF RevokeRefresh, RevokeStep
<1>10. CASE CommitRevoke(r)
  BY <1>10 DEF CommitRevoke
<1> QED
  BY <1>1, <1>2, <1>3, <1>4, <1>5, <1>6, <1>7, <1>8, <1>9, <1>10 DEF Acts, Step

\* Nothing is deleted, and nothing is taken back.
LEMMA OnlyGrow ==
    ASSUME BaseInv, NEW r \in Requests, Acts(r)
    PROVE  /\ UNCHANGED tables \/ IssueForCode(r) \/ IssueForRefresh(r) \/ CommitRevoke(r)
           /\ sessions \subseteq sessions' /\ access \subseteq access' /\ refresh \subseteq refresh'
           /\ codeConsumed \subseteq codeConsumed' /\ sessionRevoked \subseteq sessionRevoked'
           /\ accessRevoked \subseteq accessRevoked' /\ refreshRevoked \subseteq refreshRevoked'
           /\ refreshConsumed \subseteq refreshConsumed'
           /\ \A t \in sessions \cup access \cup refresh : family'[t] = family[t]
<1> USE DEF BaseInv, TypeOK, IssuedInv, tables
<1>1. UNCHANGED tables \/ IssueForCode(r) \/ IssueForRefresh(r) \/ CommitRevoke(r)
  <2> USE DEF Moved, End, Advance, Replayed
  <2>1. CASE Start(r)
    BY <2>1 DEF Start, BeginExchange, BeginRefresh, BeginRevoke, BeginTerminate, BeginLogout,
                BeginDisable, Begin
  <2>2. CASE Fail(r)
    BY <2>2 DEF Fail
  <2>3. CASE ConsumeCode(r) \/ CheckUser(r) \/ Lookup(r) \/ LookupSession(r)
    BY <2>3 DEF ConsumeCode, CheckUser, Lookup, LookupSession
  <2>4. CASE QueryCurrent(r) \/ CheckSession(r) \/ TouchSession(r) \/ ConsumeRefresh(r)
    BY <2>4 DEF QueryCurrent, CheckSession, TouchSession, ConsumeRefresh
  <2>5. CASE RevokeLogins(r) \/ FindSessions(r)
    BY <2>5 DEF RevokeLogins, FindSessions
  <2>6. CASE RevokeSessions(r) \/ RevokeAccess(r) \/ RevokeRefresh(r)
    BY <2>6 DEF RevokeSessions, RevokeAccess, RevokeRefresh, RevokeStep
  <2> QED BY <2>1, <2>2, <2>3, <2>4, <2>5, <2>6 DEF Acts, Step
<1>2. CASE UNCHANGED tables
  BY <1>1, <1>2
<1>3. CASE IssueForCode(r)
  BY <1>1, <1>3 DEF IssueForCode
<1>4. CASE IssueForRefresh(r)
  BY <1>1, <1>4 DEF IssueForRefresh
<1>5. CASE CommitRevoke(r)
  BY <1>1, <1>5 DEF CommitRevoke
<1> QED
  BY <1>1, <1>2, <1>3, <1>4, <1>5

\* A request that consumes or revokes a row holds it, and one that issues a token for an
\* existing session holds the session.
LEMMA ChangesAreLocked ==
    ASSUME BaseInv, LockInv, RevokeInv, NEW r \in Requests, Acts(r)
    PROVE  /\ \A c \in codeConsumed' \ codeConsumed : <<r, <<"code", c>>>> \in locks
           /\ \A s \in sessionRevoked' \ sessionRevoked : <<r, <<"session", s>>>> \in locks
           /\ \A t \in refreshConsumed' \ refreshConsumed : <<r, <<"refresh", t>>>> \in locks
           /\ \A t \in refreshRevoked' \ refreshRevoked : <<r, <<"refresh", t>>>> \in locks
           /\ \A t \in (access' \ access) \cup (refresh' \ refresh) :
                family'[t] \in sessions => <<r, <<"session", family'[t]>>>> \in locks
<1> USE DEF BaseInv, TypeOK, tables
<1>1. CASE UNCHANGED tables
  BY <1>1
<1>2. CASE IssueForCode(r)
  <2>1. <<r, <<"code", arg[r]>>>> \in locks /\ r \notin sessions
    BY <1>2 DEF IssueForCode, LockInv, IssuedInv
  <2>2. \A t \in (access' \ access) \cup (refresh' \ refresh) : family'[t] = r
    BY <1>2 DEF IssueForCode
  <2>3. /\ codeConsumed' \ codeConsumed \subseteq {arg[r]}
        /\ sessionRevoked' = sessionRevoked
        /\ refreshConsumed' = refreshConsumed
        /\ refreshRevoked' = refreshRevoked
    BY <1>2 DEF IssueForCode
  <2> QED BY <2>1, <2>2, <2>3
<1>3. CASE IssueForRefresh(r)
  <2>1. /\ <<r, <<"refresh", arg[r]>>>> \in locks
        /\ <<r, <<"session", family[arg[r]]>>>> \in locks
    BY <1>3 DEF IssueForRefresh, LockInv
  <2>2. \A t \in (access' \ access) \cup (refresh' \ refresh) : family'[t] = family[arg[r]]
    BY <1>3 DEF IssueForRefresh
  <2>3. /\ codeConsumed' = codeConsumed
        /\ sessionRevoked' = sessionRevoked
        /\ refreshConsumed' \ refreshConsumed \subseteq {arg[r]}
        /\ refreshRevoked' = refreshRevoked
    BY <1>3 DEF IssueForRefresh
  <2> QED BY <2>1, <2>2, <2>3
<1>4. CASE CommitRevoke(r)
  <2>1. /\ \A s \in written[r].sessions : <<r, <<"session", s>>>> \in locks
        /\ \A t \in written[r].refresh : <<r, <<"refresh", t>>>> \in locks
    BY <1>4 DEF CommitRevoke, RevokeInv, Revoking
  <2> QED BY <1>4, <2>1 DEF CommitRevoke
<1> QED
  BY <1>1, <1>2, <1>3, <1>4, OnlyGrow

\* A step is a request's, or leaves everything alone but what precedes the code.
LEMMA NextCases ==
    [Next]_vars =>
        \/ \E r \in Requests : Acts(r)
        \/ /\ UNCHANGED <<tables, pc, reqVars, locks, revokeVars, covered>>
           /\ \/ UNCHANGED <<auth, authLogin>>
              \/ \E c \in Codes, l \in Logins : CompleteAuthRequest(c, l)
              \/ \E c \in Codes : SaveAuthCode(c)
  BY DEF Next, Authorize, Acts, Enable, ResolveLogin, CompleteAuthRequest, SaveAuthCode, vars, authVars

-----------------------------------------------------------------------------
\* What a request has locked stays as it found it.
LEMMA LockStep == BaseInv /\ LockInv /\ RevokeInv /\ [Next]_vars => LockInv'
<1> SUFFICES ASSUME BaseInv, LockInv, RevokeInv, [Next]_vars PROVE LockInv'
  OBVIOUS
<1> DEFINE
      Excludes == \A l, k \in locks : l[2] = k[2] => l[1] = k[1]
      Holds(r) ==
        /\ pc[r] \in {"checkUser", "issue"} /\ op[r] = "exchange" =>
            <<r, <<"code", arg[r]>>>> \in locks /\ arg[r] \notin codeConsumed
        /\ pc[r] \in {"consumeRefresh", "issue"} /\ op[r] = "refresh" =>
            /\ <<r, <<"session", family[arg[r]]>>>> \in locks
            /\ family[arg[r]] \notin sessionRevoked
        /\ pc[r] = "issue" /\ op[r] = "refresh" =>
            /\ <<r, <<"refresh", arg[r]>>>> \in locks
            /\ arg[r] \notin refreshConsumed \cup refreshRevoked
<1>1. Excludes /\ \A r \in Requests : Holds(r)
  BY DEF LockInv
<1>2. SUFFICES Excludes' /\ \A r \in Requests : Holds(r)'
  BY DEF LockInv
<1>3. ASSUME UNCHANGED <<tables, pc, reqVars, locks>>
      PROVE  Excludes' /\ \A r \in Requests : Holds(r)'
  BY <1>1, <1>3 DEF tables, reqVars
<1>4. ASSUME NEW r \in Requests, Acts(r) PROVE Excludes'
  <2> SUFFICES ASSUME NEW l \in locks', NEW k \in locks', l[2] = k[2] PROVE l[1] = k[1]
    OBVIOUS
  <2>1. l \in locks \/ (l[1] = r /\ Free(r, l[2]))
    BY <1>4, Locking DEF BaseInv
  <2>2. k \in locks \/ (k[1] = r /\ Free(r, k[2]))
    BY <1>4, Locking DEF BaseInv
  <2>3. \A m \in locks : m = <<m[1], m[2]>> /\ m[1] \in Requests
    BY DEF BaseInv, TypeOK
  <2> QED BY <1>1, <2>1, <2>2, <2>3 DEF Free
<1>5. ASSUME NEW r \in Requests, Acts(r), NEW q \in Requests \ {r} PROVE Holds(q)'
  <2>1. \A row : <<q, row>> \in locks => <<q, row>> \in locks' /\ <<r, row>> \notin locks
    <3> SUFFICES ASSUME NEW row, <<q, row>> \in locks
                 PROVE  <<q, row>> \in locks' /\ <<r, row>> \notin locks
      OBVIOUS
    <3>1. <<q, row>>[1] = q /\ <<q, row>>[2] = row /\ <<r, row>>[1] = r /\ <<r, row>>[2] = row
      OBVIOUS
    <3> QED BY <1>1, <1>5, <3>1, Locking DEF BaseInv
  <2>2. pc'[q] = pc[q] /\ op'[q] = op[q] /\ arg'[q] = arg[q]
    BY <1>5, OthersUntouched DEF BaseInv
  <2>3. op[q] = "refresh" => arg[q] \in refresh /\ family'[arg[q]] = family[arg[q]]
    BY <1>5, OnlyGrow DEF BaseInv, FlowInv
  <2>4. Holds(q)
    BY <1>1
  <2>5. pc[q] \in {"checkUser", "issue"} /\ op[q] = "exchange" => arg[q] \notin codeConsumed'
    BY <1>5, <2>1, <2>4, ChangesAreLocked
  <2>6. pc[q] \in {"consumeRefresh", "issue"} /\ op[q] = "refresh" =>
            family[arg[q]] \notin sessionRevoked'
    BY <1>5, <2>1, <2>4, ChangesAreLocked
  <2>7. pc[q] = "issue" /\ op[q] = "refresh" => arg[q] \notin refreshConsumed' \cup refreshRevoked'
    BY <1>5, <2>1, <2>4, ChangesAreLocked
  <2> QED BY <2>1, <2>2, <2>3, <2>4, <2>5, <2>6, <2>7
<1>6. ASSUME NEW r \in Requests, Acts(r) PROVE Holds(r)'
  <2> USE DEF BaseInv, TypeOK, Goto, Moved, reqVars, tables
  <2>1. ASSUME pc'[r] \notin {"checkUser", "issue", "consumeRefresh"} PROVE Holds(r)'
    BY <2>1
  <2>2. CASE Start(r)
    BY <2>1, <2>2, StartFrame
  <2>3. ASSUME pc[r] \in Steps, NEW how \in Ended, End(r, how) PROVE Holds(r)'
    BY <2>1, <2>3 DEF End, Ended
  <2>4. CASE ConsumeCode(r)
    <3>1. op[r] = "exchange" /\ op'[r] = "exchange"
      BY <1>6, <2>4 DEF ConsumeCode, FlowInv, End
    <3>2. CASE arg[r] \in codeConsumed
      BY <2>3, <2>4, <3>2 DEF ConsumeCode, Steps, Ended
    <3>3. CASE arg[r] \notin codeConsumed
      BY <2>4, <3>1, <3>3 DEF ConsumeCode
    <3> QED BY <3>2, <3>3
  <2>5. CASE CheckUser(r)
    <3>1. Holds(r) /\ op[r] \in {"exchange", "refresh"}
      BY <1>1, <2>5 DEF CheckUser, FlowInv
    <3>2. CASE ~userActive
      BY <2>3, <2>5, <3>2 DEF CheckUser, Steps, Ended
    <3>3. CASE userActive
      BY <2>5, <3>1, <3>3 DEF CheckUser
    <3> QED BY <3>2, <3>3
  <2>6. CASE Lookup(r) \/ LookupSession(r) \/ QueryCurrent(r)
    BY <2>1, <2>6 DEF Lookup, LookupSession, QueryCurrent, End, Advance, Replayed
  <2>7. CASE CheckSession(r)
    <3>1. op[r] = "refresh" /\ op'[r] = "refresh"
      BY <2>7 DEF CheckSession, FlowInv, End, Advance
    <3>2. pc'[r] \in {"checkUser", "failed"}
      BY <2>7 DEF CheckSession, End, Advance
    <3> QED BY <3>1, <3>2
  <2>8. CASE TouchSession(r)
    <3>1. op[r] = "refresh"
      BY <2>8 DEF TouchSession, FlowInv
    <3>2. CASE family[arg[r]] \in sessionRevoked
      BY <2>3, <2>8, <3>2 DEF TouchSession, Steps, Ended
    <3>3. CASE family[arg[r]] \notin sessionRevoked
      BY <2>8, <3>1, <3>3 DEF TouchSession
    <3> QED BY <3>2, <3>3
  <2>9. CASE ConsumeRefresh(r)
    <3>1. op[r] = "refresh" /\ Holds(r)
      BY <1>1, <2>9 DEF ConsumeRefresh, FlowInv
    <3>2. CASE arg[r] \in refreshConsumed \cup refreshRevoked
      BY <2>1, <2>9, <3>2 DEF ConsumeRefresh, Replayed
    <3>3. CASE arg[r] \notin refreshConsumed \cup refreshRevoked
      BY <2>9, <3>1, <3>3 DEF ConsumeRefresh
    <3> QED BY <3>2, <3>3
  <2>10. CASE IssueForCode(r) \/ IssueForRefresh(r) \/ RevokeLogins(r)
    BY <2>1, <2>10 DEF IssueForCode, IssueForRefresh, RevokeLogins
  <2>11. CASE FindSessions(r)
    BY <2>1, <2>11 DEF FindSessions, End, Outcome
  <2>12. CASE RevokeSessions(r) \/ RevokeAccess(r)
    BY <2>1, <2>12 DEF RevokeSessions, RevokeAccess, RevokeStep
  <2>13. CASE RevokeRefresh(r)
    BY <2>1, <2>13 DEF RevokeRefresh, RevokeStep
  <2>14. CASE CommitRevoke(r)
    BY <2>1, <2>14 DEF CommitRevoke, Outcome
  <2>15. CASE Fail(r)
    BY <2>3, <2>15 DEF Fail, Ended
  <2> QED BY <1>6, <2>2, <2>4, <2>5, <2>6, <2>7, <2>8, <2>9, <2>10, <2>11, <2>12, <2>13, <2>14,
             <2>15 DEF Acts, Step
<1>7. CASE \E r \in Requests : Acts(r)
  <2> PICK r \in Requests : Acts(r)
    BY <1>7
  <2>1. \A q \in Requests : q = r \/ q \in Requests \ {r}
    OBVIOUS
  <2> QED BY <1>4, <1>5, <1>6, <2>1
<1>8. CASE UNCHANGED <<tables, pc, reqVars, locks>>
  BY <1>3, <1>8
<1> QED
  BY <1>7, <1>8, NextCases

-----------------------------------------------------------------------------
\* Two requests never hold the same row.
LEMMA Exclusive ==
    ASSUME TypeOK, LockInv, NEW q \in Requests, NEW r \in Requests \ {q}, NEW row,
           <<q, row>> \in locks
    PROVE  <<r, row>> \notin locks
<1>1. <<q, row>>[1] = q /\ <<q, row>>[2] = row /\ <<r, row>>[1] = r /\ <<r, row>>[2] = row
  OBVIOUS
<1> QED BY <1>1 DEF LockInv

\* A request keeps its rows while others act.
LEMMA KeepsLocks ==
    ASSUME TypeOK, NEW r \in Requests, Acts(r), NEW q \in Requests \ {r}, NEW row,
           <<q, row>> \in locks
    PROVE  <<q, row>> \in locks'
<1>1. <<q, row>>[1] = q
  OBVIOUS
<1> QED BY <1>1, Locking

\* A revocation holds what it has updated and leaves no session behind with tokens alive.
LEMMA RevokeStepInv == BaseInv /\ LockInv /\ RevokeInv /\ [Next]_vars => RevokeInv'
<1> SUFFICES ASSUME BaseInv, LockInv, RevokeInv, [Next]_vars PROVE RevokeInv'
  OBVIOUS
<1> DEFINE
      Clean(r) == pc[r] \notin Revoking \cup Ended => written[r] = NothingWritten /\ todo[r] = {}
      Known(r) == targets[r] \cup todo[r] \cup written[r].sessions \subseteq sessions
      Holds(r) == /\ \A s \in written[r].sessions : <<r, <<"session", s>>>> \in locks
                  /\ \A t \in written[r].refresh : <<r, <<"refresh", t>>>> \in locks
      AccessDone(r, s) == TokensOf({s}, access) \subseteq accessRevoked \cup written[r].access
      RefreshDone(r, s) == TokensOf({s}, refresh) \subseteq refreshRevoked \cup written[r].refresh
      Done(r) ==
        \A s \in written[r].sessions :
            /\ (pc[r] \in {"revokeSessions", "revokeAccess"} /\ s \in targets[r]) \/ AccessDone(r, s)
            /\ \/ pc[r] \in {"revokeSessions", "revokeAccess", "revokeRefresh"} /\ s \in targets[r]
               \/ RefreshDone(r, s)
      Good(r) == Clean(r) /\ (pc[r] \in Revoking => Known(r) /\ Holds(r) /\ Done(r))
<1>1. \A r \in Requests : Good(r)
  BY DEF RevokeInv
<1>2. SUFFICES \A r \in Requests : Good(r)'
  BY DEF RevokeInv
<1> USE DEF BaseInv
<1>3. ASSUME NEW r \in Requests, Acts(r), NEW q \in Requests \ {r} PROVE Good(q)'
  <2>1. /\ pc'[q] = pc[q] /\ todo'[q] = todo[q] /\ targets'[q] = targets[q]
        /\ written'[q] = written[q]
    BY <1>3, OthersUntouched
  <2>2. Good(q)
    BY <1>1
  <2>3. Clean(q)'
    BY <2>1, <2>2
  <2>4. ASSUME pc[q] \in Revoking PROVE Known(q)' /\ Holds(q)' /\ Done(q)'
    <3>1. Known(q) /\ Holds(q) /\ Done(q)
      BY <2>2, <2>4
    <3>2. Known(q)'
      BY <1>3, <2>1, <3>1, OnlyGrow
    <3>3. Holds(q)'
      BY <1>3, <2>1, <3>1, KeepsLocks
    <3>4. ASSUME NEW s \in written[q].sessions PROVE <<r, <<"session", s>>>> \notin locks /\ s \in sessions
      BY <3>1, Exclusive
    <3>5. ASSUME NEW s \in written[q].sessions, AccessDone(q, s) PROVE AccessDone(q, s)'
      <4>1. \A t \in access' : family'[t] = s => t \in access /\ family[t] = s
        BY <1>3, <3>4, <3>5, OnlyGrow, ChangesAreLocked
      <4> QED BY <1>3, <2>1, <3>5, <4>1, OnlyGrow DEF TokensOf
    <3>6. ASSUME NEW s \in written[q].sessions, RefreshDone(q, s) PROVE RefreshDone(q, s)'
      <4>1. \A t \in refresh' : family'[t] = s => t \in refresh /\ family[t] = s
        BY <1>3, <3>4, <3>6, OnlyGrow, ChangesAreLocked
      <4> QED BY <1>3, <2>1, <3>6, <4>1, OnlyGrow DEF TokensOf
    <3>7. Done(q)'
      BY <2>1, <3>1, <3>5, <3>6
    <3> QED BY <3>2, <3>3, <3>7
  <2> QED BY <2>1, <2>3, <2>4
<1>4. ASSUME NEW r \in Requests, Acts(r) PROVE Good(r)'
  <2> USE DEF TypeOK, Goto, Moved, reqVars, tables, revokeVars
  \* Before a revocation knows its sessions it has written nothing.
  <2>1. ASSUME Clean(r), UNCHANGED <<todo, written>>, pc'[r] \notin Revoking,
               pc[r] \notin Revoking \cup Ended \/ pc'[r] \in Ended
        PROVE  Good(r)'
    BY <2>1
  <2>2. ASSUME written[r] = NothingWritten, UNCHANGED <<tables, locks, written>>,
               pc'[r] = "revokeSessions", targets'[r] \cup todo'[r] \subseteq sessions
        PROVE  Good(r)'
    BY <2>2 DEF NothingWritten, Revoking
  <2>3. ASSUME pc[r] \in Steps, NEW how \in Ended, End(r, how) PROVE Good(r)'
    BY <2>3 DEF End, Ended, Revoking
  <2>4. Clean(r)
    BY <1>1
  <2>5. CASE Start(r)
    <3>1. /\ pc[r] = "idle" /\ UNCHANGED <<todo, written>>
          /\ pc'[r] \in {"consumeCode", "lookup", "findSessions", "revokeLogins"}
      BY <2>5, StartFrame
    <3> QED BY <2>1, <2>4, <3>1 DEF Revoking, Ended
  <2>6. ASSUME Replayed(r), op[r] = "refresh", pc[r] \in {"lookup", "current", "consumeRefresh"}
        PROVE  Good(r)'
    <3>1. family[arg[r]] \in sessions
      BY <2>6 DEF FlowInv, IssuedInv
    <3>2. written[r] = NothingWritten /\ todo[r] = {}
      BY <2>4, <2>6 DEF Revoking, Ended
    <3> QED BY <2>2, <2>6, <3>1, <3>2 DEF Replayed
  <2>7. CASE ConsumeCode(r)
    BY <2>1, <2>3, <2>4, <2>7 DEF ConsumeCode, Steps, Ended, Revoking
  <2>8. CASE CheckUser(r)
    BY <2>1, <2>3, <2>4, <2>8 DEF CheckUser, Steps, Ended, Revoking
  <2>9. CASE Lookup(r)
    <3>1. op[r] = "refresh" /\ pc[r] = "lookup"
      BY <2>9 DEF Lookup, FlowInv
    <3>2. Replayed(r) \/ End(r, "failed") \/ Advance(r, "lookupSession")
      BY <2>9 DEF Lookup
    <3>3. CASE Advance(r, "lookupSession")
      BY <2>1, <2>4, <3>1, <3>3 DEF Advance, Revoking, Ended
    <3> QED BY <2>3, <2>6, <3>1, <3>2, <3>3 DEF Steps, Ended
  <2>10. CASE LookupSession(r)
    BY <2>1, <2>3, <2>4, <2>10 DEF LookupSession, Steps, Ended, Revoking, Advance
  <2>11. CASE QueryCurrent(r)
    <3>1. op[r] = "refresh" /\ pc[r] = "current"
      BY <2>11 DEF QueryCurrent, FlowInv
    <3>2. Replayed(r) \/ End(r, "failed") \/ Advance(r, "checkSession")
      BY <2>11 DEF QueryCurrent
    <3>3. CASE Advance(r, "checkSession")
      BY <2>1, <2>4, <3>1, <3>3 DEF Advance, Revoking, Ended
    <3> QED BY <2>3, <2>6, <3>1, <3>2, <3>3 DEF Steps, Ended
  <2>12. CASE CheckSession(r)
    BY <2>1, <2>3, <2>4, <2>12 DEF CheckSession, Steps, Ended, Revoking, Advance
  <2>13. CASE TouchSession(r)
    BY <2>1, <2>3, <2>4, <2>13 DEF TouchSession, Steps, Ended, Revoking
  <2>14. CASE ConsumeRefresh(r)
    <3>1. op[r] = "refresh" /\ pc[r] = "consumeRefresh"
      BY <2>14 DEF ConsumeRefresh, FlowInv
    <3>2. CASE Replayed(r)
      BY <2>6, <3>1, <3>2
    <3>3. CASE pc'[r] = "issue" /\ UNCHANGED <<todo, written>>
      BY <2>1, <2>4, <3>1, <3>3 DEF Revoking, Ended
    <3> QED BY <2>14, <3>2, <3>3 DEF ConsumeRefresh
  <2>15. CASE IssueForCode(r) \/ IssueForRefresh(r)
    BY <2>1, <2>4, <2>15 DEF IssueForCode, IssueForRefresh, Ended, Revoking
  <2>16. CASE RevokeLogins(r)
    BY <2>1, <2>4, <2>16 DEF RevokeLogins, Ended, Revoking
  <2>17. CASE FindSessions(r)
    <3>1. written[r] = NothingWritten /\ pc[r] \in Steps
      BY <2>4, <2>17 DEF FindSessions, Revoking, Ended, Steps
    <3>2. CASE Found(r) = {}
      BY <2>3, <2>17, <3>1, <3>2 DEF FindSessions, Outcome, Ended
    <3>3. CASE Found(r) # {}
      <4>1. PICK first \in IF op[r] = "terminate" THEN {{s} : s \in Found(r)} ELSE {Found(r)} :
                /\ targets' = [targets EXCEPT ![r] = first]
                /\ todo' = [todo EXCEPT ![r] = Found(r) \ first]
        BY <2>17, <3>3 DEF FindSessions
      <4>2. first \subseteq sessions /\ Found(r) \subseteq sessions
        BY DEF Found
      <4>3. targets'[r] \cup todo'[r] \subseteq sessions
        BY <4>1, <4>2
      <4> QED BY <2>2, <2>17, <3>1, <3>3, <4>3 DEF FindSessions
    <3> QED BY <3>2, <3>3
  <2>18. CASE RevokeSessions(r)
    <3>1. Known(r) /\ Holds(r) /\ Done(r)
      BY <1>1, <2>18 DEF RevokeSessions, Revoking
    <3>2. /\ written'[r].sessions = written[r].sessions \cup {s \in targets[r] : Live(s)}
          /\ written'[r].access = written[r].access
          /\ written'[r].refresh = written[r].refresh
      BY <2>18, RevokeSessionsWrites
    <3>3. /\ pc'[r] = "revokeAccess" /\ targets'[r] = targets[r] /\ todo'[r] = todo[r]
          /\ UNCHANGED tables
      BY <2>18 DEF RevokeSessions, RevokeStep
    <3>4. Holds(r)'
      <4>1. \A s \in {s \in targets[r] : Live(s)} : <<r, <<"session", s>>>> \in locks'
        BY <2>18 DEF RevokeSessions
      <4>2. locks \subseteq locks'
        BY <2>18 DEF RevokeSessions
      <4> QED BY <3>1, <3>2, <4>1, <4>2
    <3>5. Known(r)'
      BY <3>1, <3>2, <3>3
    <3>6. Done(r)'
      BY <3>1, <3>2, <3>3 DEF TokensOf
    <3> QED BY <3>3, <3>4, <3>5, <3>6 DEF Revoking
  <2>19. CASE RevokeAccess(r)
    <3>1. Known(r) /\ Holds(r) /\ Done(r)
      BY <1>1, <2>19 DEF RevokeAccess, Revoking
    <3>2. /\ written'[r].sessions = written[r].sessions
          /\ written'[r].access = written[r].access \cup TokensOf(targets[r], access \ accessRevoked)
          /\ written'[r].refresh = written[r].refresh
      BY <2>19, RevokeAccessWrites
    <3>3. /\ pc[r] = "revokeAccess" /\ pc'[r] = "revokeRefresh"
          /\ targets'[r] = targets[r] /\ todo'[r] = todo[r]
          /\ UNCHANGED tables /\ UNCHANGED locks
      BY <2>19 DEF RevokeAccess, RevokeStep
    <3>4. Holds(r)' /\ Known(r)'
      BY <3>1, <3>2, <3>3
    <3>5. \A s \in targets[r] : AccessDone(r, s)'
      BY <3>2, <3>3 DEF TokensOf
    <3>6. Done(r)'
      BY <3>1, <3>2, <3>3, <3>5 DEF TokensOf
    <3> QED BY <3>3, <3>4, <3>6 DEF Revoking
  <2>20. CASE RevokeRefresh(r)
    <3> DEFINE matched == TokensOf(targets[r], refresh \ refreshRevoked)
    <3>1. Known(r) /\ Holds(r) /\ Done(r)
      BY <1>1, <2>20 DEF RevokeRefresh, Revoking
    <3>2. /\ written'[r].sessions = written[r].sessions
          /\ written'[r].access = written[r].access
          /\ written'[r].refresh = written[r].refresh \cup matched
      BY <2>20, RevokeRefreshWrites
    <3>3. /\ pc[r] = "revokeRefresh" /\ pc'[r] \in {"commitRevoke", "revokeSessions"}
          /\ targets'[r] \cup todo'[r] \subseteq targets[r] \cup todo[r]
          /\ UNCHANGED tables
      <4>1. CASE todo[r] = {}
        BY <2>20, <4>1 DEF RevokeRefresh, RevokeStep
      <4>2. CASE todo[r] # {}
        <5>1. PICK s \in todo[r] : /\ targets' = [targets EXCEPT ![r] = {s}]
                                   /\ todo' = [todo EXCEPT ![r] = @ \ {s}]
                                   /\ RevokeStep(r, "revokeSessions")
          BY <2>20, <4>2 DEF RevokeRefresh
        <5> QED BY <2>20, <5>1 DEF RevokeRefresh, RevokeStep
      <4> QED BY <4>1, <4>2
    <3>4. Known(r)'
      BY <3>1, <3>2, <3>3
    <3>5. Holds(r)'
      <4>1. \A t \in matched : <<r, <<"refresh", t>>>> \in locks'
        BY <2>20 DEF RevokeRefresh
      <4>2. locks \subseteq locks'
        BY <2>20 DEF RevokeRefresh
      <4> QED BY <3>1, <3>2, <4>1, <4>2
    <3>6. \A s \in written[r].sessions : AccessDone(r, s)'
      BY <3>1, <3>2, <3>3 DEF TokensOf
    <3>7. \A s \in written[r].sessions : RefreshDone(r, s)'
      <4>1. \A s \in targets[r] : RefreshDone(r, s)'
        BY <3>2, <3>3 DEF TokensOf
      <4>2. \A s \in written[r].sessions : RefreshDone(r, s) => RefreshDone(r, s)'
        BY <3>2, <3>3 DEF TokensOf
      <4> QED BY <3>1, <4>1, <4>2
    <3>8. Done(r)'
      BY <3>2, <3>6, <3>7
    <3> QED BY <3>3, <3>4, <3>5, <3>8 DEF Revoking, Ended
  <2>21. CASE CommitRevoke(r)
    BY <2>21 DEF CommitRevoke, Outcome, Revoking, Ended
  <2>22. CASE Fail(r)
    BY <2>3, <2>22 DEF Fail, Ended
  <2> QED BY <1>4, <2>5, <2>7, <2>8, <2>9, <2>10, <2>11, <2>12, <2>13, <2>14, <2>15, <2>16, <2>17,
             <2>18, <2>19, <2>20, <2>21, <2>22 DEF Acts, Step
<1>5. CASE \E r \in Requests : Acts(r)
  <2> PICK r \in Requests : Acts(r)
    BY <1>5
  <2>1. \A q \in Requests : q = r \/ q \in Requests \ {r}
    OBVIOUS
  <2> QED BY <1>3, <1>4, <2>1
<1>6. CASE UNCHANGED <<tables, pc, locks, revokeVars>>
  BY <1>1, <1>6 DEF tables, revokeVars, TokensOf
<1> QED
  BY <1>5, <1>6, NextCases

-----------------------------------------------------------------------------
\* A request that acts has not ended.
LEMMA ActorNotDone ==
    ASSUME NEW r \in Requests, Acts(r)
    PROVE  pc[r] \in {"idle"} \cup Steps
<1>1. CASE Start(r)
  BY <1>1 DEF Start, BeginExchange, BeginRefresh, BeginRevoke, BeginTerminate, BeginLogout,
              BeginDisable, Begin
<1>2. CASE Fail(r)
  BY <1>2 DEF Fail
<1>3. CASE Step(r)
  BY <1>3 DEF Step, Steps, ConsumeCode, CheckUser, IssueForCode, Lookup, LookupSession,
              QueryCurrent, CheckSession, TouchSession, ConsumeRefresh, IssueForRefresh,
              RevokeLogins, FindSessions, RevokeSessions, RevokeAccess, RevokeRefresh, CommitRevoke
<1> QED
  BY <1>1, <1>2, <1>3 DEF Acts

\* Requests to the token endpoint and revocations leave the authorization requests alone.
LEMMA LoginBoundBefore ==
    ASSUME NEW r \in Requests, Acts(r)
    PROVE  UNCHANGED authVars
<1> USE DEF authVars, Moved, End, Advance, Replayed, RevokeStep
<1>1. CASE Start(r)
  BY <1>1 DEF Start, BeginExchange, BeginRefresh, BeginRevoke, BeginTerminate, BeginLogout,
              BeginDisable, Begin
<1>2. CASE Fail(r)
  BY <1>2 DEF Fail
<1>3. CASE Step(r)
  BY <1>3 DEF Step, ConsumeCode, CheckUser, IssueForCode, Lookup, LookupSession,
              QueryCurrent, CheckSession, TouchSession, ConsumeRefresh, IssueForRefresh,
              RevokeLogins, FindSessions, RevokeSessions, RevokeAccess, RevokeRefresh, CommitRevoke
<1> QED
  BY <1>1, <1>2, <1>3 DEF Acts

\* A request that has issued tokens is over, so that the login session of a token session
\* is settled.
LEMMA LoginSettled ==
    ASSUME BaseInv, [Next]_vars, NEW s \in sessions
    PROVE  LoginOf(s)' = LoginOf(s)
<1> USE DEF BaseInv, TypeOK, FlowInv, IssuedInv
<1>1. /\ pc[s] = "issued" /\ op[s] = "exchange" /\ s \in Requests
      /\ arg[s] \in Codes /\ auth[arg[s]] = "code"
  OBVIOUS
<1>2. CASE \E r \in Requests : Acts(r)
  <2> PICK r \in Requests : Acts(r)
    BY <1>2
  <2>1. r # s
    BY <1>1, ActorNotDone DEF Steps
  <2>2. arg'[s] = arg[s]
    BY <1>1, <2>1, OthersUntouched
  <2>3. UNCHANGED authLogin
    BY LoginBoundBefore DEF authVars
  <2> QED BY <2>2, <2>3 DEF LoginOf
<1>3. CASE UNCHANGED reqVars /\ UNCHANGED authLogin
  BY <1>3 DEF LoginOf, reqVars
<1>4. CASE UNCHANGED reqVars /\ \E c \in Codes, l \in Logins : CompleteAuthRequest(c, l)
  BY <1>1, <1>4 DEF LoginOf, reqVars, CompleteAuthRequest
<1>5. CASE UNCHANGED reqVars /\ \E c \in Codes : SaveAuthCode(c)
  BY <1>5 DEF LoginOf, reqVars, SaveAuthCode
<1> QED
  BY <1>2, <1>3, <1>4, <1>5, NextCases

\* An operation that has succeeded revoked what it covers, and a replay its family.
Completed == RevocationIsComplete /\ ReplayRevokesFamily

\* A revocation reaches every session it covers.
LEMMA CoverStep ==
    BaseInv /\ BaseInv' /\ LockInv /\ RevokeInv /\ CoverInv /\ Completed /\ [Next]_vars
        => CoverInv' /\ Completed'
<1> SUFFICES ASSUME BaseInv, BaseInv', LockInv, RevokeInv, CoverInv, Completed, [Next]_vars
             PROVE  CoverInv' /\ Completed'
  OBVIOUS
<1> DEFINE
      Sought(r) ==
        pc[r] \in {"revokeLogins", "findSessions"} =>
            /\ covered[r] \subseteq sessions
            /\ op[r] = "revoke" => covered[r] \subseteq {family[arg[r]]}
            /\ op[r] = "logout" => \A s \in covered[r] : LoginOf(s) = arg[r]
      Reach(r) == sessionRevoked \cup written[r].sessions \cup todo[r]
                    \cup (IF pc[r] = "revokeSessions" THEN targets[r] ELSE {})
      Reached(r) ==
        /\ pc[r] \in Revoking /\ op[r] # "refresh" => covered[r] \subseteq Reach(r)
        /\ pc[r] \in Revoking /\ op[r] = "refresh" => family[arg[r]] \in Reach(r)
        /\ pc[r] = "commitRevoke" => todo[r] = {}
      Ends(r) ==
        /\ pc[r] = "revoked" => covered[r] \subseteq sessionRevoked
        /\ pc[r] = "replay" => family[arg[r]] \in sessionRevoked
      Good(r) == Sought(r) /\ Reached(r) /\ Ends(r)
<1>1. \A r \in Requests : Good(r)
  BY DEF CoverInv, Completed, RevocationIsComplete, ReplayRevokesFamily
<1>2. SUFFICES \A r \in Requests : Good(r)'
  BY DEF CoverInv, Completed, RevocationIsComplete, ReplayRevokesFamily
<1>3. \A s \in sessions : LoginOf(s)' = LoginOf(s)
  BY LoginSettled
<1> USE DEF BaseInv
<1>4. ASSUME NEW r \in Requests, Acts(r), NEW q \in Requests \ {r} PROVE Good(q)'
  <2>1. /\ pc'[q] = pc[q] /\ op'[q] = op[q] /\ arg'[q] = arg[q] /\ covered'[q] = covered[q]
        /\ todo'[q] = todo[q] /\ targets'[q] = targets[q] /\ written'[q] = written[q]
    BY <1>4, OthersUntouched
  <2>2. Good(q)
    BY <1>1
  <2>3. /\ op[q] \in {"refresh", "revoke"} => family'[arg[q]] = family[arg[q]]
        /\ pc[q] = "replay" => op[q] = "refresh"
    BY <1>4, OnlyGrow DEF FlowInv
  <2>4. sessions \subseteq sessions' /\ sessionRevoked \subseteq sessionRevoked'
    BY <1>4, OnlyGrow
  <2>5. Sought(q)'
    BY <1>3, <2>1, <2>2, <2>3, <2>4
  <2>6. Reached(q)'
    BY <2>1, <2>2, <2>3, <2>4
  <2>7. Ends(q)'
    BY <2>1, <2>2, <2>3, <2>4
  <2> QED BY <2>5, <2>6, <2>7
<1>5. ASSUME NEW r \in Requests, Acts(r) PROVE Good(r)'
  <2> USE DEF TypeOK, Goto, Moved, reqVars, tables, revokeVars
  \* Most steps lead neither to nor along a revocation.
  <2>1. ASSUME pc'[r] \notin {"revokeLogins", "findSessions", "revoked", "replay"} \cup Revoking
        PROVE  Good(r)'
    BY <2>1 DEF Revoking
  <2>2. CASE Start(r)
    <3>1. ASSUME NEW c \in Codes, BeginExchange(r, c) PROVE Good(r)'
      BY <2>1, <3>1 DEF BeginExchange, Begin, Revoking
    <3>2. ASSUME NEW t \in Requests, BeginRefresh(r, t) PROVE Good(r)'
      BY <2>1, <3>2 DEF BeginRefresh, Begin, Revoking
    <3> USE DEF Begin, Covers, Live, Revoking
    <3>3. ASSUME NEW t \in Requests, BeginRevoke(r, t) PROVE Good(r)'
      BY <3>3 DEF BeginRevoke
    <3>4. CASE BeginTerminate(r)
      BY <3>4 DEF BeginTerminate
    <3>5. ASSUME NEW l \in Logins, BeginLogout(r, l) PROVE Good(r)'
      BY <1>3, <3>5 DEF BeginLogout
    <3>6. CASE BeginDisable(r)
      BY <3>6 DEF BeginDisable
    <3> QED BY <2>2, <3>1, <3>2, <3>3, <3>4, <3>5, <3>6 DEF Start
  <2>3. ASSUME End(r, "failed") PROVE Good(r)'
    BY <2>1, <2>3 DEF End, Revoking
  <2>4. ASSUME Replayed(r), op[r] = "refresh" PROVE Good(r)'
    BY <2>4 DEF Replayed, Revoking
  <2>5. CASE ConsumeCode(r) \/ CheckUser(r) \/ LookupSession(r) \/ CheckSession(r) \/ TouchSession(r)
    BY <2>1, <2>3, <2>5 DEF ConsumeCode, CheckUser, LookupSession, CheckSession, TouchSession,
                            Advance, Revoking
  <2>6. CASE Lookup(r) \/ QueryCurrent(r) \/ ConsumeRefresh(r)
    <3>1. op[r] = "refresh"
      BY <2>6 DEF FlowInv, Lookup, QueryCurrent, ConsumeRefresh
    <3> QED BY <2>1, <2>3, <2>4, <2>6, <3>1 DEF Lookup, QueryCurrent, ConsumeRefresh, Advance, Revoking
  <2>7. CASE IssueForCode(r) \/ IssueForRefresh(r)
    BY <2>1, <2>7 DEF IssueForCode, IssueForRefresh, Revoking
  <2>8. CASE RevokeLogins(r)
    <3>1. Sought(r) /\ pc[r] = "revokeLogins" /\ pc'[r] = "findSessions"
      BY <1>1, <2>8 DEF RevokeLogins
    <3>2. UNCHANGED <<covered, sessions, reqVars, family>>
      BY <2>8 DEF RevokeLogins
    <3> QED BY <1>3, <3>1, <3>2 DEF Revoking
  <2>9. CASE FindSessions(r)
    <3>1. Sought(r) /\ pc[r] = "findSessions" /\ op[r] \in {"revoke", "terminate", "logout", "disable"}
      BY <1>1, <2>9 DEF FindSessions, FlowInv
    <3>2. covered[r] \subseteq sessionRevoked \cup Found(r)
      BY <3>1 DEF Found, Live
    <3>3. CASE Found(r) = {}
      BY <2>9, <3>1, <3>2, <3>3 DEF FindSessions, End, Outcome, Revoking
    <3>4. CASE Found(r) # {}
      <4>1. PICK first \in IF op[r] = "terminate" THEN {{s} : s \in Found(r)} ELSE {Found(r)} :
                /\ targets' = [targets EXCEPT ![r] = first]
                /\ todo' = [todo EXCEPT ![r] = Found(r) \ first]
        BY <2>9, <3>4 DEF FindSessions
      <4>2. /\ pc'[r] = "revokeSessions" /\ targets'[r] = first /\ todo'[r] = Found(r) \ first
            /\ UNCHANGED <<covered, reqVars, sessionRevoked>>
        BY <2>9, <3>4, <4>1 DEF FindSessions
      <4> QED BY <3>1, <3>2, <4>2 DEF Revoking
    <3> QED BY <3>3, <3>4
  <2>10. CASE RevokeSessions(r)
    <3>1. Reached(r) /\ pc[r] = "revokeSessions" /\ pc'[r] = "revokeAccess" /\ targets[r] \subseteq sessions
      BY <1>1, <2>10 DEF RevokeSessions, RevokeStep, RevokeInv, Revoking
    <3>2. written'[r].sessions = written[r].sessions \cup {s \in targets[r] : Live(s)}
      BY <2>10, RevokeSessionsWrites
    <3>3. UNCHANGED <<covered, reqVars, sessionRevoked, family, todo>>
      BY <2>10 DEF RevokeSessions, RevokeStep
    <3> QED BY <3>1, <3>2, <3>3 DEF Revoking, Live
  <2>11. CASE RevokeAccess(r)
    <3>1. Reached(r) /\ pc[r] = "revokeAccess" /\ pc'[r] = "revokeRefresh"
      BY <1>1, <2>11 DEF RevokeAccess, RevokeStep
    <3>2. written'[r].sessions = written[r].sessions
      BY <2>11, RevokeAccessWrites
    <3>3. UNCHANGED <<covered, reqVars, sessionRevoked, family, todo>>
      BY <2>11 DEF RevokeAccess, RevokeStep
    <3> QED BY <3>1, <3>2, <3>3 DEF Revoking
  <2>12. CASE RevokeRefresh(r)
    <3>1. Reached(r) /\ pc[r] = "revokeRefresh"
      BY <1>1, <2>12 DEF RevokeRefresh
    <3>2. written'[r].sessions = written[r].sessions
      BY <2>12, RevokeRefreshWrites
    <3>3. UNCHANGED <<covered, reqVars, sessionRevoked, family>>
      BY <2>12 DEF RevokeRefresh, RevokeStep
    <3>4. CASE todo[r] = {}
      <4>1. pc'[r] = "commitRevoke" /\ todo'[r] = {}
        BY <2>12, <3>4 DEF RevokeRefresh, RevokeStep
      <4> QED BY <3>1, <3>2, <3>3, <3>4, <4>1 DEF Revoking
    <3>5. CASE todo[r] # {}
      <4>1. PICK s \in todo[r] : /\ targets' = [targets EXCEPT ![r] = {s}]
                                 /\ todo' = [todo EXCEPT ![r] = @ \ {s}]
                                 /\ RevokeStep(r, "revokeSessions")
        BY <2>12, <3>5 DEF RevokeRefresh
      <4>2. pc'[r] = "revokeSessions" /\ targets'[r] = {s} /\ todo'[r] = todo[r] \ {s}
        BY <4>1 DEF RevokeStep
      <4> QED BY <3>1, <3>2, <3>3, <4>2 DEF Revoking
    <3> QED BY <3>4, <3>5
  <2>13. CASE CommitRevoke(r)
    <3>1. Reached(r) /\ pc[r] = "commitRevoke" /\ pc'[r] = Outcome(r)
      BY <1>1, <2>13 DEF CommitRevoke, Outcome
    <3>2. /\ UNCHANGED <<covered, reqVars, family>>
          /\ sessionRevoked' = sessionRevoked \cup written[r].sessions
      BY <2>13 DEF CommitRevoke
    <3> QED BY <3>1, <3>2 DEF Revoking, Outcome
  <2>14. CASE Fail(r)
    BY <2>3, <2>14 DEF Fail
  <2> QED BY <1>5, <2>2, <2>5, <2>6, <2>7, <2>8, <2>9, <2>10, <2>11, <2>12, <2>13, <2>14 DEF Acts, Step
<1>6. CASE \E r \in Requests : Acts(r)
  <2> PICK r \in Requests : Acts(r)
    BY <1>6
  <2>1. \A q \in Requests : q = r \/ q \in Requests \ {r}
    OBVIOUS
  <2> QED BY <1>4, <1>5, <2>1
<1>7. CASE UNCHANGED <<tables, pc, reqVars, revokeVars, covered>>
  BY <1>1, <1>3, <1>7 DEF tables, reqVars, revokeVars
<1> QED
  BY <1>6, <1>7, NextCases
-----------------------------------------------------------------------------
\* The tables are consistent: what the issuing and the revoking of tokens leave behind.
Consistent ==
    CodeUsedOnce /\ OneLiveRefreshPerSession /\ RotationIsAChain /\ RevokedSessionIsDead

\* A new code exchange, a rotation and a revocation leave the tables consistent, and nothing
\* else changes them.
LEMMA ConsistentStep ==
    BaseInv /\ LockInv /\ RevokeInv /\ Consistent /\ [Next]_vars => Consistent'
<1> SUFFICES ASSUME BaseInv, LockInv, RevokeInv, Consistent, [Next]_vars
             PROVE  Consistent'
  OBVIOUS
<1> USE DEF BaseInv, TypeOK, Consistent, CodeUsedOnce, OneLiveRefreshPerSession, LiveRefresh,
            RotationIsAChain, RevokedSessionIsDead, TokensOf
<1>1. \A t \in sessions \cup access \cup refresh : pc[t] = "issued"
  BY DEF IssuedInv
\* What a session or a token came from does not change.
<1>2. ASSUME NEW r \in Requests, Acts(r), NEW t \in sessions \cup access \cup refresh
      PROVE  t # r /\ op'[t] = op[t] /\ arg'[t] = arg[t] /\ family'[t] = family[t]
  <2>1. t # r /\ t \in Requests
    BY <1>1, <1>2, ActorNotDone DEF Steps
  <2> QED BY <1>2, <2>1, OthersUntouched, OnlyGrow
<1>3. \A t \in refresh : op[t] = "refresh" => arg[t] \in refresh
  BY DEF FlowInv
<1>4. ASSUME NEW r \in Requests, Acts(r), UNCHANGED tables PROVE Consistent'
  BY <1>2, <1>3, <1>4 DEF tables
<1>5. ASSUME NEW r \in Requests, IssueForCode(r) PROVE Consistent'
  <2>1. Acts(r)
    BY <1>5 DEF Acts, Step
  <2>2. /\ arg[r] \notin codeConsumed /\ r \notin sessions \cup access \cup refresh
        /\ op[r] = "exchange"
    BY <1>1, <1>5 DEF IssueForCode, LockInv
  <2>3. /\ sessions' = sessions \cup {r} /\ access' = access \cup {r}
        /\ refresh' \in {refresh, refresh \cup {r}} /\ family'[r] = r
        /\ UNCHANGED <<sessionRevoked, accessRevoked, refreshRevoked, refreshConsumed, reqVars>>
    BY <1>5 DEF IssueForCode
  <2>4. CodeUsedOnce'
    BY <2>2, <2>3 DEF IssuedInv, reqVars
  <2>5. \A t \in access \cup refresh : family'[t] = family[t] /\ family[t] # r
    BY <1>2, <2>1, <2>2 DEF IssuedInv
  <2>6. OneLiveRefreshPerSession'
    BY <2>2, <2>3, <2>5
  <2>7. RotationIsAChain'
    BY <1>3, <2>2, <2>3, <2>5 DEF reqVars
  <2>8. RevokedSessionIsDead'
    BY <2>2, <2>3, <2>5 DEF IssuedInv
  <2> QED BY <2>4, <2>6, <2>7, <2>8
<1>6. ASSUME NEW r \in Requests, IssueForRefresh(r) PROVE Consistent'
  <2>1. Acts(r)
    BY <1>6 DEF Acts, Step
  <2>2. /\ arg[r] \in refresh /\ arg[r] \notin refreshConsumed \cup refreshRevoked
        /\ family[arg[r]] \notin sessionRevoked
        /\ r \notin sessions \cup access \cup refresh /\ op[r] = "refresh"
    BY <1>1, <1>6 DEF IssueForRefresh, LockInv, FlowInv
  <2>3. /\ access' = access \cup {r} /\ refresh' = refresh \cup {r}
        /\ family'[r] = family[arg[r]] /\ refreshConsumed' = refreshConsumed \cup {arg[r]}
        /\ UNCHANGED <<sessions, sessionRevoked, accessRevoked, refreshRevoked, reqVars>>
    BY <1>6 DEF IssueForRefresh
  <2>4. \A t \in access \cup refresh : family'[t] = family[t]
    BY <1>2, <2>1
  <2>5. CodeUsedOnce'
    BY <2>3 DEF reqVars
  <2>6. OneLiveRefreshPerSession'
    BY <2>2, <2>3, <2>4
  <2>7. RotationIsAChain'
    BY <1>3, <2>2, <2>3, <2>4 DEF reqVars
  <2>8. RevokedSessionIsDead'
    BY <2>2, <2>3, <2>4
  <2> QED BY <2>5, <2>6, <2>7, <2>8
<1>7. ASSUME NEW r \in Requests, CommitRevoke(r) PROVE Consistent'
  <2>1. /\ UNCHANGED <<sessions, access, refresh, refreshConsumed, family, reqVars>>
        /\ sessionRevoked' = sessionRevoked \cup written[r].sessions
        /\ accessRevoked' = accessRevoked \cup written[r].access
        /\ refreshRevoked' = refreshRevoked \cup written[r].refresh
    BY <1>7 DEF CommitRevoke
  <2>2. \A s \in written[r].sessions :
            /\ TokensOf({s}, access) \subseteq accessRevoked \cup written[r].access
            /\ TokensOf({s}, refresh) \subseteq refreshRevoked \cup written[r].refresh
    BY <1>7 DEF CommitRevoke, RevokeInv, Revoking
  <2>3. RevokedSessionIsDead'
    BY <2>1, <2>2
  <2>4. CodeUsedOnce' /\ OneLiveRefreshPerSession' /\ RotationIsAChain'
    BY <2>1 DEF reqVars
  <2> QED BY <2>3, <2>4
<1>8. CASE \E r \in Requests : Acts(r)
  BY <1>4, <1>5, <1>6, <1>7, <1>8, OnlyGrow
<1>9. CASE UNCHANGED <<tables, reqVars>>
  BY <1>9 DEF tables, reqVars
<1> QED
  BY <1>8, <1>9, NextCases

-----------------------------------------------------------------------------
\* A request performs one operation, called once.
LEMMA OperationKept ==
    ASSUME BaseInv, [Next]_vars, NEW q \in Requests, op[q] # "none"
    PROVE  op'[q] = op[q] /\ arg'[q] = arg[q]
<1>1. ASSUME NEW r \in Requests, Acts(r) PROVE op'[q] = op[q] /\ arg'[q] = arg[q]
  <2>1. CASE r # q
    BY <1>1, <2>1, OthersUntouched DEF BaseInv
  <2>2. CASE Start(q)
    <3>1. pc[q] = "idle"
      BY <2>2 DEF Start, BeginExchange, BeginRefresh, BeginRevoke, BeginTerminate, BeginLogout,
                  BeginDisable, Begin
    <3> QED BY <3>1 DEF BaseInv, FlowInv
  <2>3. CASE Step(q) \/ Fail(q)
    BY <2>3 DEF Step, Fail, ConsumeCode, CheckUser, IssueForCode, Lookup, LookupSession,
              QueryCurrent, CheckSession, TouchSession, ConsumeRefresh, IssueForRefresh,
              RevokeLogins, FindSessions, RevokeSessions, RevokeAccess, RevokeRefresh, CommitRevoke,
              Moved, End, Advance, Replayed, RevokeStep, reqVars
  <2> QED BY <1>1, <2>1, <2>2, <2>3 DEF Acts
<1>2. CASE UNCHANGED reqVars
  BY <1>2 DEF reqVars
<1> QED
  BY <1>1, <1>2, NextCases

\* What caused a revocation remains its cause.
LEMMA CauseKept ==
    ASSUME BaseInv, [Next]_vars, NEW s \in sessions, Cause(s)
    PROVE  Cause(s)'
<1>1. \A q \in Requests : op[q] # "none" => op'[q] = op[q] /\ arg'[q] = arg[q]
  BY OperationKept
<1>2. LoginOf(s)' = LoginOf(s)
  BY LoginSettled
<1>3. \A t \in access \cup refresh : family'[t] = family[t]
  BY NextCases, OnlyGrow DEF tables
<1>4. refresh \subseteq refresh'
  BY NextCases, OnlyGrow DEF tables
<1>5. refresh \subseteq Requests
  BY DEF BaseInv, TypeOK
<1>6. PICK q \in Requests :
        \/ op[q] = "revoke" /\ family[arg[q]] = s
        \/ op[q] = "logout" /\ arg[q] = LoginOf(s)
        \/ op[q] \in {"terminate", "disable"}
        \/ /\ op[q] = "refresh"
           /\ family[arg[q]] = s
           /\ \E u \in refresh \ {q} : op[u] = "refresh" /\ arg[u] = arg[q]
  BY DEF Cause
<1>7. op[q] \in {"revoke", "refresh"} => arg[q] \in access \cup refresh
  BY DEF BaseInv, FlowInv
<1> QED
  BY <1>1, <1>2, <1>3, <1>4, <1>5, <1>6, <1>7 DEF Cause

\* No token session is revoked without a cause.
LEMMA CauseStep ==
    BaseInv /\ LockInv /\ RevokeInv /\ CauseInv /\ RevocationHasCause /\ [Next]_vars
        => CauseInv' /\ RevocationHasCause'
<1> SUFFICES ASSUME BaseInv, LockInv, RevokeInv, CauseInv, RevocationHasCause, [Next]_vars
             PROVE  CauseInv' /\ RevocationHasCause'
  OBVIOUS
<1> DEFINE
      Replacing == \A t \in refreshConsumed : \E u \in refresh : op[u] = "refresh" /\ arg[u] = t
      WithSession == refreshRevoked \subseteq TokensOf(sessionRevoked, refresh)
      Caused(r) == \A s \in targets[r] \cup todo[r] \cup written[r].sessions : Cause(s)
      AtTargets(r) == pc[r] \in {"revokeAccess", "revokeRefresh"} =>
                        targets[r] \subseteq sessionRevoked \cup written[r].sessions
      Together(r) == written[r].refresh \subseteq
                        TokensOf(sessionRevoked \cup written[r].sessions, refresh)
      Good(r) == pc[r] \in Revoking => Caused(r) /\ AtTargets(r) /\ Together(r)
<1>1. Replacing /\ WithSession /\ \A r \in Requests : Good(r)
  BY DEF CauseInv
<1>2. SUFFICES Replacing' /\ WithSession' /\ (\A r \in Requests : Good(r)') /\ RevocationHasCause'
  BY DEF CauseInv
<1> USE DEF BaseInv
<1>3. \A s \in sessions : Cause(s) => Cause(s)'
  BY CauseKept
<1>4. \A r \in Requests : pc[r] \in Revoking =>
        targets[r] \cup todo[r] \cup written[r].sessions \subseteq sessions
  BY DEF RevokeInv
<1>5. sessionRevoked \subseteq sessions
  BY DEF IssuedInv
<1>6. \A u \in refresh : op[u] # "none" => op'[u] = op[u] /\ arg'[u] = arg[u]
  BY OperationKept DEF TypeOK
<1>7. ASSUME NEW r \in Requests, Acts(r), NEW q \in Requests \ {r} PROVE Good(q)'
  <2>1. /\ pc'[q] = pc[q] /\ todo'[q] = todo[q] /\ targets'[q] = targets[q]
        /\ written'[q] = written[q]
    BY <1>7, OthersUntouched
  <2> SUFFICES ASSUME pc[q] \in Revoking PROVE Caused(q)' /\ AtTargets(q)' /\ Together(q)'
    BY <2>1
  <2>2. Caused(q) /\ AtTargets(q) /\ Together(q)
    BY <1>1
  <2>3. Caused(q)'
    BY <1>3, <1>4, <2>1, <2>2
  <2>4. AtTargets(q)'
    BY <1>7, <2>1, <2>2, OnlyGrow
  <2>5. Together(q)'
    BY <1>7, <2>1, <2>2, OnlyGrow DEF TokensOf
  <2> QED BY <2>3, <2>4, <2>5
<1>8. ASSUME NEW r \in Requests, Acts(r) PROVE Good(r)'
  <2> USE DEF TypeOK, Goto, Moved, reqVars, tables, revokeVars
  <2>1. ASSUME pc'[r] \notin Revoking PROVE Good(r)'
    BY <2>1
  \* A revocation begins: it knows its sessions, and has written nothing.
  <2>2. ASSUME written'[r] = NothingWritten, pc'[r] = "revokeSessions",
               targets'[r] \cup todo'[r] \subseteq sessions,
               \A s \in targets'[r] \cup todo'[r] : Cause(s)
        PROVE  Good(r)'
    BY <1>3, <2>2 DEF NothingWritten
  <2>3. pc[r] \in {"lookup", "current", "consumeRefresh", "findSessions"} =>
            written[r] = NothingWritten /\ todo[r] = {}
    BY DEF RevokeInv, Revoking, Ended
  <2>4. ASSUME Replayed(r), arg[r] \in refreshConsumed, op[r] = "refresh",
               pc[r] \in {"lookup", "current", "consumeRefresh"}
        PROVE  Good(r)'
    <3>1. arg[r] \in refresh /\ family[arg[r]] \in sessions
      BY <2>4 DEF FlowInv, IssuedInv
    <3>2. PICK u \in refresh : op[u] = "refresh" /\ arg[u] = arg[r]
      BY <1>1, <2>4
    <3>3. u # r
      BY <2>4, <3>2 DEF IssuedInv
    <3>4. Cause(family[arg[r]])
      BY <2>4, <3>2, <3>3 DEF Cause
    <3>5. targets'[r] = {family[arg[r]]} /\ todo'[r] = {} /\ written'[r] = NothingWritten
      BY <2>3, <2>4 DEF Replayed
    <3> QED BY <2>2, <2>4, <3>1, <3>4, <3>5 DEF Replayed
  <2>5. CASE Start(r)
    <3>1. \E step \in {"consumeCode", "lookup", "findSessions", "revokeLogins"} :
            pc' = [pc EXCEPT ![r] = step]
      BY <2>5 DEF Start, BeginExchange, BeginRefresh, BeginRevoke, BeginTerminate, BeginLogout,
                  BeginDisable, Begin
    <3> QED BY <2>1, <3>1 DEF Revoking
  <2>6. CASE ConsumeCode(r) \/ CheckUser(r) \/ LookupSession(r) \/ CheckSession(r) \/ TouchSession(r)
    BY <2>1, <2>6 DEF ConsumeCode, CheckUser, LookupSession, CheckSession, TouchSession,
                      Advance, End, Revoking
  <2>7. CASE Lookup(r) \/ QueryCurrent(r)
    <3>1. op[r] = "refresh" /\ pc[r] \in {"lookup", "current"}
      BY <2>7 DEF FlowInv, Lookup, QueryCurrent
    <3>2. CASE arg[r] \in refreshConsumed
      BY <2>4, <2>7, <3>1, <3>2 DEF Lookup, QueryCurrent
    <3>3. CASE arg[r] \notin refreshConsumed
      BY <2>1, <2>7, <3>3 DEF Lookup, QueryCurrent, End, Advance, Revoking
    <3> QED BY <3>2, <3>3
  <2>8. CASE ConsumeRefresh(r)
    <3>1. op[r] = "refresh" /\ pc[r] = "consumeRefresh" /\ arg[r] \in refresh
      BY <2>8 DEF FlowInv, ConsumeRefresh
    <3>2. arg[r] \notin refreshRevoked
      BY <1>1, <3>1 DEF LockInv, TokensOf
    <3>3. CASE arg[r] \in refreshConsumed
      BY <2>4, <2>8, <3>1, <3>3 DEF ConsumeRefresh
    <3>4. CASE arg[r] \notin refreshConsumed
      BY <2>1, <2>8, <3>2, <3>4 DEF ConsumeRefresh, Revoking
    <3> QED BY <3>3, <3>4
  <2>9. CASE IssueForCode(r) \/ IssueForRefresh(r) \/ RevokeLogins(r)
    BY <2>1, <2>9 DEF IssueForCode, IssueForRefresh, RevokeLogins, Revoking
  <2>10. CASE FindSessions(r)
    <3>1. op[r] \in {"revoke", "terminate", "logout", "disable"} /\ written[r] = NothingWritten
      BY <2>3, <2>10 DEF FindSessions, FlowInv
    <3>2. \A s \in Found(r) : s \in sessions /\ Cause(s)
      BY <3>1 DEF Found, Cause
    <3>3. CASE Found(r) = {}
      BY <2>1, <2>10, <3>3 DEF FindSessions, End, Outcome, Revoking
    <3>4. CASE Found(r) # {}
      <4>1. PICK first \in IF op[r] = "terminate" THEN {{s} : s \in Found(r)} ELSE {Found(r)} :
                /\ targets' = [targets EXCEPT ![r] = first]
                /\ todo' = [todo EXCEPT ![r] = Found(r) \ first]
        BY <2>10, <3>4 DEF FindSessions
      <4>2. targets'[r] \cup todo'[r] \subseteq Found(r)
        BY <4>1
      <4>3. pc'[r] = "revokeSessions" /\ written'[r] = NothingWritten
        BY <2>10, <3>1, <3>4 DEF FindSessions
      <4> QED BY <2>2, <3>2, <4>2, <4>3
    <3> QED BY <3>3, <3>4
  <2>11. CASE RevokeSessions(r)
    <3>1. Caused(r) /\ Together(r) /\ targets[r] \cup todo[r] \cup written[r].sessions \subseteq sessions
      BY <1>1, <1>4, <2>11 DEF RevokeSessions, Revoking
    <3>2. /\ written'[r].sessions = written[r].sessions \cup {s \in targets[r] : Live(s)}
          /\ written'[r].refresh = written[r].refresh
      BY <2>11, RevokeSessionsWrites
    <3>3. UNCHANGED <<tables, todo, targets>>
      BY <2>11 DEF RevokeSessions, RevokeStep
    <3>4. Caused(r)'
      BY <1>3, <3>1, <3>2, <3>3
    <3>5. AtTargets(r)'
      BY <3>1, <3>2, <3>3 DEF Live
    <3>6. Together(r)'
      BY <3>1, <3>2, <3>3 DEF TokensOf
    <3> QED BY <3>4, <3>5, <3>6
  <2>12. CASE RevokeAccess(r)
    <3>1. Caused(r) /\ AtTargets(r) /\ Together(r) /\ pc[r] = "revokeAccess"
      BY <1>1, <2>12 DEF RevokeAccess, Revoking
    <3>2. /\ written'[r].sessions = written[r].sessions
          /\ written'[r].refresh = written[r].refresh
      BY <2>12, RevokeAccessWrites
    <3>3. UNCHANGED <<tables, todo, targets>>
      BY <2>12 DEF RevokeAccess, RevokeStep
    <3>4. Caused(r)'
      BY <1>3, <1>4, <3>1, <3>2, <3>3 DEF Revoking
    <3>5. AtTargets(r)' /\ Together(r)'
      BY <3>1, <3>2, <3>3 DEF TokensOf
    <3> QED BY <3>4, <3>5
  <2>13. CASE RevokeRefresh(r)
    <3>1. Caused(r) /\ AtTargets(r) /\ Together(r) /\ pc[r] = "revokeRefresh"
      BY <1>1, <2>13 DEF RevokeRefresh, Revoking
    <3>2. /\ written'[r].sessions = written[r].sessions
          /\ written'[r].refresh = written[r].refresh \cup TokensOf(targets[r], refresh \ refreshRevoked)
      BY <2>13, RevokeRefreshWrites
    <3>3. /\ UNCHANGED tables /\ pc'[r] \in {"commitRevoke", "revokeSessions"}
          /\ targets'[r] \cup todo'[r] \subseteq targets[r] \cup todo[r]
      <4>1. CASE todo[r] = {}
        BY <2>13, <4>1 DEF RevokeRefresh, RevokeStep
      <4>2. CASE todo[r] # {}
        <5>1. PICK s \in todo[r] : /\ targets' = [targets EXCEPT ![r] = {s}]
                                   /\ todo' = [todo EXCEPT ![r] = @ \ {s}]
                                   /\ RevokeStep(r, "revokeSessions")
          BY <2>13, <4>2 DEF RevokeRefresh
        <5> QED BY <5>1 DEF RevokeStep
      <4> QED BY <4>1, <4>2
    <3>4. Caused(r)'
      BY <1>3, <1>4, <3>1, <3>2, <3>3 DEF Revoking
    <3>5. AtTargets(r)' /\ Together(r)'
      BY <3>1, <3>2, <3>3 DEF TokensOf
    <3> QED BY <3>4, <3>5
  <2>14. CASE CommitRevoke(r)
    BY <2>1, <2>14 DEF CommitRevoke, Outcome, Revoking
  <2>15. CASE Fail(r)
    BY <2>1, <2>15 DEF Fail, End, Revoking
  <2> QED BY <1>8, <2>5, <2>6, <2>7, <2>8, <2>9, <2>10, <2>11, <2>12, <2>13, <2>14, <2>15 DEF Acts, Step
<1>9. ASSUME NEW r \in Requests, Acts(r)
      PROVE  Replacing' /\ WithSession' /\ RevocationHasCause'
  <2>1. CASE UNCHANGED tables
    BY <1>1, <1>3, <1>5, <1>6, <2>1 DEF tables, RevocationHasCause, TokensOf
  <2>2. CASE IssueForCode(r)
    <3>1. /\ UNCHANGED <<refreshConsumed, refreshRevoked, sessionRevoked>>
          /\ refresh \subseteq refresh' /\ \A t \in refresh : family'[t] = family[t]
      BY <1>9, <2>2, OnlyGrow DEF IssueForCode
    <3> QED BY <1>1, <1>3, <1>5, <1>6, <3>1 DEF RevocationHasCause, TokensOf
  <2>3. CASE IssueForRefresh(r)
    <3>1. /\ UNCHANGED <<refreshRevoked, sessionRevoked, reqVars>>
          /\ refresh' = refresh \cup {r} /\ refreshConsumed' = refreshConsumed \cup {arg[r]}
          /\ op[r] = "refresh"
          /\ \A t \in refresh : family'[t] = family[t]
      BY <1>9, <2>3, OnlyGrow DEF IssueForRefresh
    <3> QED BY <1>1, <1>3, <1>5, <3>1 DEF RevocationHasCause, TokensOf, reqVars
  <2>4. CASE CommitRevoke(r)
    <3>1. Caused(r) /\ Together(r) /\ written[r].sessions \subseteq sessions
      BY <1>1, <1>4, <2>4 DEF CommitRevoke, Revoking
    <3>2. /\ UNCHANGED <<refresh, refreshConsumed, family, reqVars>>
          /\ sessionRevoked' = sessionRevoked \cup written[r].sessions
          /\ refreshRevoked' = refreshRevoked \cup written[r].refresh
      BY <2>4 DEF CommitRevoke
    <3> QED BY <1>1, <1>3, <1>5, <3>1, <3>2 DEF RevocationHasCause, TokensOf, reqVars
  <2> QED BY <1>9, <2>1, <2>2, <2>3, <2>4, OnlyGrow
<1>10. CASE \E r \in Requests : Acts(r)
  <2> PICK r \in Requests : Acts(r)
    BY <1>10
  <2>1. \A q \in Requests : q = r \/ q \in Requests \ {r}
    OBVIOUS
  <2> QED BY <1>7, <1>8, <1>9, <2>1
<1>11. CASE UNCHANGED <<tables, pc, reqVars, revokeVars>>
  <2>1. \A r \in Requests : Good(r)'
    BY <1>1, <1>3, <1>4, <1>11 DEF tables, revokeVars, TokensOf
  <2> QED BY <1>1, <1>3, <1>5, <1>6, <1>11, <2>1 DEF tables, reqVars, RevocationHasCause, TokensOf
<1> QED
  BY <1>10, <1>11, NextCases

-----------------------------------------------------------------------------
(* The order in which rows are locked.                                      *)

\* What a step of its own leaves a request with, when the request holds no row afterwards.
NoLocks(r) == \A row \in Rows : <<r, row>> \notin locks

\* A request that ends gives up its rows.
LEMMA ReleasesAll ==
    ASSUME NEW r, Release(r)
    PROVE  NoLocks(r)'
<1>1. ASSUME NEW row PROVE <<r, row>>[1] = r
  OBVIOUS
<1> QED BY <1>1 DEF Release, NoLocks

\* A step takes a session's row before the rows of its tokens.
LEMMA OrderStep == BaseInv /\ LockInv /\ RevokeInv /\ CauseInv /\ OrderInv /\ RevokedSessionIsDead /\ [Next]_vars => OrderInv'
<1> SUFFICES ASSUME BaseInv, LockInv, RevokeInv, CauseInv, OrderInv, RevokedSessionIsDead,
                    [Next]_vars
             PROVE  OrderInv'
  OBVIOUS
<1> DEFINE
      Between(r) == pc[r] \in {"checkUser", "consumeRefresh", "issue"} \cup Revoking \/ NoLocks(r)
      Entering(r) == pc[r] = "checkUser" /\ op[r] = "refresh" => NoLocks(r)
      Under(r) == \A t \in Requests : <<r, <<"refresh", t>>>> \in locks =>
                    t \in refresh /\ <<r, <<"session", family[t]>>>> \in locks
      Aims(r) == op[r] \in {"refresh", "revoke"} =>
                    (pc[r] \in Revoking => targets[r] = {family[arg[r]]} /\ todo[r] = {})
      Own(r) == op[r] \in {"refresh", "revoke"} =>
                    /\ \A s \in Requests : <<r, <<"session", s>>>> \in locks => s = family[arg[r]]
                    /\ \A c \in Codes : <<r, <<"code", c>>>> \notin locks
      Kind(r) == pc[r] \in Revoking => op[r] \notin {"exchange", "none"}
      Good(r) == Between(r) /\ Entering(r) /\ Under(r) /\ Kind(r) /\ Aims(r) /\ Own(r)
<1>1. \A r \in Requests : Good(r)
  BY DEF OrderInv, NoLocks
<1>2. SUFFICES \A r \in Requests : Good(r)'
  BY DEF OrderInv, NoLocks
<1> USE DEF BaseInv
<1>3. /\ \A t \in Requests : <<"session", t>> \in Rows /\ <<"refresh", t>> \in Rows
      /\ \A c \in Codes : <<"code", c>> \in Rows
  BY DEF Rows
<1>4. \A r \in Requests : op[r] \in {"refresh", "revoke"} =>
        arg[r] \in Requests /\ arg[r] \in access \cup refresh /\ family[arg[r]] \in sessions
  BY DEF FlowInv, IssuedInv, TypeOK
<1>5. ASSUME NEW r \in Requests, Acts(r), NEW q \in Requests \ {r} PROVE Good(q)'
  <2>1. \A row : <<q, row>> \in locks <=> <<q, row>> \in locks'
    <3> SUFFICES ASSUME NEW row PROVE <<q, row>> \in locks <=> <<q, row>> \in locks'
      OBVIOUS
    <3>1. <<q, row>>[1] = q
      OBVIOUS
    <3> QED BY <1>5, <3>1, Locking
  <2>2. /\ pc'[q] = pc[q] /\ op'[q] = op[q] /\ arg'[q] = arg[q]
        /\ targets'[q] = targets[q] /\ todo'[q] = todo[q]
    BY <1>5, OthersUntouched
  <2>3. refresh \subseteq refresh' /\ \A t \in access \cup refresh : family'[t] = family[t]
    BY <1>5, OnlyGrow
  <2>4. Good(q)
    BY <1>1
  <2>5. Between(q)' /\ Entering(q)'
    BY <2>1, <2>2, <2>4 DEF NoLocks
  <2>6. Under(q)'
    BY <2>1, <2>3, <2>4
  <2>7. Kind(q)' /\ Aims(q)' /\ Own(q)'
    BY <1>4, <2>1, <2>2, <2>3, <2>4
  <2> QED BY <2>5, <2>6, <2>7
<1>6. ASSUME NEW r \in Requests, Acts(r) PROVE Good(r)'
  <2> USE DEF TypeOK, Goto
  <2>1. ASSUME NoLocks(r)', pc'[r] \notin Revoking PROVE Good(r)'
    BY <1>3, <2>1 DEF NoLocks
  <2>2. Good(r)
    BY <1>1
  <2>3. ASSUME NEW how \in Ended, End(r, how) PROVE Good(r)'
    BY <2>1, <2>3, ReleasesAll DEF End, Ended, Revoking
  \* A request without rows goes on without any.
  <2>4. ASSUME pc[r] \notin {"checkUser", "consumeRefresh", "issue"} \cup Revoking,
               NEW step, Goto(r, step), step \notin Revoking, UNCHANGED locks
        PROVE  Good(r)'
    <3>1. NoLocks(r)
      BY <2>2, <2>4
    <3>2. NoLocks(r)' /\ pc'[r] = step
      BY <2>4, <3>1 DEF NoLocks
    <3> QED BY <2>1, <2>4, <3>2
  \* A replay turns into the revocation of one session.
  <2>5. ASSUME Replayed(r), op[r] = "refresh", pc[r] \in {"lookup", "current", "consumeRefresh"},
               UNCHANGED locks
        PROVE  Good(r)'
    <3>1. /\ op'[r] = op[r] /\ arg'[r] = arg[r] /\ pc'[r] = "revokeSessions"
          /\ targets'[r] = {family[arg[r]]} /\ todo' = todo /\ family' = family /\ refresh' = refresh
      BY <2>5 DEF Replayed, reqVars, tables
    <3>2. todo[r] = {}
      BY <2>5 DEF RevokeInv, Revoking, Ended
    <3> QED BY <2>2, <2>5, <3>1, <3>2 DEF Revoking
  <2>6. CASE Start(r)
    <3>1. PICK step \in {"consumeCode", "lookup", "findSessions", "revokeLogins"} :
            pc[r] = "idle" /\ Goto(r, step) /\ UNCHANGED locks
      BY <2>6 DEF Start, BeginExchange, BeginRefresh, BeginRevoke, BeginTerminate, BeginLogout,
                  BeginDisable, Begin
    <3> QED BY <2>4, <3>1 DEF Revoking
  <2>7. CASE Fail(r)
    BY <2>3, <2>7 DEF Fail, Ended
  <2>8. CASE ConsumeCode(r)
    <3>1. op[r] = "exchange" /\ pc[r] = "consumeCode" /\ arg[r] \in Codes
      BY <2>8 DEF ConsumeCode, FlowInv
    <3>2. CASE arg[r] \in codeConsumed
      BY <2>3, <2>8, <3>2 DEF ConsumeCode, Ended
    <3>3. CASE arg[r] \notin codeConsumed
      <4>1. /\ locks' = locks \cup {<<r, <<"code", arg[r]>>>>}
            /\ pc'[r] = "checkUser" /\ op'[r] = "exchange" /\ family' = family
        BY <2>8, <3>1, <3>3 DEF ConsumeCode, Moved, reqVars, tables
      <4>2. NoLocks(r)
        BY <2>2, <3>1 DEF Revoking
      <4>3. \A t \in Requests : <<r, <<"refresh", t>>>> \notin locks'
        BY <1>3, <4>1, <4>2 DEF NoLocks
      <4> QED BY <4>1, <4>3 DEF Revoking
    <3> QED BY <3>2, <3>3
  <2>9. CASE CheckUser(r)
    <3>1. op[r] \in {"exchange", "refresh"} /\ pc[r] = "checkUser"
      BY <2>9 DEF CheckUser, FlowInv
    <3>2. CASE ~userActive
      BY <2>3, <2>9, <3>2 DEF CheckUser, Ended
    <3>3. CASE userActive /\ op[r] = "exchange"
      <4>1. pc'[r] = "issue" /\ UNCHANGED <<op, arg, family, refresh, locks>>
        BY <2>9, <3>3 DEF CheckUser, Moved, reqVars, tables
      <4> QED BY <2>2, <3>3, <4>1 DEF Revoking
    <3>4. CASE userActive /\ op[r] = "refresh"
      <4>1. NoLocks(r)
        BY <2>2, <3>1, <3>4
      <4>2. NoLocks(r)' /\ pc'[r] = "touchSession"
        BY <2>9, <3>4, <4>1 DEF CheckUser, NoLocks
      <4> QED BY <2>1, <4>2 DEF Revoking
    <3> QED BY <3>1, <3>2, <3>3, <3>4
  <2>10. CASE Lookup(r)
    <3>1. op[r] = "refresh" /\ pc[r] = "lookup"
      BY <2>10 DEF Lookup, FlowInv
    <3>2. (Replayed(r) /\ UNCHANGED locks) \/ End(r, "failed") \/ Advance(r, "lookupSession")
      BY <2>10 DEF Lookup, Replayed
    <3> QED BY <2>3, <2>4, <2>5, <3>1, <3>2 DEF Advance, Revoking, Ended
  <2>11. CASE LookupSession(r)
    <3>1. pc[r] = "lookupSession" /\ (End(r, "failed") \/ Advance(r, "current"))
      BY <2>11 DEF LookupSession
    <3> QED BY <2>3, <2>4, <3>1 DEF Advance, Revoking, Ended
  <2>12. CASE QueryCurrent(r)
    <3>1. op[r] = "refresh" /\ pc[r] = "current"
      BY <2>12 DEF QueryCurrent, FlowInv
    <3>2. (Replayed(r) /\ UNCHANGED locks) \/ End(r, "failed") \/ Advance(r, "checkSession")
      BY <2>12 DEF QueryCurrent, Replayed
    <3> QED BY <2>3, <2>4, <2>5, <3>1, <3>2 DEF Advance, Revoking, Ended
  <2>13. CASE CheckSession(r)
    <3>1. pc[r] = "checkSession" /\ (End(r, "failed") \/ Advance(r, "checkUser"))
      BY <2>13 DEF CheckSession
    <3> QED BY <2>3, <2>4, <3>1 DEF Advance, Revoking, Ended
  <2>14. CASE TouchSession(r)
    <3>1. op[r] = "refresh" /\ pc[r] = "touchSession"
      BY <2>14 DEF TouchSession, FlowInv
    <3>2. CASE family[arg[r]] \in sessionRevoked
      BY <2>3, <2>14, <3>2 DEF TouchSession, Ended
    <3>3. CASE family[arg[r]] \notin sessionRevoked
      <4>1. /\ locks' = locks \cup {<<r, <<"session", family[arg[r]]>>>>}
            /\ pc'[r] = "consumeRefresh" /\ op'[r] = "refresh" /\ arg'[r] = arg[r] /\ family' = family
        BY <2>14, <3>1, <3>3 DEF TouchSession, Moved, reqVars, tables
      <4>2. NoLocks(r)
        BY <2>2, <3>1 DEF Revoking
      <4>3. \A t \in Requests : <<r, <<"refresh", t>>>> \notin locks'
        BY <1>3, <4>1, <4>2 DEF NoLocks
      <4>4. Own(r)'
        BY <1>3, <4>1, <4>2 DEF NoLocks
      <4> QED BY <4>1, <4>3, <4>4 DEF Revoking
    <3> QED BY <3>2, <3>3
  <2>15. CASE ConsumeRefresh(r)
    <3>1. op[r] = "refresh" /\ pc[r] = "consumeRefresh" /\ arg[r] \in refresh
      BY <2>15 DEF ConsumeRefresh, FlowInv
    <3>2. CASE arg[r] \in refreshConsumed \cup refreshRevoked
      BY <2>5, <2>15, <3>1, <3>2 DEF ConsumeRefresh, Replayed
    <3>3. CASE arg[r] \notin refreshConsumed \cup refreshRevoked
      <4>1. /\ locks' = locks \cup {<<r, <<"refresh", arg[r]>>>>} /\ pc'[r] = "issue"
            /\ op'[r] = "refresh" /\ arg'[r] = arg[r] /\ family' = family /\ refresh' = refresh
        BY <2>15, <3>1, <3>3 DEF ConsumeRefresh, Moved, reqVars, tables
      <4>2. <<r, <<"session", family[arg[r]]>>>> \in locks
        BY <3>1 DEF LockInv
      <4>3. Under(r)'
        BY <2>2, <3>1, <4>1, <4>2
      <4>4. Own(r)'
        BY <2>2, <3>1, <4>1
      <4> QED BY <4>1, <4>3, <4>4 DEF Revoking
    <3> QED BY <3>2, <3>3
  <2>16. CASE IssueForCode(r) \/ IssueForRefresh(r)
    BY <2>1, <2>16, ReleasesAll DEF IssueForCode, IssueForRefresh, Revoking
  <2>17. CASE RevokeLogins(r)
    BY <2>4, <2>17 DEF RevokeLogins, Revoking
  <2>18. CASE FindSessions(r)
    <3>1. pc[r] = "findSessions" /\ op[r] \in {"revoke", "terminate", "logout", "disable"}
      BY <2>18 DEF FindSessions, FlowInv
    <3>2. CASE Found(r) = {}
      BY <2>1, <2>18, <3>2, ReleasesAll DEF FindSessions, End, Outcome, Revoking
    <3>3. CASE Found(r) # {}
      <4>1. PICK first \in IF op[r] = "terminate" THEN {{s} : s \in Found(r)} ELSE {Found(r)} :
                /\ targets' = [targets EXCEPT ![r] = first]
                /\ todo' = [todo EXCEPT ![r] = Found(r) \ first]
        BY <2>18, <3>3 DEF FindSessions
      <4>2. pc'[r] = "revokeSessions" /\ UNCHANGED <<op, arg, family, refresh, locks>>
        BY <2>18, <3>3 DEF FindSessions, reqVars, tables
      <4>3. NoLocks(r)'
        BY <2>2, <3>1, <4>2 DEF NoLocks, Revoking
      <4>4. op[r] = "revoke" => Found(r) = {family[arg[r]]}
        BY <1>4 DEF Found
      <4>5. Aims(r)'
        <5>1. op[r] # "terminate" => targets'[r] = Found(r) /\ todo'[r] = {}
          BY <4>1
        <5> QED BY <3>1, <4>2, <4>4, <5>1
      <4> QED BY <1>3, <3>1, <4>2, <4>3, <4>5 DEF NoLocks, Revoking
    <3> QED BY <3>2, <3>3
  <2>19. CASE RevokeSessions(r)
    <3>1. pc[r] = "revokeSessions" /\ pc'[r] = "revokeAccess"
      BY <2>19 DEF RevokeSessions, RevokeStep
    <3>2. /\ locks' = locks \cup ({r} \X ({"session"} \X {s \in targets[r] : Live(s)}))
          /\ UNCHANGED <<op, arg, family, refresh, targets, todo>>
      BY <2>19 DEF RevokeSessions, RevokeStep, reqVars, tables
    <3>3. Under(r)'
      BY <2>2, <3>2
    <3>4. Own(r)'
      BY <2>2, <3>1, <3>2 DEF Revoking
    <3> QED BY <2>2, <3>1, <3>2, <3>3, <3>4 DEF Revoking
  <2>20. CASE RevokeAccess(r)
    <3>1. pc[r] = "revokeAccess" /\ pc'[r] = "revokeRefresh"
      BY <2>20 DEF RevokeAccess, RevokeStep
    <3>2. UNCHANGED <<op, arg, family, refresh, targets, todo, locks>>
      BY <2>20 DEF RevokeAccess, RevokeStep, reqVars, tables
    <3> QED BY <2>2, <3>1, <3>2 DEF Revoking
  <2>21. CASE RevokeRefresh(r)
    <3> DEFINE matched == TokensOf(targets[r], refresh \ refreshRevoked)
    <3>1. pc[r] = "revokeRefresh" /\ pc'[r] \in {"commitRevoke", "revokeSessions"}
      BY <2>21 DEF RevokeRefresh, RevokeStep
    <3>2. /\ locks' = locks \cup ({r} \X ({"refresh"} \X matched))
          /\ UNCHANGED <<op, arg, family, refresh>>
      BY <2>21 DEF RevokeRefresh, RevokeStep, reqVars, tables
    <3>3. todo[r] = {} => UNCHANGED <<targets, todo>>
      BY <2>21 DEF RevokeRefresh
    <3>4. \A t \in matched : t \in refresh /\ <<r, <<"session", family[t]>>>> \in locks
      BY <3>1 DEF RevokeInv, CauseInv, RevokedSessionIsDead, Revoking, TokensOf
    <3>5. Under(r)'
      BY <2>2, <3>2, <3>4
    <3>6. Own(r)'
      BY <2>2, <3>2
    <3>7. Aims(r)'
      <4>1. op[r] \in {"refresh", "revoke"} => targets[r] = {family[arg[r]]} /\ todo[r] = {}
        BY <2>2, <3>1 DEF Revoking
      <4> QED BY <3>2, <3>3, <4>1
    <3>8. Kind(r)'
      BY <2>2, <3>1, <3>2 DEF Revoking
    <3> QED BY <3>1, <3>5, <3>6, <3>7, <3>8 DEF Revoking
  <2>22. CASE CommitRevoke(r)
    BY <2>1, <2>22, ReleasesAll DEF CommitRevoke, Outcome, Revoking
  <2> QED BY <1>6, <2>6, <2>7, <2>8, <2>9, <2>10, <2>11, <2>12, <2>13, <2>14, <2>15, <2>16, <2>17,
             <2>18, <2>19, <2>20, <2>21, <2>22 DEF Acts, Step
<1>7. CASE \E r \in Requests : Acts(r)
  <2> PICK r \in Requests : Acts(r)
    BY <1>7
  <2>1. \A q \in Requests : q = r \/ q \in Requests \ {r}
    OBVIOUS
  <2> QED BY <1>5, <1>6, <2>1
<1>8. CASE UNCHANGED <<tables, pc, reqVars, locks, revokeVars>>
  BY <1>1, <1>8 DEF tables, reqVars, revokeVars, NoLocks
<1> QED
  BY <1>7, <1>8, NextCases

\* Nobody waits for the row of a refresh token: who wants it holds its session's row, and so
\* does who holds it.
LEMMA TokenRowsAreFree ==
    ASSUME BaseInv, LockInv, RevokeInv, CauseInv, OrderInv, RevokedSessionIsDead,
           NEW r \in Requests, NEW q \in Requests, WaitsFor(r, q)
    PROVE  pc[r] \in {"consumeCode", "touchSession", "revokeSessions"}
<1> SUFFICES ASSUME pc[r] \notin {"consumeCode", "touchSession", "revokeSessions"} PROVE FALSE
  OBVIOUS
<1> USE DEF BaseInv
<1>1. PICK row \in Wanted(r) : <<q, row>> \in locks /\ q # r
  BY DEF WaitsFor
<1>2. PICK t \in refresh :
        row = <<"refresh", t>> /\ <<r, <<"session", family[t]>>>> \in locks
  <2>1. CASE pc[r] = "consumeRefresh"
    <3>1. op[r] = "refresh" /\ arg[r] \in refresh /\ row = <<"refresh", arg[r]>>
      BY <1>1, <2>1 DEF Wanted, FlowInv
    <3> QED BY <2>1, <3>1 DEF LockInv
  <2>2. CASE pc[r] = "revokeRefresh"
    <3>1. PICK t \in TokensOf(targets[r], refresh \ refreshRevoked) : row = <<"refresh", t>>
      BY <1>1, <2>2 DEF Wanted
    <3>2. t \in refresh /\ <<r, <<"session", family[t]>>>> \in locks
      BY <2>2, <3>1 DEF RevokeInv, CauseInv, RevokedSessionIsDead, Revoking, TokensOf
    <3> QED BY <3>1, <3>2
  <2> QED BY <1>1, <2>1, <2>2 DEF Wanted
<1>3. <<q, <<"session", family[t]>>>> \in locks
  BY <1>1, <1>2 DEF OrderInv, TypeOK
<1> QED BY <1>1, <1>2, <1>3, Exclusive

\* A request that works on one session waits for no other once it holds a row.
LEMMA HoldersProceed ==
    ASSUME BaseInv, LockInv, RevokeInv, CauseInv, OrderInv, RevokedSessionIsDead,
           NEW q \in Requests, NEW p \in Requests, WaitsFor(q, p),
           op[q] \notin {"terminate", "logout", "disable"}
    PROVE  NoLocks(q)
<1> SUFFICES ASSUME NEW row \in Rows, <<q, row>> \in locks PROVE FALSE
  BY DEF NoLocks
<1> USE DEF BaseInv
<1>1. pc[q] = "revokeSessions"
  BY TokenRowsAreFree DEF OrderInv, Revoking
<1>2. op[q] \in {"refresh", "revoke"} /\ targets[q] = {family[arg[q]]}
  BY <1>1, ConstantsAssumption DEF OrderInv, Revoking, TypeOK
<1>3. <<q, <<"session", family[arg[q]]>>>> \in locks
  <2>1. CASE row \in {"code"} \X Codes
    BY <1>2, <2>1 DEF OrderInv
  <2>2. CASE row \in {"session"} \X Requests
    BY <1>2, <2>2 DEF OrderInv
  <2>3. CASE row \in {"refresh"} \X Requests
    <3>1. PICK t \in Requests : row = <<"refresh", t>>
      BY <2>3
    <3>2. t \in refresh /\ <<q, <<"session", family[t]>>>> \in locks
      BY <3>1 DEF OrderInv
    <3>3. family[t] \in Requests
      BY <3>2 DEF IssuedInv, TypeOK
    <3> QED BY <1>2, <3>2, <3>3 DEF OrderInv
  <2> QED BY <2>1, <2>2, <2>3 DEF Rows
<1>4. PICK wanted \in Wanted(q) : <<p, wanted>> \in locks /\ p # q
  BY DEF WaitsFor
<1>5. wanted = <<"session", family[arg[q]]>>
  BY <1>1, <1>2, <1>4 DEF Wanted
<1> QED BY <1>3, <1>4, <1>5, Exclusive

\* The wait-for graph has no cycle of requests that work on one session each.
LEMMA OrderPreventsDeadlock ==
    BaseInv /\ LockInv /\ RevokeInv /\ CauseInv /\ OrderInv /\ RevokedSessionIsDead
        => OnlyMultiRevocationsDeadlock
<1> SUFFICES ASSUME BaseInv, LockInv, RevokeInv, CauseInv, OrderInv, RevokedSessionIsDead,
                    NEW S \in (SUBSET {r \in Requests : pc[r] \in Steps}) \ {{}},
                    \A r \in S : \E q \in S : WaitsFor(r, q),
                    \A r \in S : op[r] \notin {"terminate", "logout", "disable"}
             PROVE  FALSE
  BY DEF OnlyMultiRevocationsDeadlock
<1>1. PICK r \in S : TRUE
  OBVIOUS
<1>2. PICK q \in S : WaitsFor(r, q)
  BY <1>1
<1>3. PICK p \in S : WaitsFor(q, p)
  BY <1>2
<1>4. NoLocks(q)
  BY <1>3, HoldersProceed
<1>5. PICK row \in Wanted(r) : <<q, row>> \in locks
  BY <1>2 DEF WaitsFor
<1>6. row \in Rows
  BY <1>5 DEF Wanted
<1> QED BY <1>4, <1>5, <1>6 DEF NoLocks

-----------------------------------------------------------------------------
\* The inductive invariant.
Inv ==
    /\ BaseInv /\ LockInv /\ RevokeInv
    /\ CoverInv /\ Completed
    /\ Consistent
    /\ CauseInv /\ RevocationHasCause
    /\ OrderInv

LEMMA InvInit == Init => Inv
<1> SUFFICES ASSUME Init PROVE Inv
  OBVIOUS
<1> USE DEF Init, NothingWritten
<1>1. TypeOK
  BY DEF TypeOK
<1>2. FlowInv
  BY DEF FlowInv
<1>3. IssuedInv
  BY DEF IssuedInv
<1>4. LockInv
  BY DEF LockInv
<1>5. RevokeInv
  BY DEF RevokeInv, Revoking
<1>6. CoverInv
  BY DEF CoverInv, Revoking
<1>7. Completed
  BY DEF Completed, RevocationIsComplete, ReplayRevokesFamily
<1>8. Consistent
  BY DEF Consistent, CodeUsedOnce, OneLiveRefreshPerSession, RotationIsAChain,
         RevokedSessionIsDead, TokensOf
<1>9. CauseInv /\ RevocationHasCause
  BY DEF CauseInv, RevocationHasCause, Revoking
<1>10. OrderInv
  BY DEF OrderInv, Revoking
<1> QED
  BY <1>1, <1>2, <1>3, <1>4, <1>5, <1>6, <1>7, <1>8, <1>9, <1>10 DEF Inv, BaseInv

\* Every reachable state satisfies the inductive invariant.
THEOREM Invariance == Spec => []Inv
<1>1. Inv /\ [Next]_vars => Inv'
  <2> SUFFICES ASSUME Inv, [Next]_vars PROVE Inv'
    OBVIOUS
  <2>1. BaseInv'
    BY TypeStep, FlowStep, IssuedStep DEF Inv, BaseInv
  <2>2. OrderInv'
    BY OrderStep DEF Inv, Consistent
  <2> QED
    BY <2>1, <2>2, LockStep, RevokeStepInv, CoverStep, ConsistentStep, CauseStep DEF Inv
<1> QED
  BY InvInit, <1>1, PTL DEF Spec

\* Every variable keeps its type.
THEOREM TypeCorrect == Spec => []TypeOK
<1>1. Inv => TypeOK
  BY DEF Inv, BaseInv
<1> QED
  BY Invariance, <1>1, PTL

\* consumeAuthorizationCode: concurrent exchanges of one code create one token session.
THEOREM CodeUsedOnceHolds == Spec => []CodeUsedOnce
<1>1. Inv => CodeUsedOnce
  BY DEF Inv, Consistent
<1> QED
  BY Invariance, <1>1, PTL

\* CreateAccessAndRefreshTokens: concurrent rotations leave one usable refresh token.
THEOREM OneLiveRefresh == Spec => []OneLiveRefreshPerSession
<1>1. Inv => OneLiveRefreshPerSession
  BY DEF Inv, Consistent
<1> QED
  BY Invariance, <1>1, PTL

\* CreateAccessAndRefreshTokens: a refresh token is replaced once, within its session.
THEOREM RotationChains == Spec => []RotationIsAChain
<1>1. Inv => RotationIsAChain
  BY DEF Inv, Consistent
<1> QED
  BY Invariance, <1>1, PTL

\* revokeTokenSession, TerminateSession and revoke: whatever rotation a revocation races, no
\* token of a revoked session is left.
THEOREM RevokedIsDead == Spec => []RevokedSessionIsDead
<1>1. Inv => RevokedSessionIsDead
  BY DEF Inv, Consistent
<1> QED
  BY Invariance, <1>1, PTL

\* A replay that is reported has revoked its family.
THEOREM ReplayRevokes == Spec => []ReplayRevokesFamily
<1>1. Inv => ReplayRevokesFamily
  BY DEF Inv, Completed
<1> QED
  BY Invariance, <1>1, PTL

\* RevokeToken, TerminateSession, Logout and Disable: success means that every session live
\* when the operation began is revoked.
THEOREM RevocationCompletes == Spec => []RevocationIsComplete
<1>1. Inv => RevocationIsComplete
  BY DEF Inv, Completed
<1> QED
  BY Invariance, <1>1, PTL

\* Whatever requests race, a token session is revoked on request or because one of its
\* refresh tokens really was replayed.
THEOREM RevocationCaused == Spec => []RevocationHasCause
<1>1. Inv => RevocationHasCause
  BY DEF Inv
<1> QED
  BY Invariance, <1>1, PTL

\* Rotation, replay, exchange and RevokeToken lock session before token, and deadlock only
\* together with a request that revokes several sessions.
THEOREM DeadlocksNeedMulti == Spec => []OnlyMultiRevocationsDeadlock
<1>1. Inv => OnlyMultiRevocationsDeadlock
  BY OrderPreventsDeadlock DEF Inv, Consistent
<1> QED
  BY Invariance, <1>1, PTL

-----------------------------------------------------------------------------
(* TokenSessions implements TokenFamilies.                                  *)

\* No access token is revoked without its session.
LEMMA AccessStep ==
    BaseInv /\ RevokeInv /\ CauseInv /\ AccessInv /\ [Next]_vars => AccessInv'
<1> SUFFICES ASSUME BaseInv, RevokeInv, CauseInv, AccessInv, [Next]_vars PROVE AccessInv'
  OBVIOUS
<1> DEFINE
      WithSession == accessRevoked \subseteq TokensOf(sessionRevoked, access)
      Together(r) == pc[r] \in Revoking =>
                       written[r].access \subseteq
                         TokensOf(sessionRevoked \cup written[r].sessions, access)
<1>1. WithSession /\ \A r \in Requests : Together(r)
  BY DEF AccessInv
<1>2. SUFFICES WithSession' /\ \A r \in Requests : Together(r)'
  BY DEF AccessInv
<1> USE DEF BaseInv
<1>3. ASSUME NEW r \in Requests, Acts(r), NEW q \in Requests \ {r} PROVE Together(q)'
  <2>1. pc'[q] = pc[q] /\ written'[q] = written[q]
    BY <1>3, OthersUntouched
  <2>2. Together(q)
    BY <1>1
  <2> QED BY <1>3, <2>1, <2>2, OnlyGrow DEF TokensOf
<1>4. ASSUME NEW r \in Requests, Acts(r) PROVE Together(r)'
  <2> USE DEF TypeOK, Goto, Moved, reqVars, tables, revokeVars
  <2>1. ASSUME pc'[r] \notin Revoking PROVE Together(r)'
    BY <2>1
  <2>2. ASSUME pc[r] \in {"lookup", "current", "consumeRefresh", "findSessions"}, written' = written
        PROVE  Together(r)'
    <3>1. written[r] = NothingWritten
      BY <2>2 DEF RevokeInv, Revoking, Ended
    <3>2. written'[r].access = {}
      BY <2>2, <3>1 DEF NothingWritten
    <3> QED BY <3>2
  <2>3. CASE Start(r)
    <3>1. pc'[r] \notin Revoking
      BY <2>3, StartFrame DEF Revoking
    <3> QED BY <2>1, <3>1
  <2>4. CASE ConsumeCode(r) \/ CheckUser(r) \/ LookupSession(r) \/ CheckSession(r) \/ TouchSession(r)
    BY <2>1, <2>4 DEF ConsumeCode, CheckUser, LookupSession, CheckSession, TouchSession,
                      Advance, End, Revoking
  <2>5. CASE Lookup(r) \/ QueryCurrent(r) \/ ConsumeRefresh(r) \/ FindSessions(r)
    BY <2>2, <2>5 DEF Lookup, QueryCurrent, ConsumeRefresh, FindSessions, Replayed, End, Advance
  <2>6. CASE IssueForCode(r) \/ IssueForRefresh(r) \/ RevokeLogins(r)
    BY <2>1, <2>6 DEF IssueForCode, IssueForRefresh, RevokeLogins, Revoking
  <2>7. CASE RevokeSessions(r)
    <3>1. /\ written'[r].sessions = written[r].sessions \cup {s \in targets[r] : Live(s)}
          /\ written'[r].access = written[r].access
      BY <2>7, RevokeSessionsWrites
    <3>2. UNCHANGED tables /\ pc[r] \in Revoking
      BY <2>7 DEF RevokeSessions, RevokeStep, Revoking
    <3> QED BY <1>1, <3>1, <3>2 DEF TokensOf
  <2>8. CASE RevokeAccess(r)
    <3>1. /\ written'[r].access = written[r].access \cup TokensOf(targets[r], access \ accessRevoked)
          /\ written'[r].sessions = written[r].sessions
      BY <2>8, RevokeAccessWrites
    <3>2. UNCHANGED tables /\ pc[r] \in Revoking
      BY <2>8 DEF RevokeAccess, RevokeStep, Revoking
    <3>3. targets[r] \subseteq sessionRevoked \cup written[r].sessions
      BY <2>8, <3>2 DEF RevokeAccess, CauseInv
    <3> QED BY <1>1, <3>1, <3>2, <3>3 DEF TokensOf
  <2>9. CASE RevokeRefresh(r)
    <3>1. /\ written'[r].sessions = written[r].sessions
          /\ written'[r].access = written[r].access
      BY <2>9, RevokeRefreshWrites
    <3>2. UNCHANGED tables /\ pc[r] \in Revoking
      BY <2>9 DEF RevokeRefresh, RevokeStep, Revoking
    <3> QED BY <1>1, <3>1, <3>2 DEF TokensOf
  <2>10. CASE CommitRevoke(r)
    BY <2>1, <2>10 DEF CommitRevoke, Outcome, Revoking
  <2>11. CASE Fail(r)
    BY <2>1, <2>11 DEF Fail, End, Revoking
  <2> QED BY <1>4, <2>3, <2>4, <2>5, <2>6, <2>7, <2>8, <2>9, <2>10, <2>11 DEF Acts, Step
<1>5. ASSUME NEW r \in Requests, Acts(r) PROVE WithSession'
  <2>1. CASE UNCHANGED <<accessRevoked, sessionRevoked>>
    BY <1>1, <1>5, <2>1, OnlyGrow DEF TokensOf
  <2>2. CASE CommitRevoke(r)
    <3>1. Together(r) /\ pc[r] \in Revoking
      BY <1>1, <2>2 DEF CommitRevoke, Revoking
    <3>2. /\ UNCHANGED <<access, family>>
          /\ sessionRevoked' = sessionRevoked \cup written[r].sessions
          /\ accessRevoked' = accessRevoked \cup written[r].access
      BY <2>2 DEF CommitRevoke
    <3> QED BY <1>1, <3>1, <3>2 DEF TokensOf
  <2>3. CASE IssueForCode(r) \/ IssueForRefresh(r)
    BY <2>1, <2>3 DEF IssueForCode, IssueForRefresh
  <2>4. CASE UNCHANGED tables
    BY <2>1, <2>4 DEF tables
  <2> QED BY <1>5, <2>2, <2>3, <2>4, OnlyGrow
<1>6. CASE \E r \in Requests : Acts(r)
  <2> PICK r \in Requests : Acts(r)
    BY <1>6
  <2>1. \A q \in Requests : q = r \/ q \in Requests \ {r}
    OBVIOUS
  <2> QED BY <1>3, <1>4, <1>5, <2>1
<1>7. CASE UNCHANGED <<tables, pc, revokeVars>>
  BY <1>1, <1>7 DEF tables, revokeVars, TokensOf
<1> QED
  BY <1>6, <1>7, NextCases

AccessInvariance == Inv /\ AccessInv

\* A session's tokens end with it: no other statement revokes a token.
LEMMA TokensEndTogether ==
    ASSUME AccessInvariance, NEW s \in Requests
    PROVE  /\ Refreshable(s) = IF s \in sessionRevoked THEN {}
                               ELSE TokensOf({s}, refresh \ refreshConsumed)
           /\ Accepted(s) = IF s \in sessionRevoked THEN {} ELSE TokensOf({s}, access)
<1>1. /\ RevokedSessionIsDead
      /\ refreshRevoked \subseteq TokensOf(sessionRevoked, refresh)
      /\ accessRevoked \subseteq TokensOf(sessionRevoked, access)
  BY DEF AccessInvariance, Inv, Consistent, CauseInv, AccessInv
<1> QED
  BY <1>1 DEF Refreshable, Accepted, LiveRefresh, TokensOf, RevokedSessionIsDead

\* The same after a step.
LEMMA TokensEndTogetherNext ==
    ASSUME AccessInvariance', NEW s \in Requests
    PROVE  /\ Refreshable(s)' = IF s \in sessionRevoked' THEN {}
                                ELSE TokensOf({s}, refresh \ refreshConsumed)'
           /\ Accepted(s)' = IF s \in sessionRevoked' THEN {} ELSE TokensOf({s}, access)'
<1>1. /\ RevokedSessionIsDead'
      /\ refreshRevoked' \subseteq TokensOf(sessionRevoked, refresh)'
      /\ accessRevoked' \subseteq TokensOf(sessionRevoked, access)'
  BY DEF AccessInvariance, Inv, Consistent, CauseInv, AccessInv
<1> QED
  BY <1>1 DEF Refreshable, Accepted, LiveRefresh, TokensOf, RevokedSessionIsDead

\* A code exchange redeems the code.
LEMMA ExchangeRedeems ==
    ASSUME AccessInvariance, NEW r \in Requests, IssueForCode(r)
    PROVE  Families!Redeem(arg[r], r)
<1> USE DEF AccessInvariance, Inv, BaseInv
<1>1. Acts(r)
  BY DEF Acts, Step
<1>2. /\ arg[r] \notin codeConsumed
      /\ r \notin access \cup refresh \cup sessions
      /\ \A t \in access \cup refresh : family[t] \in sessions /\ family'[t] = family[t]
  BY <1>1, OnlyGrow DEF IssueForCode, LockInv, IssuedInv
<1>3. accessRevoked \subseteq access /\ refreshRevoked \subseteq refresh /\ refreshConsumed \subseteq refresh
  BY DEF AccessInv, CauseInv, FlowInv, TokensOf, TypeOK
<1>4. /\ codeConsumed' = codeConsumed \cup {arg[r]}
      /\ sessions' = sessions \cup {r} /\ access' = access \cup {r}
      /\ refresh' \in {refresh, refresh \cup {r}} /\ family'[r] = r
      /\ UNCHANGED <<sessionRevoked, accessRevoked, refreshRevoked, refreshConsumed>>
  BY DEF IssueForCode, TypeOK
<1>5. \A s \in Requests : Accepted(s)' = IF s = r THEN {r} ELSE Accepted(s)
  BY <1>2, <1>3, <1>4 DEF Accepted, TokensOf
<1>6. \A s \in Requests \ {r} : Refreshable(s)' = Refreshable(s)
  BY <1>2, <1>3, <1>4 DEF Refreshable, LiveRefresh, TokensOf
<1>7. Refreshable(r)' \in {{}, {r}}
  BY <1>2, <1>3, <1>4 DEF Refreshable, LiveRefresh, TokensOf
<1>8. [s \in Requests |-> Accepted(s)]' = [[s \in Requests |-> Accepted(s)] EXCEPT ![r] = {r}]
  BY <1>5
<1>9. [s \in Requests |-> Refreshable(s)]'
        = [[s \in Requests |-> Refreshable(s)] EXCEPT ![r] = Refreshable(r)']
  BY <1>6
<1> QED
  BY <1>2, <1>4, <1>7, <1>8, <1>9 DEF Families!Redeem

\* A rotation exchanges the session's one refresh token.
LEMMA RefreshRotates ==
    ASSUME AccessInvariance, NEW r \in Requests, IssueForRefresh(r)
    PROVE  Families!Rotate(family[arg[r]], arg[r], r)
<1> USE DEF AccessInvariance, Inv, BaseInv
<1>0. PICK s \in Requests, old \in refresh : s = family[arg[r]] /\ old = arg[r]
  BY DEF IssueForRefresh, FlowInv, IssuedInv, TypeOK
<1>1. Acts(r)
  BY DEF Acts, Step
<1>2. /\ r \notin access \cup refresh
      /\ \A t \in access \cup refresh : family'[t] = family[t]
  BY <1>1, OnlyGrow DEF IssueForRefresh, IssuedInv
<1>3. accessRevoked \subseteq access /\ refreshRevoked \subseteq refresh /\ refreshConsumed \subseteq refresh
  BY DEF AccessInv, CauseInv, FlowInv, TokensOf, TypeOK
<1>4. /\ old \in refresh /\ old \notin refreshConsumed \cup refreshRevoked
      /\ s \in sessions /\ s \notin sessionRevoked /\ s \in Requests
  BY <1>0 DEF IssueForRefresh, LockInv, IssuedInv
<1>5. /\ access' = access \cup {r} /\ refresh' = refresh \cup {r}
      /\ family'[r] = s /\ refreshConsumed' = refreshConsumed \cup {old}
      /\ UNCHANGED <<codeConsumed, sessions, sessionRevoked, accessRevoked, refreshRevoked>>
  BY <1>0 DEF IssueForRefresh, TypeOK
<1>6. family[old] = s
  BY <1>0
<1>7. Refreshable(s) = {old}
  BY <1>4, <1>6 DEF Refreshable, LiveRefresh, TokensOf, OneLiveRefreshPerSession, Consistent
<1>8. Refreshable(s)' = {r}
  <2>1. \A t \in refresh : t \in Refreshable(s)' => t \in Refreshable(s) /\ t # old
    BY <1>2, <1>5 DEF Refreshable, LiveRefresh, TokensOf
  <2>2. r \in Refreshable(s)' /\ Refreshable(s)' \subseteq refresh \cup {r}
    BY <1>2, <1>3, <1>4, <1>5 DEF Refreshable, LiveRefresh, TokensOf
  <2> QED BY <1>7, <2>1, <2>2
<1>9. \A u \in Requests \ {s} : Refreshable(u)' = Refreshable(u)
  BY <1>2, <1>5, <1>6 DEF Refreshable, LiveRefresh, TokensOf
<1>10. \A u \in Requests : Accepted(u)' = IF u = s THEN Accepted(u) \cup {r} ELSE Accepted(u)
  BY <1>2, <1>3, <1>5 DEF Accepted, TokensOf
<1>11. [u \in Requests |-> Refreshable(u)]'
         = [[u \in Requests |-> Refreshable(u)] EXCEPT ![s] = {r}]
  BY <1>8, <1>9
<1>12. [u \in Requests |-> Accepted(u)]'
         = [[u \in Requests |-> Accepted(u)] EXCEPT ![s] = @ \cup {r}]
  BY <1>10
<1>13. [u \in Requests |-> Refreshable(u)][s] = {old}
  BY <1>4, <1>7
<1>14. Families!Rotate(s, old, r)
  BY <1>2, <1>4, <1>5, <1>11, <1>12, <1>13 DEF Families!Rotate
<1> QED BY <1>0, <1>14

\* The commit of a revocation ends the sessions it revokes and their tokens, and no others.
LEMMA CommitRevokes ==
    ASSUME AccessInvariance, AccessInvariance', NEW r \in Requests, CommitRevoke(r)
    PROVE  \/ Families!Revoke(written[r].sessions \ sessionRevoked)
           \/ UNCHANGED Families!vars
<1> DEFINE S == written[r].sessions \ sessionRevoked
<1>1. S \subseteq sessions \ sessionRevoked
  BY DEF AccessInvariance, Inv, RevokeInv, CommitRevoke, Revoking
<1>2. /\ sessionRevoked' = sessionRevoked \cup S
      /\ UNCHANGED <<codeConsumed, sessions, access, refresh, refreshConsumed, family>>
  BY DEF CommitRevoke
<1> HIDE DEF S
<1>3. \A s \in Requests :
         /\ Refreshable(s)' = IF s \in S THEN {} ELSE Refreshable(s)
         /\ Accepted(s)' = IF s \in S THEN {} ELSE Accepted(s)
  <2> TAKE s \in Requests
  <2>1. /\ TokensOf({s}, refresh \ refreshConsumed)' = TokensOf({s}, refresh \ refreshConsumed)
        /\ TokensOf({s}, access)' = TokensOf({s}, access)
    BY <1>2 DEF TokensOf
  <2> QED BY <1>2, <2>1, TokensEndTogether, TokensEndTogetherNext
<1>4. /\ [s \in Requests |-> Refreshable(s)]'
            = [s \in Requests |-> IF s \in S THEN {} ELSE [u \in Requests |-> Refreshable(u)][s]]
      /\ [s \in Requests |-> Accepted(s)]'
            = [s \in Requests |-> IF s \in S THEN {} ELSE [u \in Requests |-> Accepted(u)][s]]
  BY <1>3
<1>5. CASE S = {}
  <2>1. /\ [s \in Requests |-> Refreshable(s)]' = [s \in Requests |-> Refreshable(s)]
        /\ [s \in Requests |-> Accepted(s)]' = [s \in Requests |-> Accepted(s)]
    BY <1>3, <1>5
  <2> QED BY <1>2, <1>5, <2>1 DEF Families!vars
<1>6. CASE S # {}
  <2>1. Families!Revoke(S)
    BY <1>1, <1>2, <1>4, <1>6 DEF Families!Revoke
  <2> QED BY <2>1 DEF S
<1> QED BY <1>5, <1>6

\* Every step is one of TokenFamilies, or none.
LEMMA StepIsFamilyStep ==
    ASSUME AccessInvariance, AccessInvariance', [Next]_vars
    PROVE  [Families!Next]_(Families!vars)
<1>1. CASE UNCHANGED tables
  <2>1. /\ \A s \in Requests : Refreshable(s)' = Refreshable(s) /\ Accepted(s)' = Accepted(s)
        /\ UNCHANGED <<codeConsumed, sessions, sessionRevoked, access>>
    BY <1>1 DEF tables, Refreshable, Accepted, LiveRefresh, TokensOf
  <2>2. /\ [s \in Requests |-> Refreshable(s)]' = [s \in Requests |-> Refreshable(s)]
        /\ [s \in Requests |-> Accepted(s)]' = [s \in Requests |-> Accepted(s)]
    BY <2>1
  <2> QED BY <2>1, <2>2 DEF Families!vars
<1>2. ASSUME NEW r \in Requests, IssueForCode(r) PROVE Families!Next
  <2>1. arg[r] \in Codes
    BY <1>2 DEF IssueForCode, AccessInvariance, Inv, BaseInv, FlowInv
  <2> QED BY <1>2, <2>1, ExchangeRedeems DEF Families!Next
<1>3. ASSUME NEW r \in Requests, IssueForRefresh(r) PROVE Families!Next
  <2>1. arg[r] \in Requests /\ family[arg[r]] \in Requests
    BY <1>3 DEF IssueForRefresh, AccessInvariance, Inv, BaseInv, FlowInv, IssuedInv, TypeOK
  <2> QED BY <1>3, <2>1, RefreshRotates DEF Families!Next
<1>4. ASSUME NEW r \in Requests, CommitRevoke(r) PROVE [Families!Next]_(Families!vars)
  <2>1. written[r].sessions \subseteq Requests
    BY DEF AccessInvariance, Inv, BaseInv, TypeOK
  <2> QED BY <1>4, <2>1, CommitRevokes DEF Families!Next
<1>5. ASSUME NEW r \in Requests, Acts(r) PROVE [Families!Next]_(Families!vars)
  BY <1>1, <1>2, <1>3, <1>4, <1>5, OnlyGrow DEF AccessInvariance, Inv
<1> QED
  BY <1>1, <1>5, NextCases

\* TokenSessions implements TokenFamilies: exchange, rotation and revocation look atomic,
\* whatever requests they race.
THEOREM ImplementsTokenFamilies == Spec => IsTokenFamilies
<1>1. Init => Families!Init
  <2> SUFFICES ASSUME Init PROVE Families!Init
    OBVIOUS
  <2>1. \A s \in Requests : Refreshable(s) = {} /\ Accepted(s) = {}
    BY DEF Init, Refreshable, Accepted, TokensOf
  <2> QED BY <2>1 DEF Init, Families!Init
<1>2. Init => AccessInv
  BY DEF Init, AccessInv, Revoking
<1>3. Inv /\ AccessInv /\ [Next]_vars => AccessInv'
  BY AccessStep DEF Inv
<1>4. Spec => []AccessInv
  BY <1>2, <1>3, Invariance, PTL DEF Spec
<1>5. Inv /\ AccessInv /\ Inv' /\ AccessInv' /\ [Next]_vars => [Families!Next]_(Families!vars)
  BY StepIsFamilyStep DEF AccessInvariance
<1> QED
  BY <1>1, <1>4, <1>5, Invariance, PTL DEF Spec, IsTokenFamilies, Families!Spec
=============================================================================
