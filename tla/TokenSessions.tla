---------------------------- MODULE TokenSessions ----------------------------
(***************************************************************************)
(* The IAM service's OAuth token sessions: authorization codes, access and *)
(* refresh tokens, refresh rotation with replay detection, and every way a *)
(* token session is revoked (oidc/op_auth_storage.go, oidc/claims.go,      *)
(* data/authn.go, biz/session.go, the Disable path of biz/user.go).        *)
(*                                                                         *)
(* Requests run concurrently against PostgreSQL at READ COMMITTED.  A step *)
(* of a request is one SQL statement: a query sees what is committed, a    *)
(* conditional UPDATE waits until no other transaction holds the row and   *)
(* tests its condition on the committed row, and what a transaction wrote  *)
(* becomes visible at its commit.  An UPDATE of several rows waits for all *)
(* of them at once, and the access tokens of a session are only updated    *)
(* under the lock of its session row, so they need none of their own.      *)
(* Sessions, codes and tokens are never deleted.  One user and one client; *)
(* each request performs one operation, and a request's name also names    *)
(* the token session and the tokens it creates.                            *)
(***************************************************************************)
EXTENDS Naturals, FiniteSets

CONSTANTS
    Requests,  \* the requests, and the ids of what they create
    Codes,     \* authorization requests; each yields at most one code
    Logins,    \* IAM login sessions of the user
    Ops,       \* the operations requests may perform
    None

ASSUME ConstantsAssumption ==
    /\ None \notin Requests \cup Codes \cup Logins
    /\ Ops \subseteq {"exchange", "refresh", "revoke", "terminate", "logout", "disable"}

VARIABLES
    auth,            \* per authorization request: pending, done, code
    resolved,        \* <<authorization request, login>>: Resolve accepted the login's cookie
    authLogin,       \* per authorization request: the login session bound to it
    loginRevoked,    \* login sessions with a revoked_time
    userActive,      \* the user's status is active
    codeConsumed,    \* codes with a consumed_time
    sessions,        \* token sessions
    sessionRevoked,  \* token sessions with a revoked_time
    access,          \* access tokens
    accessRevoked,   \* access tokens with a revoked_time
    refresh,         \* refresh tokens
    refreshConsumed, \* refresh tokens with a consumed_time
    refreshRevoked,  \* refresh tokens with a revoked_time
    family,          \* the token session of the tokens a request created
    pc,              \* what a request does next, or how it ended
    op,              \* its operation
    arg,             \* the code, refresh token or login session it was called with
    locks,           \* <<request, row>>: rows updated by an open transaction
    erred,           \* revocations whose login session statement failed (errors.Join)
    todo,            \* revocations: token sessions whose turn is still to come
    targets,         \* revocations: token sessions being revoked
    written,         \* revocations: the rows of each table updated so far, uncommitted
    covered          \* history: token sessions a revocation found live when it began

authVars  == <<auth, resolved, authLogin>>
tables    == <<codeConsumed, sessions, sessionRevoked, access, accessRevoked, refresh,
               refreshConsumed, refreshRevoked, family>>
reqVars   == <<op, arg>>
revokeVars == <<erred, todo, targets, written>>
vars == <<authVars, loginRevoked, userActive, tables, pc, reqVars, locks, revokeVars, covered>>

-----------------------------------------------------------------------------
Ended == {"issued", "replay", "revoked", "failed"}
Steps == {"consumeCode", "lookup", "lookupSession", "current", "checkSession", "checkUser",
          "touchSession", "consumeRefresh", "issue",
          "revokeLogins", "findSessions", "revokeSessions", "revokeAccess", "revokeRefresh",
          "commitRevoke"}

Rows == ({"code"} \X Codes) \cup ({"session", "refresh"} \X Requests)

NothingWritten == [sessions |-> {}, access |-> {}, refresh |-> {}]

TypeOK ==
    /\ auth \in [Codes -> {"pending", "done", "code"}]
    /\ resolved \in SUBSET (Codes \X Logins)
    /\ authLogin \in [Codes -> Logins \cup {None}]
    /\ loginRevoked \in SUBSET Logins
    /\ userActive \in BOOLEAN
    /\ codeConsumed \in SUBSET Codes
    /\ sessions \in SUBSET Requests
    /\ sessionRevoked \in SUBSET Requests
    /\ access \in SUBSET Requests
    /\ accessRevoked \in SUBSET Requests
    /\ refresh \in SUBSET Requests
    /\ refreshConsumed \in SUBSET Requests
    /\ refreshRevoked \in SUBSET Requests
    /\ family \in [Requests -> Requests \cup {None}]
    /\ pc \in [Requests -> {"idle"} \cup Steps \cup Ended]
    /\ op \in [Requests -> Ops \cup {"none"}]
    /\ arg \in [Requests -> Requests \cup Codes \cup Logins \cup {None}]
    /\ locks \in SUBSET (Requests \X Rows)
    /\ erred \in SUBSET Requests
    /\ todo \in [Requests -> SUBSET Requests]
    /\ targets \in [Requests -> SUBSET Requests]
    /\ written \in [Requests -> [sessions : SUBSET Requests, access : SUBSET Requests,
                                 refresh : SUBSET Requests]]
    /\ covered \in [Requests -> SUBSET Requests]

Init ==
    /\ auth = [c \in Codes |-> "pending"]
    /\ resolved = {}
    /\ authLogin = [c \in Codes |-> None]
    /\ loginRevoked = {}
    /\ userActive = TRUE
    /\ codeConsumed = {}
    /\ sessions = {}
    /\ sessionRevoked = {}
    /\ access = {}
    /\ accessRevoked = {}
    /\ refresh = {}
    /\ refreshConsumed = {}
    /\ refreshRevoked = {}
    /\ family = [r \in Requests |-> None]
    /\ pc = [r \in Requests |-> "idle"]
    /\ op = [r \in Requests |-> "none"]
    /\ arg = [r \in Requests |-> None]
    /\ locks = {}
    /\ erred = {}
    /\ todo = [r \in Requests |-> {}]
    /\ targets = [r \in Requests |-> {}]
    /\ written = [r \in Requests |-> NothingWritten]
    /\ covered = [r \in Requests |-> {}]

\* No other transaction has updated the row and not ended yet.
Free(r, row) == \A q \in Requests \ {r} : <<q, row>> \notin locks

Goto(r, step) == pc' = [pc EXCEPT ![r] = step]

\* The transaction ends: its row locks are released.
Release(r) == locks' = {l \in locks : l[1] # r}

LoginOf(s) == authLogin[arg[s]]
Live(s) == s \in sessions /\ s \notin sessionRevoked
TokensOf(S, tokens) == {t \in tokens : family[t] \in S}

-----------------------------------------------------------------------------
(* The authorization endpoint: completeAuthorization and the OP's callback. *)

\* Resolve found the cookie's login session live and its user active.
ResolveLogin(c, l) ==
    /\ l \notin loginRevoked
    /\ userActive
    /\ resolved' = resolved \cup {<<c, l>>}
    /\ UNCHANGED <<auth, authLogin, loginRevoked, userActive, tables, pc, reqVars, locks,
                   revokeVars, covered>>

\* CompleteAuthRequest, conditional on the request not being done, then SaveAuthCode:
\* neither looks at the login session again.
CompleteAuthRequest(c, l) ==
    /\ <<c, l>> \in resolved
    /\ auth[c] = "pending"
    /\ auth' = [auth EXCEPT ![c] = "done"]
    /\ authLogin' = [authLogin EXCEPT ![c] = l]
    /\ UNCHANGED <<resolved, loginRevoked, userActive, tables, pc, reqVars, locks, revokeVars,
                   covered>>

SaveAuthCode(c) ==
    /\ auth[c] = "done"
    /\ auth' = [auth EXCEPT ![c] = "code"]
    /\ UNCHANGED <<resolved, authLogin, loginRevoked, userActive, tables, pc, reqVars, locks,
                   revokeVars, covered>>

-----------------------------------------------------------------------------
(* Starting an operation.                                                   *)

Begin(r, kind, a, step) ==
    /\ kind \in Ops
    /\ pc[r] = "idle"
    /\ op' = [op EXCEPT ![r] = kind]
    /\ arg' = [arg EXCEPT ![r] = a]
    /\ Goto(r, step)
    /\ UNCHANGED <<authVars, loginRevoked, userActive, tables, locks, revokeVars>>

\* AuthRequestByCode finds the code unconsumed.
BeginExchange(r, c) ==
    /\ auth[c] = "code"
    /\ c \notin codeConsumed
    /\ Begin(r, "exchange", c, "consumeCode")
    /\ UNCHANGED covered

BeginRefresh(r, t) ==
    /\ t \in refresh
    /\ Begin(r, "refresh", t, "lookup")
    /\ UNCHANGED covered

\* What a revocation must have revoked when it ends: the sessions live when it began.
Covers(r, S) == covered' = [covered EXCEPT ![r] = {s \in S : Live(s)}]

\* RevokeToken, of either token of a pair: they name the same session.
BeginRevoke(r, t) ==
    /\ t \in access \cup refresh
    /\ Begin(r, "revoke", t, "findSessions")
    /\ Covers(r, {family[t]})

BeginTerminate(r) ==
    /\ Begin(r, "terminate", None, "findSessions")
    /\ Covers(r, sessions)

BeginLogout(r, l) ==
    /\ Begin(r, "logout", l, "revokeLogins")
    /\ Covers(r, {s \in sessions : LoginOf(s) = l})

\* updateStatus has committed the status, or found the user disabled already.
BeginDisable(r) ==
    /\ "disable" \in Ops
    /\ pc[r] = "idle"
    /\ userActive' = FALSE
    /\ op' = [op EXCEPT ![r] = "disable"]
    /\ Goto(r, "revokeLogins")
    /\ Covers(r, sessions)
    /\ UNCHANGED <<authVars, loginRevoked, tables, arg, locks, revokeVars>>

Enable ==
    /\ ~userActive
    /\ userActive' = TRUE
    /\ UNCHANGED <<authVars, loginRevoked, tables, pc, reqVars, locks, revokeVars, covered>>

-----------------------------------------------------------------------------
(* Issuing tokens: CreateAccessToken, CreateAccessAndRefreshTokens.         *)

Moved == UNCHANGED <<authVars, loginRevoked, userActive, tables, reqVars, revokeVars, covered>>

\* Mutant: an error leaves the transaction open.
EndKeepsLocks(r, how) == Goto(r, how) /\ UNCHANGED locks /\ Moved

\* The operation ends without effect; its transaction rolls back.
End(r, how) == Goto(r, how) /\ Release(r) /\ Moved

\* Mutant: the code is consumed without looking whether it is.
ConsumeCodeAgain(r) ==
    /\ pc[r] = "consumeCode"
    /\ Free(r, <<"code", arg[r]>>)
    /\ locks' = locks \cup {<<r, <<"code", arg[r]>>>>}
    /\ Goto(r, "checkUser")
    /\ Moved

\* consumeAuthorizationCode
ConsumeCode(r) ==
    /\ pc[r] = "consumeCode"
    /\ Free(r, <<"code", arg[r]>>)
    /\ IF arg[r] \in codeConsumed THEN End(r, "failed")
       ELSE /\ locks' = locks \cup {<<r, <<"code", arg[r]>>>>}
            /\ Goto(r, "checkUser")
            /\ Moved

\* ensureActiveUser
CheckUser(r) ==
    /\ pc[r] = "checkUser"
    /\ IF ~userActive THEN End(r, "failed")
       ELSE /\ Goto(r, IF op[r] = "exchange" THEN "issue" ELSE "touchSession")
            /\ UNCHANGED locks
            /\ Moved

\* The new session and its tokens, and the commit that makes them and the consumed code
\* visible.  Without offline_access there is no refresh token (CreateAccessToken).
IssueForCode(r) ==
    /\ pc[r] = "issue"
    /\ op[r] = "exchange"
    /\ codeConsumed' = codeConsumed \cup {arg[r]}
    /\ sessions' = sessions \cup {r}
    /\ access' = access \cup {r}
    /\ refresh' \in {refresh, refresh \cup {r}}
    /\ family' = [family EXCEPT ![r] = r]
    /\ Goto(r, "issued")
    /\ Release(r)
    /\ UNCHANGED <<authVars, loginRevoked, userActive, sessionRevoked, accessRevoked,
                   refreshConsumed, refreshRevoked, reqVars, revokeVars, covered>>

\* Mutant: a replay is refused and nothing else.
ReplayedIsRefused(r) == End(r, "replay")

\* The replay of a consumed token turns the request into a revocation of its family.
Replayed(r) ==
    /\ targets' = [targets EXCEPT ![r] = {family[arg[r]]}]
    /\ Goto(r, "revokeSessions")
    /\ UNCHANGED <<authVars, loginRevoked, userActive, tables, reqVars, locks, erred, todo, written, covered>>

Advance(r, step) == Goto(r, step) /\ UNCHANGED locks /\ Moved

\* TokenRequestByRefreshToken: the token, then its session and user.  All three are looked at
\* again in the transaction that issues.
Lookup(r) ==
    /\ pc[r] = "lookup"
    /\ IF arg[r] \in refreshConsumed THEN Replayed(r)
       ELSE IF arg[r] \in refreshRevoked THEN End(r, "failed")
       ELSE Advance(r, "lookupSession")

LookupSession(r) ==
    /\ pc[r] = "lookupSession"
    /\ IF family[arg[r]] \in sessionRevoked \/ ~userActive THEN End(r, "failed")
       ELSE Advance(r, "current")

\* Mutant: the token is locked when it is queried again, before its session.
QueryCurrentForUpdate(r) ==
    LET row == <<"refresh", arg[r]>> IN
    /\ pc[r] = "current"
    /\ Free(r, row)
    /\ IF arg[r] \in refreshConsumed THEN Replayed(r)
       ELSE IF arg[r] \in refreshRevoked THEN End(r, "failed")
       ELSE Goto(r, "checkSession") /\ locks' = locks \cup {<<r, row>>} /\ Moved

\* CreateAccessAndRefreshTokens for a refresh token, in a transaction of its own: query the
\* token again ...
QueryCurrent(r) ==
    /\ pc[r] = "current"
    /\ IF arg[r] \in refreshConsumed THEN Replayed(r)
       ELSE IF arg[r] \in refreshRevoked THEN End(r, "failed")
       ELSE Advance(r, "checkSession")

\* ... and its session ...
CheckSession(r) ==
    /\ pc[r] = "checkSession"
    /\ IF family[arg[r]] \in sessionRevoked THEN End(r, "failed") ELSE Advance(r, "checkUser")

\* Mutant: the session is read again instead of updated, which locks nothing.
TouchSessionUnlocked(r) ==
    /\ pc[r] = "touchSession"
    /\ IF family[arg[r]] \in sessionRevoked THEN End(r, "failed")
       ELSE Advance(r, "consumeRefresh")

\* ... lock the session's row by updating it while it is not revoked ...
TouchSession(r) ==
    LET row == <<"session", family[arg[r]]>> IN
    /\ pc[r] = "touchSession"
    /\ Free(r, row)
    /\ IF family[arg[r]] \in sessionRevoked THEN End(r, "failed")
       ELSE /\ locks' = locks \cup {<<r, row>>}
            /\ Goto(r, "consumeRefresh")
            /\ Moved

\* Mutant: the token is consumed by its id alone.
ConsumeRefreshAgain(r) ==
    LET row == <<"refresh", arg[r]>> IN
    /\ pc[r] = "consumeRefresh"
    /\ Free(r, row)
    /\ locks' = locks \cup {<<r, row>>}
    /\ Goto(r, "issue")
    /\ Moved

\* Mutant: the token is consumed outside the transaction, which may still roll back.
ConsumeRefreshAtOnce(r) ==
    LET row == <<"refresh", arg[r]>> IN
    /\ pc[r] = "consumeRefresh"
    /\ Free(r, row)
    /\ IF arg[r] \in refreshConsumed \cup refreshRevoked THEN Replayed(r)
       ELSE /\ refreshConsumed' = refreshConsumed \cup {arg[r]}
            /\ Goto(r, "issue")
            /\ UNCHANGED <<authVars, loginRevoked, userActive, codeConsumed, sessions,
                           sessionRevoked, access, accessRevoked, refresh, refreshRevoked,
                           family, reqVars, locks, revokeVars, covered>>

\* ... and consume the token.  Losing that race is a replay as well.
ConsumeRefresh(r) ==
    LET row == <<"refresh", arg[r]>> IN
    /\ pc[r] = "consumeRefresh"
    /\ Free(r, row)
    /\ IF arg[r] \in refreshConsumed \cup refreshRevoked THEN Replayed(r)
       ELSE /\ locks' = locks \cup {<<r, row>>}
            /\ Goto(r, "issue")
            /\ Moved

\* Mutant: the rotated token starts a family of its own.
IssueForRefreshNewFamily(r) ==
    /\ pc[r] = "issue"
    /\ op[r] = "refresh"
    /\ refreshConsumed' = refreshConsumed \cup {arg[r]}
    /\ access' = access \cup {r}
    /\ refresh' = refresh \cup {r}
    /\ family' = [family EXCEPT ![r] = r]
    /\ Goto(r, "issued")
    /\ Release(r)
    /\ UNCHANGED <<authVars, loginRevoked, userActive, codeConsumed, sessions, sessionRevoked,
                   accessRevoked, refreshRevoked, reqVars, revokeVars, covered>>

IssueForRefresh(r) ==
    /\ pc[r] = "issue"
    /\ op[r] = "refresh"
    /\ refreshConsumed' = refreshConsumed \cup {arg[r]}
    /\ access' = access \cup {r}
    /\ refresh' = refresh \cup {r}
    /\ family' = [family EXCEPT ![r] = family[arg[r]]]
    /\ Goto(r, "issued")
    /\ Release(r)
    /\ UNCHANGED <<authVars, loginRevoked, userActive, codeConsumed, sessions, sessionRevoked,
                   accessRevoked, refreshRevoked, reqVars, revokeVars, covered>>

-----------------------------------------------------------------------------
(* Revoking token sessions: revokeTokenSession, TerminateSession,           *)
(* RevokeToken, and revoke of data/authn.go for Logout and Disable.         *)

\* Logout revokes its login session, Disable every login session of the user.  When this
\* statement fails the token sessions are revoked all the same (errors.Join).
RevokeLogins(r) ==
    /\ pc[r] = "revokeLogins"
    /\ \/ /\ loginRevoked' = loginRevoked \cup (IF op[r] = "logout" THEN {arg[r]} ELSE Logins)
          /\ UNCHANGED erred
       \/ /\ erred' = erred \cup {r}
          /\ UNCHANGED loginRevoked
    /\ Goto(r, "findSessions")
    /\ UNCHANGED <<authVars, userActive, tables, reqVars, locks, todo, targets, written, covered>>

\* The operation reports an error when a part of it failed.
Outcome(r) ==
    IF op[r] = "refresh" THEN "replay" ELSE IF r \in erred THEN "failed" ELSE "revoked"

\* Token sessions the operation's query returns.
Found(r) ==
    {s \in sessions :
        \/ op[r] = "logout" /\ LoginOf(s) = arg[r]
        \/ op[r] = "disable"
        \/ op[r] = "terminate" /\ Live(s)
        \/ op[r] = "revoke" /\ s = family[arg[r]]}

\* TerminateSession revokes the sessions it found one after the other, the others in one
\* statement per table.
FindSessions(r) ==
    /\ pc[r] = "findSessions"
    /\ IF Found(r) = {} THEN End(r, Outcome(r))
       ELSE /\ \E first \in IF op[r] = "terminate" THEN {{s} : s \in Found(r)} ELSE {Found(r)} :
                 /\ targets' = [targets EXCEPT ![r] = first]
                 /\ todo' = [todo EXCEPT ![r] = Found(r) \ first]
            /\ Goto(r, "revokeSessions")
            /\ UNCHANGED <<authVars, loginRevoked, userActive, tables, reqVars, locks, erred, written, covered>>

RevokeStep(r, step) ==
    /\ Goto(r, step)
    /\ UNCHANGED <<authVars, loginRevoked, userActive, tables, reqVars, erred, covered>>

\* UPDATE ... WHERE revoked_time IS NULL on the sessions: waits for every row it matches.
RevokeSessions(r) ==
    LET matched == {s \in targets[r] : Live(s)}
        rows == {"session"} \X matched
    IN
    /\ pc[r] = "revokeSessions"
    /\ \A row \in rows : Free(r, row)
    /\ locks' = locks \cup ({r} \X rows)
    /\ written' = [written EXCEPT ![r].sessions = @ \cup matched]
    /\ RevokeStep(r, "revokeAccess")
    /\ UNCHANGED <<todo, targets>>

RevokeAccess(r) ==
    /\ pc[r] = "revokeAccess"
    /\ written' = [written EXCEPT ![r].access = @ \cup TokensOf(targets[r], access \ accessRevoked)]
    /\ RevokeStep(r, "revokeRefresh")
    /\ UNCHANGED <<todo, targets, locks>>

\* Mutant: the loop of TerminateSession returns after its first session.
RevokeRefreshOnce(r) ==
    LET matched == TokensOf(targets[r], refresh \ refreshRevoked)
        rows == {"refresh"} \X matched
    IN
    /\ pc[r] = "revokeRefresh"
    /\ \A row \in rows : Free(r, row)
    /\ locks' = locks \cup ({r} \X rows)
    /\ written' = [written EXCEPT ![r].refresh = @ \cup matched]
    /\ RevokeStep(r, "commitRevoke")
    /\ UNCHANGED <<todo, targets>>

RevokeRefresh(r) ==
    LET matched == TokensOf(targets[r], refresh \ refreshRevoked)
        rows == {"refresh"} \X matched
    IN
    /\ pc[r] = "revokeRefresh"
    /\ \A row \in rows : Free(r, row)
    /\ locks' = locks \cup ({r} \X rows)
    /\ written' = [written EXCEPT ![r].refresh = @ \cup matched]
    /\ IF todo[r] = {} THEN RevokeStep(r, "commitRevoke") /\ UNCHANGED <<todo, targets>>
       ELSE \E s \in todo[r] :
                /\ targets' = [targets EXCEPT ![r] = {s}]
                /\ todo' = [todo EXCEPT ![r] = @ \ {s}]
                /\ RevokeStep(r, "revokeSessions")

CommitRevoke(r) ==
    /\ pc[r] = "commitRevoke"
    /\ sessionRevoked' = sessionRevoked \cup written[r].sessions
    /\ accessRevoked' = accessRevoked \cup written[r].access
    /\ refreshRevoked' = refreshRevoked \cup written[r].refresh
    /\ Goto(r, Outcome(r))
    /\ Release(r)
    /\ UNCHANGED <<authVars, loginRevoked, userActive, codeConsumed, sessions, access, refresh,
                   refreshConsumed, family, reqVars, revokeVars, covered>>

-----------------------------------------------------------------------------
\* A statement fails, the request is cancelled, a code or token has expired, PostgreSQL
\* breaks a deadlock, the service crashes: the open transaction rolls back.
Fail(r) ==
    /\ pc[r] \in Steps
    /\ End(r, "failed")

Step(r) ==
    \/ ConsumeCode(r)
    \/ CheckUser(r)
    \/ IssueForCode(r)
    \/ Lookup(r)
    \/ LookupSession(r)
    \/ QueryCurrent(r)
    \/ CheckSession(r)
    \/ TouchSession(r)
    \/ ConsumeRefresh(r)
    \/ IssueForRefresh(r)
    \/ RevokeLogins(r)
    \/ FindSessions(r)
    \/ RevokeSessions(r)
    \/ RevokeAccess(r)
    \/ RevokeRefresh(r)
    \/ CommitRevoke(r)

Start(r) ==
    \/ \E c \in Codes : BeginExchange(r, c)
    \/ \E t \in Requests : BeginRefresh(r, t) \/ BeginRevoke(r, t)
    \/ BeginTerminate(r)
    \/ \E l \in Logins : BeginLogout(r, l)
    \/ BeginDisable(r)

Authorize ==
    \E c \in Codes :
        \/ \E l \in Logins : ResolveLogin(c, l) \/ CompleteAuthRequest(c, l)
        \/ SaveAuthCode(c)

Next ==
    \/ Authorize
    \/ Enable
    \/ \E r \in Requests : Start(r) \/ Step(r) \/ Fail(r)

Spec == Init /\ [][Next]_vars

\* Every request that has begun keeps being scheduled, and no failure is assumed to come
\* to its rescue.
FairSpec == Spec /\ \A r \in Requests : WF_vars(Step(r))

-----------------------------------------------------------------------------
(* Properties.                                                              *)

LiveRefresh(t) == t \in refresh /\ t \notin refreshConsumed \cup refreshRevoked

\* CreateAccessAndRefreshTokens: rotation never leaves a session with two usable refresh
\* tokens, whoever presents the old one how often and at the same time.
OneLiveRefreshPerSession ==
    \A t, u \in refresh : LiveRefresh(t) /\ LiveRefresh(u) /\ family[t] = family[u] => t = u

\* A committed revocation leaves nothing behind: every access and refresh token of a
\* revoked session is itself revoked, also one that a concurrent rotation was creating.
RevokedSessionIsDead ==
    /\ TokensOf(sessionRevoked, access) \subseteq accessRevoked
    /\ TokensOf(sessionRevoked, refresh) \subseteq refreshRevoked

\* consumeAuthorizationCode: a code yields at most one token session.
CodeUsedOnce == \A s, u \in sessions : arg[s] = arg[u] => s = u

\* Rotation makes a chain of a session's refresh tokens: a token replaces one token of the
\* same session, which is consumed, and no other token replaces that one.
RotationIsAChain ==
    \A t \in refresh : op[t] = "refresh" =>
        /\ arg[t] \in refreshConsumed
        /\ family[t] = family[arg[t]]
        /\ \A u \in refresh : op[u] = "refresh" /\ arg[u] = arg[t] => u = t

\* A client told that its refresh token was replayed can rely on the family being revoked.
ReplayRevokesFamily ==
    \A r \in Requests : pc[r] = "replay" => family[arg[r]] \in sessionRevoked

\* TerminateSession, RevokeToken, Logout and Disable: an operation that succeeds has revoked
\* every token session it had to revoke that was live when it began.
RevocationIsComplete ==
    \A r \in Requests : pc[r] = "revoked" => covered[r] \subseteq sessionRevoked

\* What may have revoked a token session: a request to revoke the session itself, its login
\* session or all the user has, or the presentation of one of its refresh tokens that
\* another request had rotated.
Cause(s) ==
    \E q \in Requests :
        \/ op[q] = "revoke" /\ family[arg[q]] = s
        \/ op[q] = "logout" /\ arg[q] = LoginOf(s)
        \/ op[q] \in {"terminate", "disable"}
        \/ /\ op[q] = "refresh"
           /\ family[arg[q]] = s
           /\ \E u \in refresh \ {q} : op[u] = "refresh" /\ arg[u] = arg[q]

\* Nothing is revoked without a cause: a first use of a refresh token, in particular, is
\* never taken for a replay.
RevocationHasCause == \A s \in sessionRevoked : Cause(s)

\* The rows the next statement of a request updates.
Wanted(r) ==
    {row \in Rows :
        \/ pc[r] = "consumeCode" /\ row = <<"code", arg[r]>>
        \/ pc[r] = "touchSession" /\ row = <<"session", family[arg[r]]>>
        \/ pc[r] = "consumeRefresh" /\ row = <<"refresh", arg[r]>>
        \/ pc[r] = "revokeSessions" /\ row \in {"session"} \X {s \in targets[r] : Live(s)}
        \/ /\ pc[r] = "revokeRefresh"
           /\ row \in {"refresh"} \X TokensOf(targets[r], refresh \ refreshRevoked)}

WaitsFor(r, q) == q # r /\ \E row \in Wanted(r) : <<q, row>> \in locks

\* Exchanges, rotations, replays and RevokeToken work on one session, and lock its row before
\* its tokens': they never deadlock with one another.  A cycle takes a request that revokes
\* several sessions, such as TerminateSession, in the order its query returned them.
OnlyMultiRevocationsDeadlock ==
    \A S \in (SUBSET {r \in Requests : pc[r] \in Steps}) \ {{}} :
        (\A r \in S : \E q \in S : WaitsFor(r, q)) =>
            \E r \in S : op[r] \in {"terminate", "logout", "disable"}

\* Rotation and revocation lock session before token: no request waits for another for
\* ever, without the database having to break a deadlock.
RequestsEnd == \A r \in Requests : pc[r] \in Steps ~> pc[r] \in Ended

\* What Logout's comment says, "revokes the current Login Session and every OAuth Token
\* Session created from it".
LogoutEndsTokenSessions ==
    \A r \in Requests :
        pc[r] = "revoked" /\ op[r] = "logout" => \A s \in sessions : LoginOf(s) = arg[r] => ~Live(s)

-----------------------------------------------------------------------------
(* TokenSessions implements TokenFamilies.                                  *)

Refreshable(s) == {t \in TokensOf({s}, refresh) : LiveRefresh(t)}
Accepted(s) == TokensOf({s}, access \ accessRevoked)

Families == INSTANCE TokenFamilies WITH
    Names       <- Requests,
    redeemed    <- codeConsumed,
    issued      <- access,
    open        <- sessions,
    revoked     <- sessionRevoked,
    refreshable <- [s \in Requests |-> Refreshable(s)],
    accepted    <- [s \in Requests |-> Accepted(s)]

\* Exchange, rotation and revocation are atomic, whatever they race: a code buys one session, a
\* rotation replaces the one usable refresh token of a session that is not revoked, and a
\* session's tokens end all at once, at the commit that revokes it and at no other moment.
IsTokenFamilies == Families!Spec

-----------------------------------------------------------------------------
(* What makes the invariants inductive.                                     *)

Revoking == {"revokeSessions", "revokeAccess", "revokeRefresh", "commitRevoke"}

\* A request is at the steps of its operation, called with what the operation takes.
FlowInv ==
    \A r \in Requests :
        /\ op[r] = "exchange" => arg[r] \in Codes /\ auth[arg[r]] = "code"
        /\ op[r] = "refresh" => arg[r] \in refresh
        /\ op[r] = "revoke" => arg[r] \in access \cup refresh
        /\ op[r] = "logout" => arg[r] \in Logins
        /\ pc[r] = "consumeCode" => op[r] = "exchange"
        /\ pc[r] \in {"lookup", "lookupSession", "current", "checkSession", "touchSession",
                      "consumeRefresh"} => op[r] = "refresh"
        /\ pc[r] \in {"checkUser", "issue"} => op[r] \in {"exchange", "refresh"}
        /\ pc[r] = "revokeLogins" => op[r] \in {"logout", "disable"}
        /\ pc[r] = "findSessions" => op[r] \in {"revoke", "terminate", "logout", "disable"}
        /\ pc[r] = "replay" => op[r] = "refresh"
        /\ pc[r] = "idle" => op[r] = "none"

\* What exists was issued by the request it is named after, and has a session.
IssuedInv ==
    /\ \A s \in sessions : pc[s] = "issued" /\ op[s] = "exchange" /\ arg[s] \in codeConsumed
    /\ \A t \in access \cup refresh : pc[t] = "issued" /\ family[t] \in sessions
    /\ sessionRevoked \subseteq sessions

\* A row is locked by one request; a request between a conditional update and its commit
\* holds the row, and what the update found still holds.
LockInv ==
    /\ \A l, k \in locks : l[2] = k[2] => l[1] = k[1]
    /\ \A r \in Requests :
        /\ pc[r] \in {"checkUser", "issue"} /\ op[r] = "exchange" =>
            <<r, <<"code", arg[r]>>>> \in locks /\ arg[r] \notin codeConsumed
        /\ pc[r] \in {"consumeRefresh", "issue"} /\ op[r] = "refresh" =>
            /\ <<r, <<"session", family[arg[r]]>>>> \in locks
            /\ family[arg[r]] \notin sessionRevoked
        /\ pc[r] = "issue" /\ op[r] = "refresh" =>
            /\ <<r, <<"refresh", arg[r]>>>> \in locks
            /\ arg[r] \notin refreshConsumed \cup refreshRevoked

\* A revocation holds the rows it has updated, and has already updated the tokens of every
\* session it has left behind.
RevokeInv ==
    \A r \in Requests :
        /\ pc[r] \notin Revoking \cup Ended => written[r] = NothingWritten /\ todo[r] = {}
        /\ pc[r] \in Revoking =>
            /\ targets[r] \cup todo[r] \cup written[r].sessions \subseteq sessions
            /\ \A s \in written[r].sessions : <<r, <<"session", s>>>> \in locks
            /\ \A t \in written[r].refresh : <<r, <<"refresh", t>>>> \in locks
            /\ \A s \in written[r].sessions :
                /\ \/ pc[r] \in {"revokeSessions", "revokeAccess"} /\ s \in targets[r]
                   \/ TokensOf({s}, access) \subseteq accessRevoked \cup written[r].access
                /\ \/ pc[r] \in {"revokeSessions", "revokeAccess", "revokeRefresh"} /\ s \in targets[r]
                   \/ TokensOf({s}, refresh) \subseteq refreshRevoked \cup written[r].refresh

\* A revocation has done with a session it must revoke, or is at it, or will come to it.
CoverInv ==
    \A r \in Requests :
        /\ pc[r] \in {"revokeLogins", "findSessions"} =>
            /\ covered[r] \subseteq sessions
            /\ op[r] = "revoke" => covered[r] \subseteq {family[arg[r]]}
            /\ op[r] = "logout" => \A s \in covered[r] : LoginOf(s) = arg[r]
        /\ pc[r] \in Revoking /\ op[r] # "refresh" =>
            covered[r] \subseteq sessionRevoked \cup written[r].sessions \cup todo[r]
                                 \cup (IF pc[r] = "revokeSessions" THEN targets[r] ELSE {})
        /\ pc[r] \in Revoking /\ op[r] = "refresh" =>
            family[arg[r]] \in sessionRevoked \cup written[r].sessions \cup todo[r]
                               \cup (IF pc[r] = "revokeSessions" THEN targets[r] ELSE {})
        /\ pc[r] = "commitRevoke" => todo[r] = {}

\* A revocation has a cause from the moment it knows its sessions; a refresh token is only
\* consumed by the one that replaces it, and only revoked together with its session.
CauseInv ==
    /\ \A t \in refreshConsumed : \E u \in refresh : op[u] = "refresh" /\ arg[u] = t
    /\ refreshRevoked \subseteq TokensOf(sessionRevoked, refresh)
    /\ \A r \in Requests : pc[r] \in Revoking =>
        /\ \A s \in targets[r] \cup todo[r] \cup written[r].sessions : Cause(s)
        /\ pc[r] \in {"revokeAccess", "revokeRefresh"} =>
            targets[r] \subseteq sessionRevoked \cup written[r].sessions
        /\ written[r].refresh \subseteq
            TokensOf(sessionRevoked \cup written[r].sessions, refresh)

\* An access token is only revoked together with its session.
AccessInv ==
    /\ accessRevoked \subseteq TokensOf(sessionRevoked, access)
    /\ \A r \in Requests : pc[r] \in Revoking =>
        written[r].access \subseteq TokensOf(sessionRevoked \cup written[r].sessions, access)

\* Rows are taken session first: who holds a refresh token's row holds its session's, and a
\* request that works on one session holds no other's.
OrderInv ==
    \A r \in Requests :
        /\ \/ pc[r] \in {"checkUser", "consumeRefresh", "issue"} \cup Revoking
           \/ \A row \in Rows : <<r, row>> \notin locks
        /\ pc[r] = "checkUser" /\ op[r] = "refresh" => \A row \in Rows : <<r, row>> \notin locks
        /\ \A t \in Requests : <<r, <<"refresh", t>>>> \in locks =>
            t \in refresh /\ <<r, <<"session", family[t]>>>> \in locks
        /\ pc[r] \in Revoking => op[r] \notin {"exchange", "none"}
        /\ op[r] \in {"refresh", "revoke"} =>
            /\ pc[r] \in Revoking => targets[r] = {family[arg[r]]} /\ todo[r] = {}
            /\ \A s \in Requests : <<r, <<"session", s>>>> \in locks => s = family[arg[r]]
            /\ \A c \in Codes : <<r, <<"code", c>>>> \notin locks
=============================================================================
