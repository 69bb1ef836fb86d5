------------------------------ MODULE Accounts ------------------------------
(***************************************************************************)
(* One user of the IAM service: registration, email verification, password *)
(* reset and change, profile updates, disabling and enabling, and the      *)
(* login sessions all of these create, use or revoke (biz/account.go,      *)
(* biz/authn.go, biz/session.go, biz/user.go and their repositories).      *)
(*                                                                         *)
(* Requests run concurrently.  A step of a request is one query, one       *)
(* conditional UPDATE, or the transaction that ends with its last          *)
(* conditional UPDATE: each transaction here updates the row that decides  *)
(* its outcome first or under the lock of one, so its writes are one step. *)
(* Its queries before that are steps of their own, since others may commit *)
(* between them.  The user row and the email identifier it is read with    *)
(* are one query: an identifier is only verified by the transaction that   *)
(* activates the user, after which no outcome depends on which was read    *)
(* first.  A request performs one operation, and its name also names what  *)
(* it creates: the etag, password, token or login session.                 *)
(***************************************************************************)
EXTENDS Naturals, FiniteSets

CONSTANTS
    Requests,  \* the requests
    Ops,       \* the operations they may perform
    Initial    \* etag and password of a user created at startup

Operations == {"register", "resend", "verify", "forgot", "reset", "login", "resolve", "change",
               "logout", "profile", "update", "disable", "enable"}

ASSUME ConstantsAssumption ==
    /\ Initial \notin Requests
    /\ Ops \subseteq Operations

VARIABLES
    status,         \* of the user; none: there is no user yet
    verified,       \* the email identifier has a verified_time
    authenticator,  \* state of the password authenticator
    etag,           \* of the user row
    password,       \* the hash of the password authenticator
    consumed,       \* one-time tokens with a consumed_time
    mailed,         \* one-time tokens their owner knows
    logins,         \* login sessions
    loginRevoked,   \* login sessions with a revoked_time
    pc,             \* what a request does next, or how it ended
    op,             \* its operation
    arg,            \* the one-time token or the login session it presents
    typed,          \* the password it presents
    seen,           \* the etag it read
    erred,          \* requests whose revocation of login sessions failed (errors.Join)
    wrote,          \* history: requests that wrote the user, its identifier or its password
    covered,        \* history: login sessions there were when a request wrote
    racing          \* history: logins that had passed, when a request wrote, the check the
                    \* write would fail

userVars   == <<status, verified, authenticator, etag, password>>
tokenVars  == <<consumed, mailed>>
loginVars  == <<logins, loginRevoked>>
callVars   == <<op, arg, typed>>
history    == <<wrote, covered, racing>>
vars == <<userVars, tokenVars, loginVars, pc, callVars, seen, erred, history>>

-----------------------------------------------------------------------------
\* done: the last write is committed, also if its result cannot be read back or the reply is lost.
Ended == {"done", "failed"}
Steps == {"findEmail", "createUser", "createToken", "sendMail", "consumeToken", "activate",
          "findResetToken", "findAuthenticator", "comparePassword", "findAgain",
          "resetPassword", "replacePassword", "createLogin", "findLogin", "getUser", "touch",
          "updateStatus", "updateProfile", "revokeLogins", "revokeTokens"}

Secrets == Requests \cup {Initial}

TypeOK ==
    /\ status \in {"none", "pending", "active", "disabled"}
    /\ verified \in BOOLEAN
    /\ authenticator \in {"none", "active", "disabled"}
    /\ etag \in Secrets
    /\ password \in Secrets
    /\ consumed \in SUBSET Requests
    /\ mailed \in SUBSET Requests
    /\ logins \in SUBSET Requests
    /\ loginRevoked \in SUBSET Requests
    /\ pc \in [Requests -> {"idle"} \cup Steps \cup Ended]
    /\ op \in [Requests -> Ops \cup {"none"}]
    /\ arg \in [Requests -> Secrets]
    /\ typed \in [Requests -> Secrets]
    /\ seen \in [Requests -> Secrets]
    /\ erred \in SUBSET Requests
    /\ wrote \in SUBSET Requests
    /\ covered \in [Requests -> SUBSET Requests]
    /\ racing \in [Requests -> SUBSET Requests]

\* No user yet, or the administrator of createUserAggregate's other caller.
Init ==
    /\ \/ status = "none" /\ verified = FALSE /\ authenticator = "none"
       \/ status = "active" /\ verified = TRUE /\ authenticator = "active"
    /\ etag = Initial
    /\ password = Initial
    /\ consumed = {}
    /\ mailed = {}
    /\ logins = {}
    /\ loginRevoked = {}
    /\ pc = [r \in Requests |-> "idle"]
    /\ op = [r \in Requests |-> "none"]
    /\ arg = [r \in Requests |-> Initial]
    /\ typed = [r \in Requests |-> Initial]
    /\ seen = [r \in Requests |-> Initial]
    /\ erred = {}
    /\ wrote = {}
    /\ covered = [r \in Requests |-> {}]
    /\ racing = [r \in Requests |-> {}]

Goto(r, step) == pc' = [pc EXCEPT ![r] = step]

\* The request goes on, or ends, and writes nothing.
Advance(r, step) ==
    /\ Goto(r, step)
    /\ UNCHANGED <<userVars, tokenVars, loginVars, callVars, seen, erred, history>>

\* The request wrote: passed are the steps at which a login no longer looks at what it wrote.
Wrote(r, passed) ==
    /\ wrote' = wrote \cup {r}
    /\ covered' = [covered EXCEPT ![r] = logins]
    /\ racing' = [racing EXCEPT ![r] = {q \in Requests : op[q] = "login" /\ pc[q] \in passed}]

-----------------------------------------------------------------------------
(* Starting an operation.                                                   *)

Begin(r, kind, a, secret, step) ==
    /\ kind \in Ops
    /\ pc[r] = "idle"
    /\ op' = [op EXCEPT ![r] = kind]
    /\ arg' = [arg EXCEPT ![r] = a]
    /\ typed' = [typed EXCEPT ![r] = secret]
    /\ Goto(r, step)
    /\ UNCHANGED <<userVars, tokenVars, loginVars, seen, erred, history>>

Mailed(kinds) == {t \in mailed : op[t] \in kinds}

\* Tokens come from a mail and session cookies from a login; the password may be any the
\* user ever had.
Start(r) ==
    \/ Begin(r, "register", Initial, Initial, "findEmail")
    \/ \E kind \in {"resend", "forgot", "update", "disable", "enable"} :
         Begin(r, kind, Initial, Initial, "getUser")
    \/ \E t \in Mailed({"register", "resend"}) : Begin(r, "verify", t, Initial, "consumeToken")
    \/ \E t \in Mailed({"forgot"}) : Begin(r, "reset", t, Initial, "findResetToken")
    \/ \E p \in wrote \cup {Initial} : Begin(r, "login", Initial, p, "getUser")
    \/ \E l \in logins, kind \in {"resolve", "logout", "profile"} :
         Begin(r, kind, l, Initial, "findLogin")
    \/ \E l \in logins, p \in wrote \cup {Initial} : Begin(r, "change", l, p, "findLogin")

-----------------------------------------------------------------------------
(* Registration and email verification.                                     *)

FindEmail(r) ==
    /\ pc[r] = "findEmail"
    /\ Advance(r, IF status = "none" THEN "createUser" ELSE "failed")

\* createUserAggregate.  The canonical email is unique.
CreateUser(r) ==
    /\ pc[r] = "createUser"
    /\ IF status # "none" THEN Advance(r, "failed")
       ELSE /\ status' = "pending"
            /\ authenticator' = "active"
            /\ etag' = r
            /\ password' = r
            /\ Goto(r, "createToken")
            /\ Wrote(r, {})
            /\ UNCHANGED <<verified, tokenVars, loginVars, callVars, seen, erred>>

CreateToken(r) ==
    /\ pc[r] = "createToken"
    /\ Advance(r, "sendMail")

\* A mail may arrive although sending it reports an error.
SendMail(r) ==
    /\ pc[r] = "sendMail"
    /\ mailed' = mailed \cup {r}
    /\ \E how \in Ended : Goto(r, how)
    /\ UNCHANGED <<userVars, consumed, loginVars, callVars, seen, erred, history>>

\* Consume marks an unconsumed verification token; the user is activated afterwards.
ConsumeToken(r) ==
    /\ pc[r] = "consumeToken"
    /\ IF arg[r] \in consumed THEN Advance(r, "failed")
       ELSE /\ consumed' = consumed \cup {arg[r]}
            /\ Goto(r, "activate")
            /\ UNCHANGED <<userVars, mailed, loginVars, callVars, seen, erred, history>>

\* Mutant: an email that is not pending counts as verified.
ActivateEmailQuietly(r) ==
    /\ pc[r] = "activate"
    /\ IF status # "pending" THEN Advance(r, "done")
       ELSE /\ status' = "active"
            /\ verified' = TRUE
            /\ etag' = r
            /\ Goto(r, "done")
            /\ Wrote(r, {})
            /\ UNCHANGED <<authenticator, password, tokenVars, loginVars, callVars, seen, erred>>

\* ActivateEmail only finds a pending user.
ActivateEmail(r) ==
    /\ pc[r] = "activate"
    /\ IF status # "pending" THEN Advance(r, "failed")
       ELSE /\ status' = "active"
            /\ verified' = TRUE
            /\ etag' = r
            /\ Goto(r, "done")
            /\ Wrote(r, {})
            /\ UNCHANGED <<authenticator, password, tokenVars, loginVars, callVars, seen, erred>>

-----------------------------------------------------------------------------
(* Reading the user.                                                        *)

\* Mutant: being active is taken for being verified.
EligibleWhenActive == status = "active"

Eligible == status = "active" /\ verified

\* Where the status and verification a request reads lead it.  Resending and requesting a
\* reset end without a word when there is nothing to do.
AfterUser(r) ==
    IF op[r] = "resend" THEN IF status = "pending" /\ ~verified THEN "createToken" ELSE "done"
    ELSE IF op[r] = "forgot" THEN IF Eligible THEN "createToken" ELSE "done"
    ELSE IF status = "none" THEN "failed"
    ELSE IF op[r] = "disable" THEN IF status = "disabled" THEN "revokeLogins" ELSE "updateStatus"
    ELSE IF op[r] = "enable" THEN IF status = "disabled" THEN "updateStatus" ELSE "failed"
    ELSE IF op[r] = "update" THEN "updateProfile"
    ELSE IF ~Eligible THEN "failed"
    ELSE IF op[r] = "login" THEN "findAuthenticator"
    ELSE "touch"

\* An etag that is sent along was read before the request: if it differs from what GetUser
\* reads, the request can only fail, see Fail.
GetUser(r) ==
    /\ pc[r] = "getUser"
    /\ seen' = [seen EXCEPT ![r] = etag]
    /\ covered' = [covered EXCEPT ![r] = logins]
    /\ Goto(r, AfterUser(r))
    /\ UNCHANGED <<userVars, tokenVars, loginVars, callVars, erred, wrote, racing>>

-----------------------------------------------------------------------------
(* Login sessions.                                                          *)

\* Mutant: the authenticator is found by its user and type alone.
FindAuthenticatorOfAnyState(r) ==
    /\ pc[r] \in {"findAuthenticator", "findAgain"}
    /\ Advance(r, IF pc[r] = "findAgain" THEN "replacePassword"
                  ELSE IF op[r] = "reset" THEN "resetPassword"
                  ELSE "comparePassword")

\* FindActivePassword, also the first query of the two transactions that replace a password.
FindAuthenticator(r) ==
    /\ pc[r] \in {"findAuthenticator", "findAgain"}
    /\ Advance(r, IF authenticator # "active" THEN "failed"
                  ELSE IF pc[r] = "findAgain" THEN "replacePassword"
                  ELSE IF op[r] = "reset" THEN "resetPassword"
                  ELSE "comparePassword")

ComparePassword(r) ==
    /\ pc[r] = "comparePassword"
    /\ Advance(r, IF password # typed[r] THEN "failed"
                  ELSE IF op[r] = "login" THEN "createLogin" ELSE "findAgain")

CreateLogin(r) ==
    /\ pc[r] = "createLogin"
    /\ logins' = logins \cup {r}
    /\ Goto(r, "done")
    /\ UNCHANGED <<userVars, tokenVars, loginRevoked, callVars, seen, erred, history>>

\* Resolve: the session of the cookie, its user (GetUser), and Touch, which updates the
\* session while it is not revoked.
FindLogin(r) ==
    /\ pc[r] = "findLogin"
    /\ Advance(r, IF arg[r] \in loginRevoked THEN "failed" ELSE "getUser")

AfterTouch(r) ==
    IF op[r] = "change" THEN "findAuthenticator"
    ELSE IF op[r] = "logout" THEN "revokeLogins"
    ELSE IF op[r] = "profile" THEN "updateProfile"
    ELSE "done"

Touch(r) ==
    /\ pc[r] = "touch"
    /\ Advance(r, IF arg[r] \in loginRevoked THEN "failed" ELSE AfterTouch(r))

-----------------------------------------------------------------------------
(* Passwords, profile and status.                                           *)

FindResetToken(r) ==
    /\ pc[r] = "findResetToken"
    /\ Advance(r, IF arg[r] \in consumed THEN "failed" ELSE "findAuthenticator")

\* Mutant: the token is consumed by its id alone.
ResetPasswordAgain(r) ==
    /\ pc[r] = "resetPassword"
    /\ password' = r
    /\ consumed' = consumed \cup {arg[r]}
    /\ Goto(r, "revokeLogins")
    /\ Wrote(r, {"createLogin"})
    /\ UNCHANGED <<status, verified, authenticator, etag, mailed, loginVars, callVars, seen, erred>>

\* ConsumeAndReplacePassword: the password and the consumed token commit together.
ResetPassword(r) ==
    /\ pc[r] = "resetPassword"
    /\ IF arg[r] \in consumed THEN Advance(r, "failed")
       ELSE /\ password' = r
            /\ consumed' = consumed \cup {arg[r]}
            /\ Goto(r, "revokeLogins")
            /\ Wrote(r, {"createLogin"})
            /\ UNCHANGED <<status, verified, authenticator, etag, mailed, loginVars, callVars,
                           seen, erred>>

\* ReplacePassword does not look at the password it replaces.
ReplacePassword(r) ==
    /\ pc[r] = "replacePassword"
    /\ password' = r
    /\ Goto(r, "revokeLogins")
    /\ Wrote(r, {"createLogin"})
    /\ UNCHANGED <<status, verified, authenticator, etag, tokenVars, loginVars, callVars, seen,
                   erred>>

\* updateProfileFields, conditional on the etag.
UpdateProfile(r) ==
    /\ pc[r] = "updateProfile"
    /\ IF etag # seen[r] THEN Advance(r, "failed")
       ELSE /\ etag' = r
            /\ Goto(r, "done")
            /\ Wrote(r, {})
            /\ UNCHANGED <<status, verified, authenticator, password, tokenVars, loginVars,
                           callVars, seen, erred>>

\* Mutant: the user row is updated by its id alone.
UpdateStatusBlindly(r) ==
    /\ pc[r] = "updateStatus"
    /\ etag' = r
    /\ status' = IF op[r] = "disable" THEN "disabled" ELSE "active"
    /\ authenticator' = IF op[r] = "disable" THEN "disabled" ELSE "active"
    /\ Goto(r, IF op[r] = "disable" THEN "revokeLogins" ELSE "done")
    /\ Wrote(r, {"comparePassword", "createLogin"})
    /\ UNCHANGED <<verified, password, tokenVars, loginVars, callVars, seen, erred>>

\* UpdateStatus: the user row, conditional on its etag, and the authenticators.
UpdateStatus(r) ==
    /\ pc[r] = "updateStatus"
    /\ IF etag # seen[r] THEN Advance(r, "failed")
       ELSE /\ etag' = r
            /\ status' = IF op[r] = "disable" THEN "disabled" ELSE "active"
            /\ authenticator' = IF op[r] = "disable" THEN "disabled" ELSE "active"
            /\ Goto(r, IF op[r] = "disable" THEN "revokeLogins" ELSE "done")
            /\ Wrote(r, {"comparePassword", "createLogin"})
            /\ UNCHANGED <<verified, password, tokenVars, loginVars, callVars, seen, erred>>

-----------------------------------------------------------------------------
(* Revocation.                                                              *)

\* The login sessions an operation revokes.
Revoked(r) ==
    IF op[r] = "logout" THEN {arg[r]}
    ELSE IF op[r] = "change" THEN logins \ {arg[r]}
    ELSE logins

\* The statement may fail: errors.Join goes on to the token sessions and reports it after.
RevokeLogins(r) ==
    /\ pc[r] = "revokeLogins"
    /\ \/ loginRevoked' = loginRevoked \cup Revoked(r) /\ UNCHANGED erred
       \/ erred' = erred \cup {r} /\ UNCHANGED loginRevoked
    /\ Goto(r, "revokeTokens")
    /\ UNCHANGED <<userVars, tokenVars, logins, callVars, seen, history>>

\* Mutant: only the error of the token sessions is returned.
RevokeTokensForgets(r) ==
    /\ pc[r] = "revokeTokens"
    /\ Advance(r, "done")

\* The token sessions: TokenSessions models their transaction.
RevokeTokens(r) ==
    /\ pc[r] = "revokeTokens"
    /\ Advance(r, IF r \in erred THEN "failed" ELSE "done")

-----------------------------------------------------------------------------
\* A statement or a mail fails, the request is cancelled, a token or session has expired, an
\* etag sent along differs, the service crashes.
Fail(r) ==
    /\ pc[r] \in Steps
    /\ Advance(r, "failed")

Step(r) ==
    \/ FindEmail(r)
    \/ CreateUser(r)
    \/ CreateToken(r)
    \/ SendMail(r)
    \/ ConsumeToken(r)
    \/ ActivateEmail(r)
    \/ GetUser(r)
    \/ FindAuthenticator(r)
    \/ ComparePassword(r)
    \/ CreateLogin(r)
    \/ FindLogin(r)
    \/ Touch(r)
    \/ FindResetToken(r)
    \/ ResetPassword(r)
    \/ ReplacePassword(r)
    \/ UpdateProfile(r)
    \/ UpdateStatus(r)
    \/ RevokeLogins(r)
    \/ RevokeTokens(r)

Next == \E r \in Requests : Start(r) \/ Step(r) \/ Fail(r)

Spec == Init /\ [][Next]_vars

-----------------------------------------------------------------------------
(* Properties.                                                              *)

Live == logins \ loginRevoked
Done(r, kinds) == pc[r] = "done" /\ op[r] \in kinds

\* ConfirmPasswordReset, ChangePassword and DisableUser: one that reports success has revoked
\* every login session there was when it wrote.  Of those created since, only two kinds can be
\* live while what it wrote stands: sessions whose login had passed the check that the write
\* would fail, but not created its session yet; and, after a new password, sessions of logins
\* with that password.
OnlyRacingLoginsSurvive ==
    \A r \in Requests :
        /\ Done(r, {"reset", "disable"}) => covered[r] \subseteq loginRevoked
        /\ Done(r, {"change"}) => covered[r] \subseteq loginRevoked \cup {arg[r]}
        /\ Done(r, {"reset"}) /\ password = r =>
             Live \subseteq racing[r] \cup {l \in Requests : typed[l] = r}
        /\ Done(r, {"change"}) /\ password = r =>
             Live \subseteq racing[r] \cup {l \in Requests : typed[l] = r} \cup {arg[r]}
        /\ Done(r, {"disable"}) /\ etag = r => Live \subseteq racing[r]

\* UpdateUser, UpdateProfile, DisableUser and EnableUser: two requests that wrote the user row
\* had not read the same version of it, so neither undid the other's write unseen.
VersionsReplacedOnce ==
    \A r, q \in wrote :
        /\ op[r] \in {"profile", "update", "disable", "enable"}
        /\ op[q] \in {"profile", "update", "disable", "enable"}
        /\ seen[r] = seen[q]
        => r = q

\* ConsumeAndReplacePassword: however many requests present it, a reset token replaces one
\* password.
ResetTokenUsedOnce ==
    \A r, q \in wrote : op[r] = "reset" /\ op[q] = "reset" /\ arg[r] = arg[q] => r = q

\* user.proto says email_verified is "True only after the one-time email verification flow
\* succeeds", and there is no login session before.  EnableUser activates a user that was
\* disabled while pending, and is the only way a user becomes active unverified.  The bootstrap
\* administrator, whom startup creates verified, is exempt from the flow.
LoginNeedsVerification ==
    LET registered == \E r \in wrote : op[r] = "register" IN
    /\ verified /\ registered => \E t \in consumed : op[t] \in {"register", "resend"}
    /\ logins # {} => verified
    /\ status = "active" /\ ~verified => \E r \in wrote : op[r] = "enable"

\* VerifyEmail consumes its token in one transaction and activates the user in another: whoever
\* is told it succeeded has a verified email, and a token that is used up without one was
\* presented by a request that is about to activate the user or was told it failed.
VerificationIsReported ==
    /\ \A r \in Requests : Done(r, {"verify"}) => verified
    /\ \A t \in consumed : op[t] \in {"register", "resend"} =>
         \/ verified
         \/ \E r \in Requests : op[r] = "verify" /\ arg[r] = t /\ pc[r] \in {"activate", "failed"}

\* The service keeps the promises of UserAccount.  A login is let in when it finds the
\* authenticator active: that the user is active and verified is what it read before, and
\* still so, because the authenticator is disabled with the user.
LettingIn == {r \in Requests : op[r] = "login" /\ pc[r] \in {"comparePassword", "createLogin"}}
Account == INSTANCE UserAccount WITH
    admitted <- logins \cup LettingIn,
    proven <- logins \cup {r \in LettingIn : pc[r] = "createLogin"},
    open <- logins,
    closed <- loginRevoked
KeepsPromises == Account!Spec

\* What ConfirmPasswordReset's comment says, that it "atomically" replaces the password and
\* revokes sessions.
ResetRevokesSessions ==
    \A r \in Requests :
        Done(r, {"reset"}) /\ password = r => \A l \in Live : typed[l] = r

-----------------------------------------------------------------------------
(* What makes the invariants inductive.                                     *)

Rewriting == {"profile", "update", "disable", "enable"}

\* A request is at the steps of its operation, and presents a token of the right kind.
FlowInv ==
    \A r \in Requests :
        /\ pc[r] = "idle" => op[r] = "none"
        /\ pc[r] \in {"findEmail", "createUser"} => op[r] = "register"
        /\ pc[r] \in {"createToken", "sendMail"} => op[r] \in {"register", "resend", "forgot"}
        /\ pc[r] \in {"consumeToken", "activate"} => op[r] = "verify"
        /\ pc[r] \in {"findResetToken", "resetPassword"} => op[r] = "reset"
        /\ pc[r] = "findAuthenticator" => op[r] \in {"reset", "login", "change"}
        /\ pc[r] = "comparePassword" => op[r] \in {"login", "change"}
        /\ pc[r] \in {"findAgain", "replacePassword"} => op[r] = "change"
        /\ pc[r] = "createLogin" => op[r] = "login"
        /\ pc[r] \in {"findLogin", "touch"} => op[r] \in {"resolve", "logout", "profile", "change"}
        /\ pc[r] = "getUser" => op[r] \in {"resend", "forgot", "login", "update", "disable", "enable",
                                         "resolve", "logout", "profile", "change"}
        /\ pc[r] = "updateProfile" => op[r] \in {"profile", "update"}
        /\ pc[r] = "updateStatus" => op[r] \in {"disable", "enable"}
        /\ pc[r] \in {"revokeLogins", "revokeTokens"} =>
            op[r] \in {"reset", "change", "logout", "disable"}
        /\ op[r] = "verify" => arg[r] \in Mailed({"register", "resend"})
        /\ op[r] = "reset" => arg[r] \in Mailed({"forgot"})
        /\ op[r] \in {"resolve", "logout", "profile", "change"} => arg[r] \in logins
        /\ r \in mailed \cup logins => pc[r] \in Ended

\* The authenticator follows the status, and an email is not verified before activation.
\* Whoever acts on a user it found active and verified finds it so, or disabled, later on.
UserInv ==
    /\ authenticator = IF status = "none" THEN "none"
                       ELSE IF status = "disabled" THEN "disabled" ELSE "active"
    /\ status \in {"none", "pending"} => ~verified
    /\ logins # {} => verified
    /\ \A r \in Requests :
        \/ /\ op[r] = "forgot"
           /\ pc[r] \in {"createToken", "sendMail"} \/ r \in mailed
        \/ op[r] = "reset"
        \/ pc[r] \in {"findAuthenticator", "touch", "comparePassword", "findAgain",
                      "replacePassword", "createLogin"}
        => verified

\* A request writes once, and its name is fresh until then: a version of the user row that was
\* replaced is never current again, and the etag a request read names the status it read.
VersionInv ==
    /\ {etag, password} \subseteq wrote \cup {Initial}
    /\ \A r \in Requests :
        /\ seen[r] \in wrote \cup {Initial}
        /\ r \in wrote => pc[r] \in {"createToken", "sendMail", "revokeLogins", "revokeTokens"}
                                    \cup Ended
        /\ r \in wrote /\ op[r] \in Rewriting => seen[r] # etag
        /\ r \in wrote /\ op[r] = "reset" => arg[r] \in consumed
        /\ pc[r] = "updateStatus" /\ seen[r] = etag =>
            IF op[r] = "disable" THEN status \in {"pending", "active"} ELSE status = "disabled"

\* A user that registered is verified by a token it was mailed.
MailInv ==
    /\ \A r \in Requests : pc[r] = "activate" => arg[r] \in consumed
    /\ verified => \/ \E t \in consumed : op[t] \in {"register", "resend"}
                   \/ \A r \in wrote : op[r] # "register"
    /\ status = "active" /\ ~verified => \E r \in wrote : op[r] = "enable"

\* While what a request wrote stands, a login is older than it, races it or has passed the
\* check with it; and once it has revoked without error, the older ones are revoked.
RaceInv ==
    \A r \in Requests :
        /\ covered[r] \subseteq logins
        /\ pc[r] \in {"revokeTokens", "done"} /\ op[r] \in {"reset", "change", "disable"} =>
            r \in erred \/ covered[r] \subseteq
                loginRevoked \cup (IF op[r] = "change" THEN {arg[r]} ELSE {})
        /\ pc[r] = "done" => r \notin erred
        /\ r \in erred => pc[r] \in {"revokeTokens"} \cup Ended
        /\ op[r] = "disable" /\ r \in wrote /\ etag = r =>
            /\ status = "disabled"
            /\ logins \subseteq covered[r] \cup racing[r]
            /\ \A q \in Requests : op[q] = "login" /\ pc[q] \in {"comparePassword", "createLogin"}
                                     => q \in racing[r]
        /\ op[r] \in {"reset", "change"} /\ password = r =>
            /\ \A l \in logins : l \in covered[r] \cup racing[r] \/ typed[l] = r
            /\ \A q \in Requests : pc[q] = "createLogin" => q \in racing[r] \/ typed[q] = r
=============================================================================
