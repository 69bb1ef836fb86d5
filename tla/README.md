# Servora Plateau in TLA+

Specifications of the parts of Servora Plateau that are hard to test: goroutines
that share a buffer, transactions that race on rows, processes that stop at the
wrong moment. Each module is a translation of the Go code it names; TLC checks it
on small instances and TLAPS proves the safety results for every size.
`PROJECT.json` maps every definition to the lines it stands for.

## The system

| component | state | operations | what is hard |
|---|---|---|---|
| audit ingestion (`app/audit/service/internal/data`) | Kafka group offsets, `BatchWriter.buffer`, `flushCh`, rows of `audit_events` | poll, handle, Add, flush, Stop | two goroutines on one buffer; commits out of order; failed flushes; shutdown and crash |
| audit query (`data/audit.go`) | none of its own; reads `audit_events` | ListEvents, CountEvents | pages against inserts, duplicate rows, rows that expire or fail to scan |
| OAuth token sessions (`app/iam/.../oidc`) | authorization requests, codes, token sessions, access and refresh tokens | exchange, refresh, revoke, end_session | concurrent requests at READ COMMITTED; replay; revocation against rotation |
| login sessions (`biz/session.go`, `data/authn.go`) | `iam_login_sessions` | Login, Resolve, Logout, revocations | check-then-create races; two stores revoked one after the other |
| account lifecycle (`biz/account.go`, `data/account.go`) | users, identifiers, authenticators, one-time tokens | register, verify, resend, reset, change password | steps in separate transactions, mail that fails |
| user administration (`biz/user.go`, `data/user.go`) | user status, etag | create, update, disable, enable | optimistic concurrency; disable against everything else |
| startup (`biz/admin_initializer.go`, `oidc/initializer.go`) | administrator, OpenFGA tuple, OAuth clients, signing key | Initialize | crash and restart between steps, several instances, a rollout of another configuration |
| captcha (`security/cap`) | Redis nonces and verification tokens | challenge, redeem, validate | single use against a moving clock and lost replies |
| example service (`app/example/service`) | users with tombstones and etags | create, update, delete, undelete, list | read, conditional write and probe without a transaction; bounded retry |
| middleware (`security/authn`, `security/authz`) | none | authenticate, authorize | decision tables only; not modelled |
| code generators, mail, web frontends | none | | not modelled |

The audit service reads what the other services publish on Kafka. Within IAM, Login
creates login sessions; the authorization endpoint binds one to an authorization
request; a code exchange creates a token session that names it; Logout, Disable,
password reset and password change revoke login sessions and token sessions; mail and
captcha guard the public account operations. OpenFGA decides on administrative calls.

## What is modelled

### AuditPipeline and AuditLog

Any number of partitions, a log whose records are valid (`event`), refused by
`DecodeRecord` or `validateEvent` (`invalid`), or refused by `chBatch.Append`
(`poison`). The variables are the program's: `buffer`, `flushCh`, the batch in the
hands of the flush goroutine, the client's fetch position, and what outlives the
process: committed offsets and rows. The actions:

* poll goroutine: `Poll`, `PollReturns`, `Add` (under the lock), `SignalFlush` (after
  it), `Reject`;
* flush goroutine: `OnTick`, `OnFlushCh`, `OnDone` (the select), `Take` (the critical
  section), `PrepareFails`/`Prepare`, `AppendFails`, `SendFails`/`Send`, `CommitAll`;
* lifecycle: `CancelApp`, `CloseClient`, `StopWriter`, `Cleanup`, `Exit`, `Crash`,
  `Restart`. kratos cancels the context that `Start` got, then runs AfterStop, which is
  `Consumer.Stop`; wire's cleanup closes ClickHouse, then `main` returns.

Environment, by how the code uses it: Kafka keeps what `CommitRecords` sends, also when
the offset is lower than before; ClickHouse may fail any call, and may have stored the
rows of a `Send` that reports an error. One consumer instance owns its partitions
throughout (no rebalance). `dropped` and `overtaken` are history: they record why an
unstored record may be behind the committed offset.

`AuditLog` is what this amounts to, without goroutines, offsets or restarts: each record is
refused, or pending until it is stored or lost, once and for all, and with a database nothing
is lost without an excuse. The refinement mapping (`Fate` in AuditPipeline) calls an unstored
event lost as soon as it is behind the committed offset and in nobody's memory, so a commit
that goes back to a lower offset must never make a lost event deliverable again, nor may one
step lose what another part of it stores.

### TokenSessions and TokenFamilies

One user, one client, several concurrent requests. A step of a request is one SQL
statement; what it wrote is visible after its commit, and a conditional UPDATE waits
while another open transaction holds the row. A request's name is also the name of
whatever it creates, so `family[t]` and `arg[t]` give a token's session and the token
or code it came from. Codes are consumed in `ConsumeCode`; rotation is `QueryCurrent`,
`CheckSession`, `CheckUser`, `TouchSession`, `ConsumeRefresh`, `IssueForRefresh`, in
the order of `CreateAccessAndRefreshTokens`, after the separate transaction of
`TokenRequestByRefreshToken` (`Lookup`, `LookupSession`). All revocations share
`FindSessions`, `RevokeSessions`, `RevokeAccess`, `RevokeRefresh`, `CommitRevoke`; they
differ in the sessions they look for (`Found`) and in whether they go one by one
(TerminateSession). `Fail` ends a request anywhere before its commit: an error, a
cancellation, an expired row, a deadlock broken by the database, a crash. An UPDATE of
several rows waits for all of them at once; scopes, hashes, PKCE and times are
abstracted.

`TokenFamilies` is what clients are promised, without transactions or locks: `Redeem` trades a
code for a session, `Rotate` the one usable refresh token of a session that is not revoked for
its successor, `Revoke` ends sessions and all their tokens at once. In the refinement mapping
a session's tokens are those its rows leave usable (`Refreshable`, `Accepted`). An exchange and
a rotation happen at their commit, a revocation of several sessions at its one commit; all other
statements are invisible.

### Accounts and UserAccount

`Accounts` is one user and the concurrent requests that act on it, all thirteen
operations: register (also an administrator's CreateUser), resend, verify, forgot
(RequestPasswordReset), reset (ConfirmPasswordReset), login, and with a session cookie
resolve, change, logout and profile, and an administrator's update, disable and enable.
The user row and its email identifier, the password authenticator, one-time tokens and
login sessions are variables; `seen` is the etag a request read. A step is one query or
one transaction that ends with a conditional update, as the module's header argues. The
operations share steps as the code shares repository methods: `GetUser` and `AfterUser`
decide by status and verification, `FindLogin`, `GetUser`, `Touch` are
`SessionUsecase.Resolve`, `FindAuthenticator` is also the first query of the transactions
that replace a password, and `RevokeLogins`, `RevokeTokens` are the two halves of
`errors.Join`. `Fail` ends a request at any step: an error, a cancellation, an expired
token or session, an etag sent along that differs, a crash. The token sessions that a
revocation also ends are TokenSessions' subject. `wrote`, `covered`, `racing` are history.

`UserAccount` is what this promises, without requests' steps, etags or authenticators:
the status of a user moves along register, verify, disable, enable; a login session opens
only for a request let in while the user was active and verified, whose password was the
user's at a moment after that; closed sessions stay closed. The refinement mapping
(`Account` in Accounts) lets a login in when it finds the authenticator active, not when
it reads the user: the status may have changed since, and the authenticator follows it.

The code does one thing a reader may not expect: EnableUser on a user that was disabled
before verifying makes it active and unverified. It cannot log in, and can no longer
verify either, since ActivateEmail and ResendVerification only act on a pending user.

### ExampleUsers and VersionedResource

`ExampleUsers` is one User of the example service and concurrent create, update, delete and
undelete requests, with an etag or without, with `allow_missing` or without. The use case
opens no transaction: a step is one statement, and others commit in between. A write is
named by its request (and attempt), so `wrote`, `base` and `overwrote` can say which writes
a request had seen when it wrote. Two answers are wider than a reader may expect and
`AnswersHold` says so: UpdateUser may answer NOT_FOUND although it wrote (the row is deleted
before it is read back), and DeleteUser, whose comment promises the tombstone, may return
the row another request has restored. The soft-delete mixin of ent is modelled by what the
queries rely on.

`VersionedResource` is the promise: a resource is created once, changes only while active,
and every version it has when active is one it never had. The refinement mapping takes the
etag for the version; only a delete leaves it as it is.

### Captcha

A challenge, its redemptions and the tokens they yield, against a clock that moves between
any two steps. The steps of a redemption are where it reads the clock: when it verifies the
challenge, when it computes the nonce's time to live, when Redis runs the script. The script
is one step; its reply may be lost (`LoseReply`), and it may run again with another token
when the drawn one is taken. Whether the puzzle is solved is a choice. Redis keeps what it
was told until it expires: eviction and a restart of Redis are outside. All instances and Redis
share one clock. A script that the client library sends again after a lost reply finds the
nonce spent: the client is refused without a token, which is what `LoseReply` leaves.
`RedeemResponse.Expires` is computed after the script and
can be a little later than the key's end; no property is about it.

### Startup

Instances that start side by side: find or create the administrator, log its password, grant
the relation in OpenFGA, find or seed the signing key, reconcile the OAuth clients one by
one, delete the rest, serve. Any step may be the last before a crash, also after a write
whose reply is lost; the next start may have another configuration. Somebody may register
with the bootstrap address, and an administrator may be disabled and enabled. The code has
corners the module keeps: the query after a lost creation race does not look at the user's
status again, `UpdateClient` does not compare the secret again and fails when the row is
gone, and a disabled bootstrap administrator makes every later start fail. "Active" stands
for active and verified. Two limits: all configurations have one bootstrap address, and somebody
registers only at an instance that serves, so registration comes after the administrator's
creation and does not race it; and the refusal of a stored key that is not active or has other
metadata (`oidc/initializer.go:80`) is left out, as nothing in the code retires a key or changes
one.

### AuditQuery

A client that lists events page by page while batches are inserted, some for the second
time, and rows expire. `ListEvents` is the whole handler: the page size, the where clause of
the token, one row more than the page, the rows that fail to scan, the next token. A page is
the set of its rows: ORDER BY is the relation `Precedes`, and LIMIT and Go's slices are the rows
whose `Position` (how many precede them) is small enough. The filter is the set of events it
matches.

Times are milliseconds, the unit of the column (`DateTime64(3)`). The token's time is an argument
of the query, and `Bound` is what becomes of it: `buildWhere` passes a plain `time.Time` by
position (`audit.go:220`), which clickhouse-go v2 writes in whole seconds; only its `DateNamed`,
which the code does not use, keeps more. So `Precision` is 1000 in the runs. The proofs leave it
open, and would hold for a driver that cuts off nothing. What it does to a list: the next
page begins again with what follows the second of the token, the row that ended the last page
among it unless its time has no fraction. A list goes on as long as a page reaches beyond that;
where a second has as many rows in its course as a page takes, the same page and token come back
for ever. `PagesAreOrdered`, what a cursor is for, is therefore a finding; `PagesAscend` and
`ListEnds` state what is left of it. `start_time` and `end_time` are cut off the same way, for
pages and count alike: that is in the filter. A server without
ClickHouse answers with empty pages; that is not modelled.

## Runs

| run | bounds | distinct states | shows |
|---|---|---|---|
| `audit_safety` | 1 partition of 3 records, batches of 2, all kinds and faults, 1 restart, fair | 233,780 | what may be lost or stored twice, and that AuditPipeline implements AuditLog; buffered events are resolved, shutdown completes |
| `audit_ack_unstored` | 1 partition, ClickHouse may fail | | counterexample, see findings |
| `token_safety` | 2 codes, 4 requests: exchange, refresh, revoke, end_session, Logout | 998,268 | rotation, replay and revocation, of one session or several, are safe; who can deadlock; that TokenSessions implements TokenFamilies |
| `token_live` | 1 code, 3 requests, all operations, fair | 198,954 | no request waits for a lock for ever |
| `token_logout` | 1 code, 3 requests: exchange, Logout | | counterexample, see findings |
| `accounts` | 4 requests, all operations, both kinds of initial user | 548,434 | the properties below, and that Accounts implements UserAccount |
| `accounts_reset` | 4 requests: forgot, reset, login | | counterexample, see findings |
| `example_users` | 3 requests, undeletes of 2 attempts | 287,731 | lost updates, what answers mean, and that ExampleUsers implements VersionedResource |
| `captcha` | 2 challenges, 2 redemptions, 2 tokens that may collide, times to live of 2 and 1 in 4 ticks | 1,263,099 | single use, and no refusal without a reason |
| `startup` | 2 instances, 2 clients, 3 configurations, 1 crash, fair | 603,507 | what a serving instance can rely on, and that starts succeed in the end |
| `audit_query` | 4 events at 2 times, on a second and within one, one unreadable, one that may expire, 2 rows each, pages of 1 to 3 | 42,684 | how far pages are in order, that they are complete, counts, and when lists end |
| `audit_pages` | the same | | counterexample, see findings |

Why the bounds are enough. A loss needs a dropped batch or an invalid record, a later
commit, and a restart: 3 records of batches of 2 leave batch and buffer both non-empty. The
partitions of the pipeline interact only through the batch they share; the proofs cover any
number of them, TLC one (two of them with a restart exceed what a run can take). A rotation
race needs an exchange and two refreshes; the fourth request revokes or replays at any step
of those. Revoking several sessions needs two of them and one rotation racing it, and a
deadlock of TerminateSession needs two of those. `token_live` has one code: with two
sessions two revocations can wait for each other until PostgreSQL breaks the deadlock, and
the fairness of that run admits no failure. A login that outlives a reset needs three
requests (forgot, reset, login), and a fourth logs in with the old or the new password; an
active user without a verified email needs register, disable, enable, and a fourth to try to
log in; lost updates need two readers, disables that cross them a third. An undelete that
loses every attempt needs its two attempts and a delete between any two steps. A captcha's
second token needs two redemptions of one challenge, whose time to live ends between their
reading of the clock and the script; two tokens collide. A start that disturbs another needs
two instances, and three configurations differ in a client, a secret and the rest. Lists
meet every case of a page boundary with two times, one of which the driver truncates, two events
at each, and rows of one event on both sides of it.

All constants are in the cfg files. `MaxRestarts`, `MaxCrashes`, `MaxTime` and `MaxCopies`
are the only counter bounds: restarts of a process, failed starts, ticks of a clock, and
insertions of an event. Deadlock checking is off where requests that have ended, a process
that is down, a clock at its last tick or a list at its end do nothing more. Symmetry is
used in runs of safety properties only (in `example_users`, `accounts` and `token_safety` also
with a refinement, whose abstract specification states no fairness). The type invariants and
the strengthenings of the invariants are proved; TLC checked the latter before that, and no
run keeps them.

What the properties say:

* `LossHasTwoCauses`: an unstored record behind the committed offset and no longer in
  memory was dropped by a failed flush or overtaken by the commit of an invalid record.
  There is no third way to lose an event.
* `SettlesOnce`: AuditPipeline implements AuditLog, across crashes and restarts.
* `OneRowPerProcess`: only a restart duplicates. (`MemoryInLogOrder`, that batch and buffer stay
  in log order and apart, is proved and not run.)
* `FullBufferSignalled`: a buffer that reached the batch size has a flush coming.
* `NothingAfterFinalFlush`: Stop's order (poll loop first) leaves nothing behind.
* `BufferedIsResolved`, `ShutdownCompletes`: no event stays in the buffer of a running
  process, and neither Stop waits for ever.
* `OneLiveRefreshPerSession`, `RotationIsAChain`: rotation issues once, whoever races.
* `IsTokenFamilies`: TokenSessions implements TokenFamilies. (`CodeUsedOnce`, that a code yields
  one session, is proved and not run: it says less.)
* `RevokedSessionIsDead`, `RevocationIsComplete`, `ReplayRevokesFamily`,
  `RevocationHasCause`: revocation reaches every token, also one being created; a
  reported replay did revoke; nothing is revoked without a reason.
* `OnlyMultiRevocationsDeadlock`, `RequestsEnd`: exchange, rotation, replay and RevokeToken
  lock session before token and never wait in a circle. Two operations that revoke several
  sessions can, as they take the rows in the order a query returned them; PostgreSQL then
  aborts one, which is `Fail`.
* `OnlyRacingLoginsSurvive`: a reset, change or disable that reports success has revoked
  every session there was when it wrote, and of the later ones only those survive whose
  login was already past the check it would now fail.
* `VersionsReplacedOnce`, `ResetTokenUsedOnce`: no lost update under etags, no second use
  of a reset token.
* `LoginNeedsVerification`: no session before the email is verified by a mailed token.
* `VerificationIsReported`: VerifyEmail consumes its token in one transaction and activates
  the user in another; a token used up in vain belongs to a request that was told so.
* `KeepsPromises`: Accounts implements UserAccount.
* `NoLostUpdate`, `AnswersHold`, `RefusalsWroteNothing`, `ConflictsAreReal`: no write over one
  its client had not seen; an answer was true of the row during the request; a refusal left
  it alone; a conflict is with another request, and an undelete gives up only after as many
  deletes as it has attempts. `IsVersionedResource`: the refinement.
* `OneUseWhileValid`, `ReplayIsLate`: until it expires a challenge is worth one token, a
  token one validation; a second token takes a redemption that found time left and whose
  script ran after the expiry.
* `RefusedForAReason`, `TokensAreHonoured`: a redemption is refused because the challenge
  expired or a token was issued for it (also one whose reply was lost); a token issued is
  there, with its scope, until it is used or expires.
* `ReadyWhenServing`, `OneAdministrator`, `PasswordHandedOver`, `ServesItsClients`,
  `StartsServe`: a serving instance has its key, an administrator with the relation and,
  undisturbed by instances of another configuration, the clients it asked for; instances
  that race leave one administrator; its password is logged unless the instance that
  created it stopped before it served; starts succeed in the end unless the
  administrator is unusable or a secret differs.
* `PagesAscend`, `NothingMissing`, `CountCoversPages`: a page comes after those before it but
  for events of the same second; what was there all along is returned unless a row failed to
  scan; CountEvents and the pages agree on a table at rest.
* `ListEnds`: a list ends or gets stuck in a second with rows in its course, for good.

Findings, each a counterexample TLC gives: an event of a failed flush is acknowledged
by a later commit, although flush is documented to Ack or Nack it; a code exchanged after
Logout yields a token session of the logged-out session, which Logout is documented to
revoke; a login that compared the old password before a reset has its session after it,
although ConfirmPasswordReset is documented to replace the password and revoke sessions
atomically; and a code bug, the page token's time bound in whole seconds against a column of
milliseconds, so that the row that ends a page is on the next one again: with pages of one row
the list stays there.

Two things the models keep have no run. The two values of NormalizeEmail are taken in the
wrong order (`admin_initializer.go:55`, against `identity.go:14`): an administrator whose
configured address has an upper-case letter is stored under an identifier no login looks up
(`authn.go:44` folds the address; the display value of its email is the folded one). It takes no
sequence of steps to see it; `Startup!canonicalEmail` is the value the code uses.

And `Stop` is commented to flush the remaining events
(`batch_writer.go:112`) and only stops a loop whose last flush may fail or find that the
context is gone (`:115`). What it leaves was not committed, and is delivered again.

Fairness. `AuditPipeline!FairSpec`: the Go scheduler runs each goroutine that can run
(weak fairness of the poll loop's handling, the flush goroutine and the shutdown
sequence); no fairness on faults, on new records arriving or on shutdown starting.
`TokenSessions!FairSpec`: each request that has begun keeps running; no failure is
assumed to rescue a request that waits for a lock. `Startup!FairSpec`: an instance that is
starting goes on, and one that failed is started again, as the orchestrator that runs the
service does; crashes are bounded, and an instance that loses a race to another one starts
again. `AuditQuery!FairSpec`: the client asks for the next page; insertions are bounded by
`MaxCopies`, without which a list could follow a table that grows for ever.

## Proofs

Every property of the passing runs but the five liveness properties is a theorem. The seven
proof modules rest on `ConstantsAssumption` of their module only. None
of the safety invariants is inductive by itself.

`AuditPipeline_proofs` proves, for any partitions, log length, batch size, faults and
number of restarts: `TypeOK`, `LossHasTwoCauses`, `CommitBehindCursor`,
`MemoryInLogOrder`, `OneRowPerProcess`, `NothingAfterFinalFlush` and `FullBufferSignalled`.

* `LossInv` adds that a batch exists only while flush holds it, that the commit step
  follows a successful Send, and that each handled record is stored, in memory, invalid
  or in a history set;
* `RowInv` counts one row less for a record not yet inserted by this process;
* `StopInv` says that once the final flush has begun the poll loop has returned;
* `FullBufferSignalled` needs that the poll loop signals after each event that fills the
  buffer and that the flush goroutine takes the buffer after it took the signal;
* the refinement of AuditLog (`PipelineSettlesOnce`) needs `GoneBeforeMemory`: a well-formed
  record that was handled and is in nobody's memory precedes, in its partition, what is in
  memory. So the commit of a batch, which may go back behind the commit of an invalid record,
  never goes back behind a lost event (`LostStaysLost`); and a step that stores the batch loses
  none of its pending events (`RowsOrLosses`). That the losses have an excuse is `LossHasTwoCauses`.

`TokenSessions_proofs` proves every safety invariant of TokenSessions, for any number of
requests, codes and login sessions and any set of operations: `TypeOK`, `CodeUsedOnce`,
`OneLiveRefreshPerSession`, `RotationIsAChain`, `RevokedSessionIsDead`,
`ReplayRevokesFamily`, `RevocationIsComplete`, `RevocationHasCause` and
`OnlyMultiRevocationsDeadlock`. The strengthening is the last section of TokenSessions:

* `FlowInv` and `IssuedInv` say which operation a request at a step performs and that
  what exists was issued by the request it is named after;
* `LockInv` is the core. A row is locked by one request; a request between a conditional
  update and its commit holds the row, and what the update found still holds. It is
  inductive because whatever changes a session, a code or a refresh token holds its row
  (lemmas `Locking` and `ChangesAreLocked`). Without the lock `TouchSession` takes, the
  step fails, and so does `RevokedSessionIsDead`;
* `RevokeInv` says a revocation has updated the tokens of every session it has left
  behind, `CoverInv` that it has done, is at, or will come to each session it must
  revoke, `CauseInv` that it has a cause from the moment it knows its sessions;
* `OrderInv` is the lock order: who holds a refresh token's row holds its session's, and a
  request that works on one session holds no other's. So nobody waits for a token's row
  (`TokenRowsAreFree`), and a request that works on one session and holds a row waits for
  nobody (`HoldersProceed`): a circle of waiting requests takes one that revokes several.

The refinement of TokenFamilies (`ImplementsTokenFamilies`) adds `AccessInv`, that an access token
is only revoked together with its session. With `CauseInv` and `RevokedSessionIsDead` it says that
a session's tokens end exactly when the session does (`TokensEndTogether`), which makes the commit
of a revocation one `Revoke` (`CommitRevokes`). `LockInv` and `OneLiveRefreshPerSession` give the
guards of `Redeem` and `Rotate` (`ExchangeRedeems`, `RefreshRotates`).

`Accounts_proofs` proves every property of the run `accounts`, for any number of requests
and any set of operations: `TypeOK`, `OnlyRacingLoginsSurvive`, `VersionsReplacedOnce`,
`ResetTokenUsedOnce`, `LoginNeedsVerification`, `VerificationIsReported`, and `KeepsPromises`,
the refinement of UserAccount. The strengthening is the last section of Accounts:

* `FlowInv`: a request is at the steps of its operation and presents what was mailed or
  created; `UserInv`: the authenticator follows the status, and whoever acts on a user it
  found verified finds it so later (`TrustFounded`);
* `VersionInv`: a request writes once (`WriteCases`, `WrotePast`), so its name is fresh as
  an etag or a password, and a version that was replaced is never current again. This is
  what makes a conditional update on an etag safe, and what shows that UpdateStatus
  changes the status the request had read;
* `MailInv`: how a verified or an unverified active user came to be so;
* `RaceInv`: while what a request wrote stands, each login session is older than the
  write, raced it, or passed the check with the new password (`ShutsOutStep`,
  `RekeysStep`), and the older ones are revoked once the request reports success
  (`CoversStep`).

The refinement maps each step to one step of UserAccount or none (`AccountSteps`).

`ExampleUsers_proofs` proves all properties of its run, for any number of requests and
attempts, with `VersionInv` (as long as the row is active with the etag a request knows,
nothing was written since) and `CountInv` (each failed attempt of an undelete was undone by
a delete of somebody else, counted with the cardinality theorems). The refinement of
VersionedResource follows because every write but a delete's has a fresh name.

`Captcha_proofs` proves all properties of its run, for any times to live and any delays:
`NonceInv` (the nonce outlives the challenge once a token was issued for it, because the
clock does not go back between the computation and the script) and `KeyInv` (a token that
is out belongs to one unused issue).

`Startup_proofs` proves the safety properties of its run, for any instances, clients and
configurations: `AdminInv` says what a start that got so far has seen to, `ClientInv` how far
the clients are reconciled as long as nobody with another configuration writes.

`AuditQuery_proofs` proves the safety properties of its run, for any events, times, filters, page
sizes and number of copies. Its first part is about the slices of a query's result, as sets:
`Precedes` is a strict total order; positions ascend with it (`PositionsAscend`); what the first
rows contain comes before what they leave out (`FirstComesFirst`); a slice that is not full
is everything (`ShortFirstIsAll`, by the least row, which exists because a strict subset is
smaller); the row at index size - 1 ends the page (`LastEndsThePage`). On them rest

* `TokenCovers`: no event returned so far is of a second after the token's. A query
  returns nothing of a second before the token's (`FollowsInTime`), so the next page has
  nothing of an earlier second than what was returned (`PageFollowsReturned`), and its last row is
  of its last second (`LastIsOfLastSecond`): `PagesAscend`. Truncation keeps the order of times
  (`BoundAscends`), which is all that is used of it, so `Precision` is any;
* `PagesGoForward`, the safety part of `ListEnds`: a page that has a token goes on to a later
  second or has events of the second it was asked with only;
* `RestFollows`: what was in the table all along and is still to be returned is after the token.
  This holds for every `Precision`, since a coarser time only finds more (`AfterFollows`), and
  gives `NothingMissing`: the last page is the rest (`LastPageIsAll`);
* `CountInv`: what was returned of a table at rest is in it, and a row was skipped only where the
  filter matches an unreadable event. `CountCoversPages` then compares two sets by an injection of
  events into rows (`ReturnedIsCounted`, `CountedIsReturned`).

Checked and not proved: the liveness properties `BufferedIsResolved`, `ShutdownCompletes`,
`RequestsEnd`, `StartsServe` and `ListEnds`, as fairness and ENABLED are outside the prover.

## Plan

1. `AuditPipeline` and its proofs (done).
2. `TokenSessions` and its proofs, with the lock order (done).
3. `Accounts`, `UserAccount` and their proofs (done).
4. `ExampleUsers`, `VersionedResource` and their proofs (done).
5. `Startup` and its proofs (done).
6. `Captcha` and its proofs (done).
7. `AuditQuery` and its proofs (done).
8. `AuditLog`, refined by `AuditPipeline`, and `TokenFamilies`, refined by `TokenSessions` (done).
9. Abstract specifications of `Captcha` (a challenge is worth one token while it is valid) and of
   `Startup`, and their refinements.
10. A decision table of the gateway: which of session cookie, JWT, rule and OpenFGA answer
   lets a request in.

## Not modelled

* Generated code: 73,000 of the repository's 84,000 lines of Go are ent's query builders,
  protobuf messages with their validators and gRPC stubs. They have no control of this
  program; what the code in front of them relies on (a conditional UPDATE, a query's result)
  is in the actions. Of the roughly 10,100 lines written by hand the modules stand for
  about 2,430, nearly all that change shared state.
* Code generators (`cmd/protoc-gen-plateau-*`, `internal/codegen`): build-time text.
* Request middleware, user queries and ListUsers of the example service: decisions and reads
  of one request, without state that interleaves.
* Mail: one SMTP dialogue, an action that may fail. Web frontends.
* Wording, hashes, keys, PKCE, token encodings, the puzzle of the captcha, ClickHouse's DDL
  and connection options.
