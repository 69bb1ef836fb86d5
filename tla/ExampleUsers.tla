---------------------------- MODULE ExampleUsers ----------------------------
(***************************************************************************)
(* One User of the example service under concurrent requests: create,      *)
(* update, soft delete and undelete (biz/user.go and data/user.go of       *)
(* app/example/service).  A step of a request is one statement: the insert *)
(* that the unique index on (tenant, resource) lets one request win, a     *)
(* query, or an UPDATE whose condition is tested on the row it writes.     *)
(* The use case opens no transaction, so others commit between any two of  *)
(* them.  Rows are never removed.                                          *)
(*                                                                         *)
(* An etag is random in the code; here it is the write that set it, named  *)
(* by its request and, for an undelete, by the attempt.  Of the content    *)
(* of a User nothing but who wrote it last matters.                        *)
(***************************************************************************)
EXTENDS Naturals, FiniteSets

CONSTANTS
    Requests,     \* the requests
    MaxAttempts,  \* maxUndeleteAttempts
    Initial,      \* etag of a User that exists at the start
    None

ASSUME ConstantsAssumption ==
    /\ MaxAttempts \in Nat \ {0}
    /\ Initial # None
    /\ {Initial, None} \cap (Requests \X Nat) = {}

VARIABLES
    state,      \* of the row: none, active, or deleted when it has a delete_time
    etag,       \* of the row
    pc,         \* what a request does next, or its answer
    op,         \* its operation
    missing,    \* requests with allow_missing
    want,       \* the etag it was called with
    seen,       \* the etag it read
    attempts,   \* of an undelete: those that have failed
    wrote,      \* history: the committed writes
    base,       \* history: the writes behind what the request, or its client, has read
    overwrote,  \* history: when an update or delete wrote, the writes it had not seen
    held        \* history: the states of the row since the request began

row     == <<state, etag>>
call    == <<op, missing, want>>
history == <<wrote, base, overwrote, held>>
vars    == <<row, pc, call, seen, attempts, history>>

-----------------------------------------------------------------------------
Operations == {"create", "update", "delete", "undelete"}
Steps   == {"insert", "get", "update", "delete", "undelete", "reread", "probe", "last"}
Answers == {"ok", "notFound", "exists", "mismatch", "error"}
Writes  == Requests \X (1 .. MaxAttempts)
Etags   == Writes \cup {Initial, None}
States  == {"none", "active", "deleted"}

TypeOK ==
    /\ state \in States
    /\ etag \in Etags
    /\ pc \in [Requests -> {"idle"} \cup Steps \cup Answers]
    /\ op \in [Requests -> Operations \cup {"none"}]
    /\ missing \in SUBSET Requests
    /\ want \in [Requests -> Etags]
    /\ seen \in [Requests -> Etags]
    /\ attempts \in [Requests -> 0 .. MaxAttempts]
    /\ wrote \in SUBSET Writes
    /\ base \in [Requests -> SUBSET Writes]
    /\ overwrote \in [Requests -> SUBSET Writes]
    /\ held \in [Requests -> SUBSET States]

Init ==
    /\ \/ state = "none" /\ etag = None
       \/ state \in {"active", "deleted"} /\ etag = Initial
    /\ pc = [r \in Requests |-> "idle"]
    /\ op = [r \in Requests |-> "none"]
    /\ missing = {}
    /\ want = [r \in Requests |-> None]
    /\ seen = [r \in Requests |-> None]
    /\ attempts = [r \in Requests |-> 0]
    /\ wrote = {}
    /\ base = [r \in Requests |-> {}]
    /\ overwrote = [r \in Requests |-> {}]
    /\ held = [r \in Requests |-> {}]

Goto(r, step) == pc' = [pc EXCEPT ![r] = step]

\* The request goes on, or is refused.
Advance(r, step) ==
    /\ Goto(r, step)
    /\ UNCHANGED <<row, call, seen, attempts, history>>

\* The statement of r that sets the row, as its n-th write.
Write(r, n, newState, newEtag, step) ==
    /\ state' = newState
    /\ etag' = newEtag
    /\ wrote' = wrote \cup {<<r, n>>}
    /\ held' = [q \in Requests |-> held[q] \cup {newState}]
    /\ Goto(r, step)
    /\ UNCHANGED <<call, seen, attempts, base>>

-----------------------------------------------------------------------------
(* Starting an operation.                                                   *)

\* The client has read the row, with GetUser, when it names an etag.
Start(r) ==
    /\ pc[r] = "idle"
    /\ \E kind \in Operations, allow \in BOOLEAN, e \in {None, etag} :
         /\ kind \in {"create", "undelete"} => ~allow /\ e = None
         /\ op' = [op EXCEPT ![r] = kind]
         /\ missing' = IF allow THEN missing \cup {r} ELSE missing
         /\ want' = [want EXCEPT ![r] = e]
         /\ Goto(r, IF kind = "create" THEN "insert" ELSE "get")
    /\ base' = [base EXCEPT ![r] = wrote]
    /\ held' = [held EXCEPT ![r] = {state}]
    /\ UNCHANGED <<row, seen, attempts, wrote, overwrote>>

\* CreateUser, also of an update with allow_missing.  The reply of the database may be lost.
Insert(r) ==
    /\ pc[r] = "insert"
    /\ IF state # "none" THEN Advance(r, "exists")
       ELSE /\ \E answer \in {"ok", "error"} : Write(r, 1, "active", <<r, 1>>, answer)
            /\ UNCHANGED overwrote

\* The etag the client named, if any, is not that of the row.
Stale(r) == want[r] # None /\ want[r] # etag

\* The request takes the row as it is now for what it changes.
Read(r, step) ==
    /\ Goto(r, step)
    /\ seen' = [seen EXCEPT ![r] = etag]
    /\ base' = [base EXCEPT ![r] = IF want[r] = None THEN wrote ELSE @]
    /\ UNCHANGED <<row, call, attempts, wrote, overwrote, held>>

-----------------------------------------------------------------------------
(* UpdateUser and DeleteUser.                                               *)

GetForUpdate(r) ==
    /\ pc[r] = "get"
    /\ op[r] = "update"
    /\ IF state # "active" THEN Advance(r, IF r \in missing THEN "insert" ELSE "notFound")
       ELSE IF Stale(r) THEN Advance(r, "mismatch")
       ELSE Read(r, "update")

\* Mutant: the UPDATE does not look at delete_time.
UpdateTombstone(r) ==
    /\ pc[r] = "update"
    /\ IF etag = seen[r]
       THEN /\ Write(r, 1, state, <<r, 1>>, "reread")
            /\ overwrote' = [overwrote EXCEPT ![r] = wrote \ base[r]]
       ELSE Advance(r, "probe")

Update(r) ==
    /\ pc[r] = "update"
    /\ IF state = "active" /\ etag = seen[r]
       THEN /\ Write(r, 1, "active", <<r, 1>>, "reread")
            /\ overwrote' = [overwrote EXCEPT ![r] = wrote \ base[r]]
       ELSE Advance(r, "probe")

\* A tombstone is found as well: deleting it again is an error, or, with allow_missing, done.
GetForDelete(r) ==
    /\ pc[r] = "get"
    /\ op[r] = "delete"
    /\ IF state = "none" THEN Advance(r, "notFound")
       ELSE IF Stale(r) THEN Advance(r, "mismatch")
       ELSE IF state = "deleted" THEN Advance(r, IF r \in missing THEN "ok" ELSE "notFound")
       ELSE Read(r, "delete")

\* The tombstone keeps the etag.
Delete(r) ==
    /\ pc[r] = "delete"
    /\ IF state = "active" /\ etag = seen[r]
       THEN /\ Write(r, 1, "deleted", etag, "reread")
            /\ overwrote' = [overwrote EXCEPT ![r] = wrote \ base[r]]
       ELSE Advance(r, "probe")

\* Mutant: a miss is taken for a missing row.
MissIsNotFound(r) == pc[r] = "probe" /\ Advance(r, "notFound")

\* Nothing matched: the row is read to tell a tombstone from another version.
Probe(r) ==
    /\ pc[r] = "probe"
    /\ Advance(r, IF state # "deleted" THEN "mismatch"
                  ELSE IF op[r] = "delete" /\ r \in missing THEN "ok"
                  ELSE "notFound")

\* Mutant: the deleted row is read back like an updated one, tombstones left out.
RereadActive(r) ==
    /\ pc[r] = "reread"
    /\ op[r] # "undelete"
    /\ Advance(r, IF state # "active" THEN "notFound" ELSE "ok")

\* The row is read back for the answer, after an update only if it is active still.
Reread(r) ==
    /\ pc[r] = "reread"
    /\ op[r] # "undelete"
    /\ Advance(r, IF op[r] = "update" /\ state # "active" THEN "notFound" ELSE "ok")

-----------------------------------------------------------------------------
(* UndeleteUser.                                                            *)

GetForUndelete(r) ==
    /\ pc[r] = "get"
    /\ op[r] = "undelete"
    /\ Advance(r, IF state = "none" THEN "notFound"
                  ELSE IF state = "active" THEN "ok"
                  ELSE "undelete")

\* Mutant: the last miss is answered without looking at the row once more.
MissedGivesUp(r) ==
    /\ attempts' = [attempts EXCEPT ![r] = @ + 1]
    /\ Goto(r, IF attempts[r] + 1 < MaxAttempts THEN "get" ELSE "mismatch")
    /\ UNCHANGED <<row, call, seen, history>>

\* The attempt failed: try again, or look at the row for the last time.
Missed(r) ==
    /\ attempts' = [attempts EXCEPT ![r] = @ + 1]
    /\ Goto(r, IF attempts[r] + 1 < MaxAttempts THEN "get" ELSE "last")
    /\ UNCHANGED <<row, call, seen, history>>

\* Mutant: the row comes back with the etag of its tombstone.
UndeleteKeepsEtag(r) ==
    /\ pc[r] = "undelete"
    /\ IF state = "deleted"
       THEN Write(r, attempts[r] + 1, "active", etag, "reread") /\ UNCHANGED overwrote
       ELSE Missed(r)

Undelete(r) ==
    /\ pc[r] = "undelete"
    /\ IF state = "deleted"
       THEN /\ Write(r, attempts[r] + 1, "active", <<r, attempts[r] + 1>>, "reread")
            /\ UNCHANGED overwrote
       ELSE Missed(r)

\* The restored row may be a tombstone again.
RereadRestored(r) ==
    /\ pc[r] = "reread"
    /\ op[r] = "undelete"
    /\ IF state = "active" THEN Advance(r, "ok") ELSE Missed(r)

LastLook(r) ==
    /\ pc[r] = "last"
    /\ Advance(r, IF state = "active" THEN "ok" ELSE "mismatch")

-----------------------------------------------------------------------------
\* A statement fails, or its reply is lost, or the service crashes.
Fail(r) == pc[r] \in Steps /\ Advance(r, "error")

Next ==
    \E r \in Requests :
        \/ Start(r)
        \/ Insert(r)
        \/ GetForUpdate(r)
        \/ Update(r)
        \/ GetForDelete(r)
        \/ Delete(r)
        \/ Probe(r)
        \/ Reread(r)
        \/ GetForUndelete(r)
        \/ Undelete(r)
        \/ RereadRestored(r)
        \/ LastLook(r)
        \/ Fail(r)

Spec == Init /\ [][Next]_vars

-----------------------------------------------------------------------------
(* Properties.                                                              *)

By(r, S) == {w \in S : w[1] = r}

\* UpdateUser and DeleteUser: an update or a delete is applied to exactly the row that its
\* client read when it named an etag, and that the request itself read otherwise: no write of
\* another request comes in between, a delete and an undelete included.
NoLostUpdate == \A r \in Requests : overwrote[r] = {}

\* Every answer was true of the row at some moment since the request began: an update that
\* succeeds has written, a delete has seen the tombstone, an undelete the restored row, and
\* what is not found or exists already was so.
AnswersHold ==
    \A r \in Requests :
        /\ pc[r] = "ok" /\ op[r] \in {"create", "update"} => <<r, 1>> \in wrote
        /\ pc[r] = "ok" /\ op[r] = "delete" => "deleted" \in held[r]
        /\ pc[r] = "ok" /\ op[r] = "undelete" => "active" \in held[r]
        /\ pc[r] = "exists" => held[r] \cap {"active", "deleted"} # {}
        /\ pc[r] = "notFound" /\ op[r] = "undelete" => "none" \in held[r]
        /\ pc[r] = "notFound" => held[r] \cap {"none", "deleted"} # {}

\* A create, update or delete that is refused has written nothing.  The exception is an
\* update answered NOT_FOUND: its row may have been deleted before it was read back.
RefusalsWroteNothing ==
    \A r \in Requests :
        \/ pc[r] \in {"exists", "mismatch"} /\ op[r] # "undelete"
        \/ pc[r] = "notFound" /\ op[r] # "update"
        => By(r, wrote) = {}

Others(r) == (wrote \ base[r]) \ By(r, wrote)
DeletesByOthers(r) == {w \in Others(r) : op[w[1]] = "delete"}

\* A conflict is only reported when there is one: an update or delete lost to another write,
\* and an undelete was undone, or beaten and undone, maxUndeleteAttempts times.
ConflictsAreReal ==
    \A r \in Requests : pc[r] = "mismatch" =>
        IF op[r] = "undelete" THEN Cardinality(DeletesByOthers(r)) >= MaxAttempts
        ELSE Others(r) # {}

-----------------------------------------------------------------------------
(* What makes the invariants inductive.                                     *)

\* A request is at the steps of its operation, and only an undelete counts attempts.
FlowInv ==
    \A r \in Requests :
        /\ pc[r] = "idle" <=> op[r] = "none"
        /\ pc[r] = "insert" => op[r] \in {"create", "update"}
        /\ pc[r] \in {"get", "reread"} => op[r] \in {"update", "delete", "undelete"}
        /\ pc[r] \in {"update", "delete"} => op[r] = pc[r]
        /\ pc[r] = "probe" => op[r] \in {"update", "delete"}
        /\ pc[r] \in {"undelete", "last"} => op[r] = "undelete"
        /\ op[r] # "undelete" => attempts[r] = 0
        /\ pc[r] \in {"get", "undelete", "reread"} => attempts[r] < MaxAttempts
        /\ pc[r] = "last" => attempts[r] = MaxAttempts

\* What a request has written, and that it has written when it reads back.
WroteInv ==
    /\ IsFiniteSet(wrote)
    /\ state = "none" => wrote = {}
    /\ \A r \in Requests :
        /\ base[r] \subseteq wrote
        /\ pc[r] \in {"idle", "insert", "update", "delete", "probe", "exists"} => By(r, wrote) = {}
        /\ op[r] # "undelete" /\ pc[r] \in {"get", "mismatch"} => By(r, wrote) = {}
        /\ op[r] # "update" /\ pc[r] = "notFound" => By(r, wrote) = {}
        /\ op[r] = "undelete" /\ pc[r] \in Steps \ {"reread"} =>
             \A w \in By(r, wrote) : w[2] <= attempts[r]
        /\ op[r] = "undelete" /\ pc[r] = "reread" =>
             \A w \in By(r, wrote) : w[2] <= attempts[r] + 1
        /\ op[r] = "update" /\ pc[r] = "reread" => <<r, 1>> \in wrote

\* The etags there have been: only a delete leaves the etag as it is.
Given == {w \in wrote : op[w[1]] # "delete"} \cup {Initial}

\* An etag belongs to one life of one version: as long as the row is active with the etag a
\* request knows, nothing was written since, and when nothing was written it has that etag.
VersionInv ==
    /\ state = "none" <=> etag = None
    /\ etag # None => etag \in Given
    /\ \A r \in Requests :
        /\ want[r] # None => want[r] \in Given
        /\ pc[r] \in Steps /\ want[r] # None =>
            /\ wrote = base[r] => etag = want[r]
            /\ state = "active" /\ etag = want[r] => wrote = base[r]
        /\ pc[r] \in {"update", "delete"} =>
            /\ seen[r] \in Given
            /\ wrote = base[r] <=> state = "active" /\ etag = seen[r]
        /\ pc[r] = "probe" => wrote # base[r]

\* The state of the row is one the request has been there for.
HeldInv ==
    \A r \in Requests :
        /\ pc[r] \in Steps => state \in held[r]
        /\ pc[r] = "reread" /\ op[r] = "delete" => "deleted" \in held[r]

\* Every failed attempt of an undelete was undone by a delete, or will have been by the time
\* the row is a tombstone again.
CountInv ==
    \A r \in Requests : op[r] = "undelete" =>
        LET deletes == Cardinality(DeletesByOthers(r)) IN
        /\ pc[r] \in {"get", "last"} =>
             attempts[r] <= IF state = "deleted" THEN deletes ELSE deletes + 1
        /\ pc[r] \in {"undelete", "last"} => state # "none"
        /\ pc[r] = "undelete" => attempts[r] <= deletes
        /\ pc[r] = "reread" =>
             /\ state # "none"
             /\ attempts[r] <= IF state = "deleted" THEN deletes - 1 ELSE deletes

IInv ==
    /\ TypeOK
    /\ FlowInv
    /\ WroteInv
    /\ VersionInv
    /\ HeldInv
    /\ CountInv
    /\ NoLostUpdate
    /\ AnswersHold
    /\ ConflictsAreReal

-----------------------------------------------------------------------------
(* What the User is to its clients.                                         *)

Resource == INSTANCE VersionedResource WITH
    Versions <- Writes,
    version <- etag,
    given <- Given

\* The row is the resource VersionedResource promises, whatever the requests do.
IsVersionedResource == Resource!Spec
=============================================================================
