---------------------------- MODULE AuditPipeline ----------------------------
(***************************************************************************)
(* The audit service's ingestion path: the Kafka consumer (consumer.go),   *)
(* the batch writer (batch_writer.go) and the application lifecycle that   *)
(* starts and stops them (cmd/server/main.go, wire's cleanup), together    *)
(* with what the code needs of Kafka (the group's committed offsets, a     *)
(* position per partition) and of ClickHouse (the rows of audit_events).   *)
(*                                                                         *)
(* Two goroutines share the buffer: the poll loop appends to it, the flush *)
(* loop takes it.  A third actor, the lifecycle, cancels the Start context *)
(* and stops both.  One application process is modelled: it can crash, or  *)
(* shut down, and start again from the committed offsets.                  *)
(***************************************************************************)
EXTENDS Naturals, FiniteSets

CONSTANTS
    Partitions,           \* partitions of the audit topic assigned to this consumer
    LogEnd,               \* records per partition: offsets 0 .. LogEnd-1
    Kinds,                \* kinds of record the topic may hold
    BatchSize,            \* BatchWriter.batchSize
    ClickHouseConfigured, \* FALSE when Data.ClickHouse() is nil
    Faults,               \* which environment failures may happen
    MaxRestarts           \* bound: process starts after the first one

ASSUME ConstantsAssumption ==
    /\ LogEnd \in Nat
    /\ Kinds \subseteq {"event", "invalid", "poison"}
    /\ BatchSize \in Nat \ {0}
    /\ ClickHouseConfigured \in BOOLEAN
    /\ Faults \subseteq {"clickhouse", "kafka", "crash"}
    /\ MaxRestarts \in Nat

Offsets == 0 .. (LogEnd - 1)
Records == Partitions \X Offsets

VARIABLES
    kind,       \* what each record is: "event" is stored, "invalid" fails DecodeRecord or
                \* validateEvent, "poison" passes both and is refused by chBatch.Append
    committed,  \* per partition, the consumer group's committed offset, kept by the broker
    rows,       \* per record, how many rows of audit_events it became
    position,   \* per partition, the client's fetch position (end of the polled records)
    cursor,     \* per partition, the next record EachRecord hands to handle
    poll,       \* the poll goroutine: in its loop, between Add's two halves, or returned
    buffer,     \* BatchWriter.buffer
    flushCh,    \* BatchWriter.flushCh holds its one token
    writer,     \* the flush goroutine's program counter
    final,      \* the flush in progress is the one after <-done, with its own context
    batch,      \* the batch the flush goroutine took out of the buffer
    phase,      \* the application's lifecycle
    restarts,   \* process starts so far, after the first
    dropped,    \* history: records whose batch a failed flush threw away unstored
    overtaken   \* history: unstored records in memory when an invalid record behind
                \* them in the log was committed

pollVars   == <<position, cursor, poll>>
writerVars == <<writer, final, batch>>
history    == <<dropped, overtaken>>
vars == <<kind, committed, rows, pollVars, buffer, flushCh, writerVars, phase, restarts, history>>

-----------------------------------------------------------------------------
\* The lifecycle's phases, in the order a shutdown goes through them.
Phases == {"running", "cancelled", "clientClosed", "writerStopped", "cleanedUp", "down"}

ClientOpen     == phase \in {"running", "cancelled"}
ClickHouseOpen == phase # "cleanedUp"
StartCtxLive   == phase = "running"
Up             == phase # "down"

\* The flush in progress runs under a live context: its own after <-done, Start's otherwise.
FlushCtxLive == final \/ StartCtxLive

Polled == \E p \in Partitions : cursor[p] < position[p]

InMemory == buffer \cup batch

TypeOK ==
    /\ kind \in [Records -> Kinds]
    /\ committed \in [Partitions -> 0 .. LogEnd]
    /\ rows \in [Records -> Nat]
    /\ position \in [Partitions -> 0 .. LogEnd]
    /\ cursor \in [Partitions -> 0 .. LogEnd]
    /\ poll \in {"looping", "signalling", "done"}
    /\ buffer \in SUBSET Records
    /\ flushCh \in BOOLEAN
    /\ writer \in {"select", "take", "prepare", "send", "commit", "exited"}
    /\ final \in BOOLEAN
    /\ batch \in SUBSET Records
    /\ phase \in Phases
    /\ restarts \in 0 .. MaxRestarts
    /\ dropped \in SUBSET Records
    /\ overtaken \in SUBSET Records

Init ==
    /\ kind \in [Records -> Kinds]
    /\ committed = [p \in Partitions |-> 0]
    /\ rows = [r \in Records |-> 0]
    /\ position = [p \in Partitions |-> 0]
    /\ cursor = [p \in Partitions |-> 0]
    /\ poll = "looping"
    /\ buffer = {}
    /\ flushCh = FALSE
    /\ writer = "select"
    /\ final = FALSE
    /\ batch = {}
    /\ phase = "running"
    /\ restarts = 0
    /\ dropped = {}
    /\ overtaken = {}

-----------------------------------------------------------------------------
(* The poll goroutine.                                                      *)

\* PollFetches returns records that follow the position of one or more partitions.
\* (A fetch that returns only errors changes nothing.)
Poll ==
    /\ Up
    /\ poll = "looping"
    /\ ~Polled
    /\ StartCtxLive
    /\ position' \in [Partitions -> 0 .. LogEnd]
    /\ \A p \in Partitions : position'[p] >= position[p]
    /\ position' # position
    /\ UNCHANGED <<kind, committed, rows, cursor, poll, buffer, flushCh, writerVars, phase, restarts, history>>

\* Mutant: the loop ends on the Canceled fetch error alone, which a closed client does not return.
PollReturnsOnCanceledOnly ==
    /\ poll = "looping"
    /\ ~Polled
    /\ phase = "cancelled"
    /\ poll' = "done"
    /\ UNCHANGED <<kind, committed, rows, position, cursor, buffer, flushCh, writerVars, phase, restarts, history>>

\* PollFetches returns after the context was cancelled: the loop ends, and with it
\* whatever that last fetch carried.
PollReturns ==
    /\ Up
    /\ poll = "looping"
    /\ ~Polled
    /\ ~StartCtxLive
    /\ poll' = "done"
    /\ UNCHANGED <<kind, committed, rows, position, cursor, buffer, flushCh, writerVars, phase, restarts, history>>

\* Mutant: the buffer must exceed batchSize before a flush is asked for.
AddSignalsLate(p) ==
    LET r == <<p, cursor[p]>> IN
    /\ Up
    /\ poll = "looping"
    /\ cursor[p] < position[p]
    /\ kind[r] # "invalid"
    /\ buffer' = buffer \cup {r}
    /\ cursor' = [cursor EXCEPT ![p] = @ + 1]
    /\ poll' = IF Cardinality(buffer') > BatchSize THEN "signalling" ELSE "looping"
    /\ UNCHANGED <<kind, committed, rows, position, flushCh, writerVars, phase, restarts, history>>

\* handle -> route -> Add, first half: append under the lock and decide whether to signal.
Add(p) ==
    LET r == <<p, cursor[p]>> IN
    /\ Up
    /\ poll = "looping"
    /\ cursor[p] < position[p]
    /\ kind[r] # "invalid"
    /\ buffer' = buffer \cup {r}
    /\ cursor' = [cursor EXCEPT ![p] = @ + 1]
    /\ poll' = IF Cardinality(buffer') >= BatchSize THEN "signalling" ELSE "looping"
    /\ UNCHANGED <<kind, committed, rows, position, flushCh, writerVars, phase, restarts, history>>

\* Add, second half, outside the lock: the non-blocking send on flushCh.
SignalFlush ==
    /\ Up
    /\ poll = "signalling"
    /\ flushCh' = TRUE
    /\ poll' = "looping"
    /\ UNCHANGED <<kind, committed, rows, position, cursor, buffer, writerVars, phase, restarts, history>>

\* handle on a record that DecodeRecord or validateEvent refuses: commit that record's
\* offset at once, whatever is still buffered, and ignore the commit's error.
Reject(p) ==
    LET r == <<p, cursor[p]>> IN
    /\ Up
    /\ poll = "looping"
    /\ cursor[p] < position[p]
    /\ kind[r] = "invalid"
    /\ cursor' = [cursor EXCEPT ![p] = @ + 1]
    /\ \/ /\ ClientOpen
          /\ committed' = [committed EXCEPT ![p] = cursor[p] + 1]
          /\ overtaken' = overtaken \cup {m \in InMemory : m[1] = p /\ rows[m] = 0}
       \/ /\ "kafka" \in Faults \/ ~StartCtxLive
          /\ UNCHANGED <<committed, overtaken>>
    /\ UNCHANGED <<kind, rows, position, poll, buffer, flushCh, writerVars, phase, restarts, dropped>>

-----------------------------------------------------------------------------
(* The flush goroutine.                                                     *)

\* Where flush returns to: the select of Start's loop, or the end of the goroutine.
AfterFlush == IF final THEN "exited" ELSE "select"

\* Mutant: the ticker case is missing, so only a full buffer is flushed.
OnTickMissing == FALSE /\ UNCHANGED vars

\* The three cases of the select.  When several are ready Go picks any of them.
OnTick ==
    /\ Up
    /\ writer = "select"
    /\ writer' = "take"
    /\ UNCHANGED <<kind, committed, rows, pollVars, buffer, flushCh, final, batch, phase, restarts, history>>

OnFlushCh ==
    /\ Up
    /\ writer = "select"
    /\ flushCh
    /\ flushCh' = FALSE
    /\ writer' = "take"
    /\ UNCHANGED <<kind, committed, rows, pollVars, buffer, final, batch, phase, restarts, history>>

OnDone ==
    /\ writer = "select"
    /\ phase \in {"writerStopped", "cleanedUp"}
    /\ final' = TRUE
    /\ writer' = "take"
    /\ UNCHANGED <<kind, committed, rows, pollVars, buffer, flushCh, batch, phase, restarts, history>>

\* flush's critical section: swap the buffer for an empty one.
Take ==
    /\ Up
    /\ writer = "take"
    /\ batch' = buffer
    /\ buffer' = {}
    /\ writer' = IF buffer = {} THEN AfterFlush
                 ELSE IF ClickHouseConfigured THEN "prepare" ELSE "commit"
    /\ UNCHANGED <<kind, committed, rows, pollVars, flushCh, final, phase, restarts, history>>

\* flush returns early: the batch is neither committed nor put back.
DropBatch ==
    /\ batch' = {}
    /\ dropped' = dropped \cup {r \in batch : rows'[r] = 0}
    /\ writer' = AfterFlush
    /\ UNCHANGED <<kind, committed, pollVars, buffer, flushCh, final, phase, restarts, overtaken>>

ClickHouseMayFail == "clickhouse" \in Faults \/ ~FlushCtxLive \/ ~ClickHouseOpen

\* Mutant: after a failed PrepareBatch flush goes on to commit the batch.
PrepareFailsCommits ==
    /\ Up
    /\ writer = "prepare"
    /\ ClickHouseMayFail
    /\ writer' = "commit"
    /\ UNCHANGED <<kind, committed, rows, pollVars, buffer, flushCh, final, batch, phase, restarts, history>>

PrepareFails ==
    /\ Up
    /\ writer = "prepare"
    /\ ClickHouseMayFail
    /\ UNCHANGED rows
    /\ DropBatch

Prepare ==
    /\ Up
    /\ writer = "prepare"
    /\ ClickHouseOpen
    /\ writer' = "send"
    /\ UNCHANGED <<kind, committed, rows, pollVars, buffer, flushCh, final, batch, phase, restarts, history>>

Poisoned == \E r \in batch : kind[r] = "poison"

\* Append refuses one event of the batch: Abort, and the whole batch is gone.
AppendFails ==
    /\ Up
    /\ writer = "send"
    /\ Poisoned
    /\ UNCHANGED rows
    /\ DropBatch

RowsAdded == [r \in Records |-> IF r \in batch THEN rows[r] + 1 ELSE rows[r]]

\* Mutant: Send is retried after an error that the server may not have seen.
SendFailsRetries ==
    /\ Up
    /\ writer = "send"
    /\ ~Poisoned
    /\ ClickHouseMayFail
    /\ rows' = RowsAdded
    /\ UNCHANGED <<kind, committed, pollVars, buffer, flushCh, writerVars, phase, restarts, history>>

\* Send reports an error.  The insert may have reached the server all the same.
SendFails ==
    /\ Up
    /\ writer = "send"
    /\ ~Poisoned
    /\ ClickHouseMayFail
    /\ \/ UNCHANGED rows
       \/ ClickHouseOpen /\ rows' = RowsAdded
    /\ DropBatch

Send ==
    /\ Up
    /\ writer = "send"
    /\ ~Poisoned
    /\ ClickHouseOpen
    /\ rows' = RowsAdded
    /\ writer' = "commit"
    /\ UNCHANGED <<kind, committed, pollVars, buffer, flushCh, final, batch, phase, restarts, history>>

\* The offsets CommitRecords sends: for each partition of the batch, one past its
\* highest record.  The broker takes them as they are, also when they go back.
BatchCommit(c) ==
    \A p \in Partitions :
        LET taken == {r \in batch : r[1] = p} IN
        IF taken = {} THEN c[p] = committed[p]
        ELSE \E top \in taken : c[p] = top[2] + 1 /\ \A r \in taken : r[2] <= top[2]

\* commitAll: an error of CommitRecords is logged and forgotten.
CommitAll ==
    /\ Up
    /\ writer = "commit"
    /\ \/ /\ ClientOpen
          /\ committed' \in [Partitions -> 0 .. LogEnd]
          /\ BatchCommit(committed')
       \/ /\ "kafka" \in Faults \/ ~FlushCtxLive \/ ~ClientOpen
          /\ UNCHANGED committed
    /\ batch' = {}
    /\ writer' = AfterFlush
    /\ UNCHANGED <<kind, rows, pollVars, buffer, flushCh, final, phase, restarts, history>>

-----------------------------------------------------------------------------
(* The lifecycle.                                                           *)

MoveTo(from, to) ==
    /\ phase = from
    /\ phase' = to
    /\ UNCHANGED <<kind, committed, rows, pollVars, buffer, flushCh, writerVars, restarts, history>>

\* The application's context, which BeforeStart handed to Consumer.Start, is cancelled.
CancelApp == MoveTo("running", "cancelled")

\* AfterStop: Consumer.Stop cancels the poll context and closes the Kafka client...
CloseClient == MoveTo("cancelled", "clientClosed")

\* Mutant: the writer is stopped without waiting for the poll loop.
StopWriterAtOnce == MoveTo("clientClosed", "writerStopped")

\* ... waits for the poll loop to return, and closes the writer's done channel.
StopWriter == poll = "done" /\ MoveTo("clientClosed", "writerStopped")

\* Consumer.Stop has returned: wire's cleanup closes the ClickHouse connection ...
Cleanup == MoveTo("writerStopped", "cleanedUp")

\* ... and main returns, whatever the flush goroutine is doing.
Exit == MoveTo("cleanedUp", "down")

Crash ==
    /\ "crash" \in Faults
    /\ \E from \in Phases \ {"down"} : MoveTo(from, "down")

\* Mutant: a new process reads the partitions from the beginning.
RestartFromStart ==
    /\ phase = "down"
    /\ restarts < MaxRestarts
    /\ restarts' = restarts + 1
    /\ phase' = "running"
    /\ position' = [p \in Partitions |-> 0]
    /\ cursor' = [p \in Partitions |-> 0]
    /\ poll' = "looping"
    /\ buffer' = {}
    /\ flushCh' = FALSE
    /\ writer' = "select"
    /\ final' = FALSE
    /\ batch' = {}
    /\ UNCHANGED <<kind, committed, rows, history>>

\* A new process: memory is empty, the position of each partition is its committed offset.
Restart ==
    /\ phase = "down"
    /\ restarts < MaxRestarts
    /\ restarts' = restarts + 1
    /\ phase' = "running"
    /\ position' = committed
    /\ cursor' = committed
    /\ poll' = "looping"
    /\ buffer' = {}
    /\ flushCh' = FALSE
    /\ writer' = "select"
    /\ final' = FALSE
    /\ batch' = {}
    /\ UNCHANGED <<kind, committed, rows, history>>

-----------------------------------------------------------------------------
PollStep ==
    \/ Poll
    \/ PollReturns
    \/ SignalFlush
    \/ \E p \in Partitions : Add(p) \/ Reject(p)

WriterStep ==
    \/ OnTick
    \/ OnFlushCh
    \/ OnDone
    \/ Take
    \/ PrepareFails
    \/ Prepare
    \/ AppendFails
    \/ SendFails
    \/ Send
    \/ CommitAll

StopStep == CloseClient \/ StopWriter \/ Cleanup \/ Exit

Next == PollStep \/ WriterStep \/ StopStep \/ CancelApp \/ Crash \/ Restart

Spec == Init /\ [][Next]_vars

\* Both goroutines keep running and a shutdown, once begun, is carried through.  Nothing
\* is assumed of the environment: records need not arrive, nobody need stop or start it.
FairSpec ==
    /\ Spec
    /\ WF_vars(WriterStep)
    /\ WF_vars(PollReturns \/ SignalFlush \/ \E p \in Partitions : Add(p) \/ Reject(p))
    /\ WF_vars(StopStep)

-----------------------------------------------------------------------------
(* Properties.                                                              *)

\* Offsets 0 .. committed-1 of a partition will not be delivered to this group again.
PastCommit(r) == r[2] < committed[r[1]]

\* consumer.go and batch_writer.go, whole path.  A well-formed event below the committed
\* offset was stored, unless it was in a batch that a failed flush threw away or sat
\* unstored in memory when an invalid record behind it was committed: these two are
\* the only ways this code loses an audit event, crashes and shutdowns included.
LossHasTwoCauses ==
    ClickHouseConfigured =>
        \A r \in Records :
            PastCommit(r) /\ kind[r] # "invalid" =>
                rows[r] > 0 \/ r \in dropped \/ r \in overtaken

\* Consumer.handle and commitAll: what is committed was handed to handle before; the
\* records polled but not yet handled are never covered by the committed offset.
CommitBehindCursor == \A p \in Partitions : committed[p] <= cursor[p]

\* BatchWriter.flush: per partition, everything in the batch precedes everything in the
\* buffer, and both precede what is still to be handled, so a batch's highest offset
\* never covers a record that is still waiting in the buffer.
MemoryInLogOrder ==
    /\ \A b \in batch, w \in buffer : b[1] = w[1] => b[2] < w[2]
    /\ \A m \in InMemory : m[2] < cursor[m[1]]

\* One process inserts a record at most once: duplicate rows come from restarts only,
\* not from ticker, flushCh and the final flush taking the same events.
OneRowPerProcess == \A r \in Records : rows[r] <= 1 + restarts

\* BatchWriter.Add: a buffer of batchSize events never waits for the ticker; its token is
\* in flushCh, about to be sent, or the flush goroutine is at the point of taking it.
FullBufferSignalled ==
    Up /\ Cardinality(buffer) >= BatchSize => flushCh \/ poll = "signalling" \/ writer = "take"

\* Consumer.Stop waits for the poll loop before it stops the writer: when the flush
\* goroutine has ended, no event is left behind in the buffer.
NothingAfterFinalFlush == writer = "exited" => buffer = {}

-----------------------------------------------------------------------------
(* AuditPipeline implements AuditLog.                                       *)

\* What has become of a record.  An event behind the committed offset is lost unless the
\* process that has it in memory may still store it; a dropped event that is not behind it yet
\* is delivered again after a restart.
Fate(r) ==
    IF kind[r] = "invalid" THEN "refused"
    ELSE IF rows[r] > 0 THEN "stored"
    ELSE IF PastCommit(r) /\ ~ (Up /\ r \in InMemory) THEN "lost" ELSE "pending"

Log == INSTANCE AuditLog WITH
    Storing <- ClickHouseConfigured,
    fate    <- [r \in Records |-> Fate(r)],
    excused <- dropped \cup overtaken

\* The whole path, restarts included: what becomes of an event is settled once, and an event is
\* lost only with an excuse.  A commit that goes back to a lower offset, in particular, never
\* brings back an event that was lost.
SettlesOnce == Log!Spec

-----------------------------------------------------------------------------
(* The inductive strengthening that AuditPipeline_proofs needs.             *)

\* Between flushes the flush goroutine holds no batch.
NoBatchBetweenFlushes == writer \in {"select", "take", "exited"} => batch = {}

\* Offsets are committed after Send succeeded.
CommitAfterSend == ClickHouseConfigured /\ writer = "commit" => \A r \in batch : rows[r] > 0

\* Where every handled event is: the table, memory, or one of the two losses.
EventsAccountedFor ==
    ClickHouseConfigured =>
        \A r \in Records :
            r[2] < cursor[r[1]] /\ kind[r] # "invalid" =>
                rows[r] > 0 \/ r \in InMemory \/ r \in dropped \/ r \in overtaken

LossInv ==
    /\ \A p \in Partitions : cursor[p] <= position[p]
    /\ CommitBehindCursor
    /\ MemoryInLogOrder
    /\ NoBatchBetweenFlushes
    /\ CommitAfterSend
    /\ EventsAccountedFor
    /\ LossHasTwoCauses

\* What was handled and is not in memory any more precedes what is, so that no commit of a batch
\* goes back behind it.
GoneBeforeMemory ==
    \A r \in Records, m \in InMemory :
        /\ r[1] = m[1] /\ r[2] < cursor[r[1]] /\ kind[r] # "invalid" /\ r \notin InMemory
        => r[2] < m[2]

\* A record this process has not inserted: still to be handled, buffered, or in a batch
\* whose insert has not been tried.
NotYetInserted(r) ==
    \/ r[2] >= cursor[r[1]]
    \/ r \in buffer
    \/ r \in batch /\ writer \in {"prepare", "send"}

RowInv == \A r \in Records : rows[r] <= restarts + (IF NotYetInserted(r) THEN 0 ELSE 1)

\* writer.Stop comes after the poll loop's end, and the final flush after both.
StopInv ==
    /\ phase \in {"writerStopped", "cleanedUp"} => poll = "done"
    /\ final => poll = "done" /\ phase \in {"writerStopped", "cleanedUp", "down"}
    /\ writer = "exited" => final
    /\ final /\ writer \notin {"select", "take"} => buffer = {}

-----------------------------------------------------------------------------
(* Liveness, and what the comments of the code promise.                     *)

\* Start's flush loop: a buffered event does not stay in memory for ever.  It is stored,
\* or thrown away by a failed flush, or the process ends (and it is delivered again).
BufferedIsResolved ==
    \A r \in Records : r \in buffer ~> rows[r] > 0 \/ r \in dropped \/ ~Up

\* Consumer.Stop's wait on done ends: a shutdown that has begun reaches the end.
ShutdownCompletes == phase = "clientClosed" ~> ~Up

\* What flush's comment says, "Ack/Nack their Kafka handles": an event that is not
\* stored is not acknowledged.
UnstoredIsNotAcknowledged ==
    \A r \in Records : PastCommit(r) /\ kind[r] = "event" => rows[r] > 0
=============================================================================
