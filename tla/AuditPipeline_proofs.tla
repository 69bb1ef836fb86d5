------------------------- MODULE AuditPipeline_proofs -------------------------
(***************************************************************************)
(* Proofs about the audit ingestion path, for every number of partitions,  *)
(* every log length, every batch size and every choice of faults.          *)
(***************************************************************************)
EXTENDS AuditPipeline, FiniteSetTheorems, TLAPS

USE ConstantsAssumption

-----------------------------------------------------------------------------
\* Every variable of the ingestion path keeps its type.
THEOREM TypeCorrect == Spec => []TypeOK
<1>1. Init => TypeOK
  <2> SUFFICES ASSUME Init PROVE TypeOK
    OBVIOUS
  <2>1. 0 \in 0 .. LogEnd /\ 0 \in 0 .. MaxRestarts
    OBVIOUS
  <2> QED BY <2>1 DEF Init, TypeOK, Phases
<1>2. TypeOK /\ [Next]_vars => TypeOK'
  <2> SUFFICES ASSUME TypeOK, [Next]_vars PROVE TypeOK'
    OBVIOUS
  <2> USE DEF TypeOK, pollVars, writerVars, history
  <2>1. CASE Poll
    BY <2>1 DEF Poll
  <2>2. CASE PollReturns
    BY <2>2 DEF PollReturns
  <2>3. CASE SignalFlush
    BY <2>3 DEF SignalFlush
  <2>4. ASSUME NEW p \in Partitions, Add(p) PROVE TypeOK'
    <3>1. cursor[p] \in Offsets /\ cursor[p] + 1 \in 0 .. LogEnd
      BY <2>4 DEF Add, Offsets
    <3>2. <<p, cursor[p]>> \in Records
      BY <3>1 DEF Records
    <3> QED BY <2>4, <3>1, <3>2 DEF Add
  <2>5. ASSUME NEW p \in Partitions, Reject(p) PROVE TypeOK'
    <3>1. cursor[p] + 1 \in 0 .. LogEnd
      BY <2>5 DEF Reject
    <3>2. InMemory \subseteq Records
      BY DEF InMemory
    <3> QED BY <2>5, <3>1, <3>2 DEF Reject
  <2>6. CASE OnTick
    BY <2>6 DEF OnTick
  <2>7. CASE OnFlushCh
    BY <2>7 DEF OnFlushCh
  <2>8. CASE OnDone
    BY <2>8 DEF OnDone
  <2>9. CASE Take
    BY <2>9 DEF Take, AfterFlush
  <2>10. RowsAdded \in [Records -> Nat]
    BY DEF RowsAdded
  <2>11. CASE PrepareFails
    BY <2>11 DEF PrepareFails, DropBatch, AfterFlush
  <2>12. CASE Prepare
    BY <2>12 DEF Prepare
  <2>13. CASE AppendFails
    BY <2>13 DEF AppendFails, DropBatch, AfterFlush
  <2>14. CASE SendFails
    BY <2>14, <2>10 DEF SendFails, DropBatch, AfterFlush
  <2>15. CASE Send
    BY <2>15, <2>10 DEF Send
  <2>16. CASE CommitAll
    BY <2>16 DEF CommitAll, AfterFlush
  <2>17. CASE StopStep \/ CancelApp \/ Crash
    BY <2>17 DEF StopStep, CloseClient, StopWriter, Cleanup, Exit, CancelApp, Crash, MoveTo, Phases
  <2>18. CASE Restart
    <3>1. restarts + 1 \in 0 .. MaxRestarts
      BY <2>18 DEF Restart
    <3> QED BY <2>18, <3>1 DEF Restart, Phases
  <2>19. CASE UNCHANGED vars
    BY <2>19 DEF vars
  <2> HIDE DEF TypeOK, pollVars, writerVars, history
  <2> QED
    BY <2>1, <2>2, <2>3, <2>4, <2>5, <2>6, <2>7, <2>8, <2>9, <2>11, <2>12, <2>13, <2>14,
       <2>15, <2>16, <2>17, <2>18, <2>19 DEF Next, PollStep, WriterStep
<1> QED
  BY <1>1, <1>2, PTL DEF Spec
-----------------------------------------------------------------------------
\* A record is the pair of its partition and its offset.
LEMMA RecordShape ==
    ASSUME NEW r \in Records
    PROVE  r[1] \in Partitions /\ r[2] \in Nat /\ r = <<r[1], r[2]>>
BY DEF Records, Offsets

\* A step that leaves the log, the broker, the table and the memory alone (the position
\* may advance) keeps the loss invariant, if it neither starts nor ends a flush.
LEMMA QuietStepKeepsLossInv ==
    ASSUME TypeOK, LossInv,
           UNCHANGED <<kind, committed, rows, cursor, buffer, batch, history>>,
           \A p \in Partitions : cursor[p] <= position'[p],
           writer' \in {"select", "take", "exited"} => batch = {},
           writer' = "commit" => writer = "commit"
    PROVE  LossInv'
BY DEF TypeOK, LossInv, history, CommitBehindCursor, MemoryInLogOrder, NoBatchBetweenFlushes,
       CommitAfterSend, EventsAccountedFor, LossHasTwoCauses, PastCommit, InMemory

\* Throwing a batch away records its unstored events as dropped.
LEMMA DropBatchKeepsLossInv ==
    ASSUME TypeOK, LossInv, DropBatch,
           rows' \in [Records -> Nat],
           \A r \in Records : rows'[r] >= rows[r]
    PROVE  LossInv'
<1> USE DEF DropBatch, TypeOK, InMemory, PastCommit
<1>1. /\ \A p \in Partitions : cursor'[p] <= position'[p]
      /\ CommitBehindCursor'
      /\ MemoryInLogOrder'
      /\ NoBatchBetweenFlushes'
      /\ CommitAfterSend'
  BY DEF LossInv, CommitBehindCursor, MemoryInLogOrder, NoBatchBetweenFlushes, CommitAfterSend,
         AfterFlush, pollVars
<1>2. ASSUME NEW r \in Records PROVE rows[r] > 0 => rows'[r] > 0
  OBVIOUS
<1>3. \A r \in batch : rows'[r] > 0 \/ r \in dropped'
  <2> TAKE r \in batch
  <2> r \in Records /\ rows'[r] \in Nat
    OBVIOUS
  <2> QED OBVIOUS
<1>4. EventsAccountedFor'
  BY <1>2, <1>3 DEF LossInv, EventsAccountedFor, pollVars
<1>5. LossHasTwoCauses'
  BY <1>2 DEF LossInv, LossHasTwoCauses
<1> QED
  BY <1>1, <1>4, <1>5 DEF LossInv

\* The step relation keeps the loss invariant.
LEMMA StepKeepsLossInv ==
    ASSUME TypeOK, TypeOK', LossInv, [Next]_vars
    PROVE  LossInv'
<1>1. CASE Poll \/ PollReturns \/ SignalFlush
  <2>1. \A p \in Partitions : cursor[p] <= position'[p]
    BY <1>1 DEF Poll, PollReturns, SignalFlush, TypeOK, LossInv
  <2> QED
    BY <1>1, <2>1, QuietStepKeepsLossInv
    DEF Poll, PollReturns, SignalFlush, writerVars, history, LossInv, NoBatchBetweenFlushes
<1>2. ASSUME NEW p \in Partitions, Add(p) PROVE LossInv'
  <2> DEFINE r == <<p, cursor[p]>>
  <2> USE <1>2 DEF Add, writerVars, history, TypeOK
  <2>1. r \in Records /\ r[1] = p /\ r[2] = cursor[p]
    BY DEF Records, Offsets
  <2>2. \A q \in Partitions : cursor'[q] = IF q = p THEN cursor[q] + 1 ELSE cursor[q]
    OBVIOUS
  <2>3. /\ \A q \in Partitions : cursor'[q] <= position'[q]
        /\ CommitBehindCursor'
    BY <2>2 DEF LossInv, CommitBehindCursor
  <2>4. MemoryInLogOrder'
    <3>1. \A b \in batch, w \in buffer' : b[1] = w[1] => b[2] < w[2]
      BY <2>1 DEF LossInv, MemoryInLogOrder, InMemory
    <3>2. \A m \in InMemory' : m[2] < cursor'[m[1]]
      BY <2>1, <2>2, RecordShape DEF LossInv, MemoryInLogOrder, InMemory
    <3> QED BY <3>1, <3>2 DEF MemoryInLogOrder
  <2>5. NoBatchBetweenFlushes' /\ CommitAfterSend'
    BY DEF LossInv, NoBatchBetweenFlushes, CommitAfterSend
  <2>6. EventsAccountedFor'
    <3> SUFFICES ASSUME ClickHouseConfigured, NEW x \in Records,
                        x[2] < cursor'[x[1]], kind[x] # "invalid"
                 PROVE  rows[x] > 0 \/ x \in InMemory' \/ x \in dropped \/ x \in overtaken
      BY DEF EventsAccountedFor
    <3>1. CASE x[2] < cursor[x[1]]
      BY <3>1 DEF LossInv, EventsAccountedFor, InMemory
    <3>2. CASE ~(x[2] < cursor[x[1]])
      <4>1. x[1] = p /\ x[2] = cursor[p]
        BY <3>2, <2>2, RecordShape
      <4> QED BY <4>1, RecordShape DEF InMemory
    <3> QED BY <3>1, <3>2
  <2>7. LossHasTwoCauses'
    BY DEF LossInv, LossHasTwoCauses, PastCommit
  <2> QED BY <2>3, <2>4, <2>5, <2>6, <2>7 DEF LossInv
<1>3. ASSUME NEW p \in Partitions, Reject(p) PROVE LossInv'
  <2> DEFINE r == <<p, cursor[p]>>
  <2> USE <1>3 DEF Reject, writerVars, TypeOK, InMemory
  <2>1. r \in Records /\ r[1] = p /\ r[2] = cursor[p]
    BY DEF Records, Offsets
  <2>2. \A q \in Partitions : cursor'[q] = IF q = p THEN cursor[q] + 1 ELSE cursor[q]
    OBVIOUS
  <2>3. \A q \in Partitions : committed'[q] = committed[q] \/ (q = p /\ committed'[q] = cursor'[q])
    BY <2>2
  <2>4. /\ \A q \in Partitions : cursor'[q] <= position'[q]
        /\ CommitBehindCursor'
    BY <2>2, <2>3 DEF LossInv, CommitBehindCursor
  <2>5. MemoryInLogOrder' /\ NoBatchBetweenFlushes' /\ CommitAfterSend'
    BY <2>2, RecordShape DEF LossInv, MemoryInLogOrder, NoBatchBetweenFlushes, CommitAfterSend
  <2>6. EventsAccountedFor'
    <3> SUFFICES ASSUME ClickHouseConfigured, NEW x \in Records,
                        x[2] < cursor'[x[1]], kind[x] # "invalid"
                 PROVE  rows[x] > 0 \/ x \in InMemory \/ x \in dropped \/ x \in overtaken'
      BY DEF EventsAccountedFor
    <3>1. x # r
      OBVIOUS
    <3>2. x[2] < cursor[x[1]]
      BY <3>1, <2>1, <2>2, RecordShape
    <3> QED BY <3>2 DEF LossInv, EventsAccountedFor
  <2>7. LossHasTwoCauses'
    <3> SUFFICES ASSUME ClickHouseConfigured, NEW x \in Records,
                        x[2] < committed'[x[1]], kind[x] # "invalid"
                 PROVE  rows[x] > 0 \/ x \in dropped \/ x \in overtaken'
      BY DEF LossHasTwoCauses, PastCommit
    <3>1. CASE x[2] < committed[x[1]]
      BY <3>1 DEF LossInv, LossHasTwoCauses, PastCommit
    <3>2. CASE ~(x[2] < committed[x[1]])
      <4>1. x[1] = p /\ committed' # committed /\ x[2] < cursor'[p]
        BY <3>2, <2>3, RecordShape
      <4>2. overtaken' = overtaken \cup {m \in InMemory : m[1] = p /\ rows[m] = 0}
        BY <4>1
      <4>3. x # r
        OBVIOUS
      <4>4. x[2] < cursor[x[1]]
        BY <4>1, <4>3, <2>1, <2>2, RecordShape
      <4>5. rows[x] > 0 \/ x \in InMemory \/ x \in dropped \/ x \in overtaken
        BY <4>4 DEF LossInv, EventsAccountedFor
      <4> QED BY <4>1, <4>2, <4>5
    <3> QED BY <3>1, <3>2
  <2> QED BY <2>4, <2>5, <2>6, <2>7 DEF LossInv
<1>4. CASE OnTick \/ OnFlushCh \/ OnDone
  BY <1>4, QuietStepKeepsLossInv
  DEF OnTick, OnFlushCh, OnDone, pollVars, history, LossInv, NoBatchBetweenFlushes
<1>5. CASE Take
  <2> USE <1>5 DEF Take, pollVars, history
  <2>1. batch = {}
    BY DEF LossInv, NoBatchBetweenFlushes
  <2>2. InMemory' = InMemory
    BY <2>1 DEF InMemory
  <2>3. /\ \A p \in Partitions : cursor'[p] <= position'[p]
        /\ CommitBehindCursor'
        /\ MemoryInLogOrder'
        /\ EventsAccountedFor'
        /\ LossHasTwoCauses'
    BY <2>2 DEF LossInv, CommitBehindCursor, MemoryInLogOrder, EventsAccountedFor,
                LossHasTwoCauses, PastCommit
  <2>4. NoBatchBetweenFlushes' /\ CommitAfterSend'
    BY DEF NoBatchBetweenFlushes, CommitAfterSend, AfterFlush
  <2> QED BY <2>3, <2>4 DEF LossInv
<1>6. CASE PrepareFails \/ AppendFails
  BY <1>6, DropBatchKeepsLossInv DEF PrepareFails, AppendFails, TypeOK
<1>7. RowsAdded \in [Records -> Nat] /\ \A r \in Records : RowsAdded[r] >= rows[r]
  BY DEF RowsAdded, TypeOK
<1>8. CASE SendFails
  BY <1>8, <1>7, DropBatchKeepsLossInv DEF SendFails, TypeOK
<1>9. CASE Prepare
  BY <1>9, QuietStepKeepsLossInv DEF Prepare, pollVars, history, LossInv
<1>10. CASE Send
  <2> USE <1>10 DEF Send, pollVars, history, TypeOK
  <2>1. \A r \in batch : rows'[r] > 0
    BY DEF RowsAdded
  <2>2. \A r \in Records : rows[r] > 0 => rows'[r] > 0
    BY <1>7
  <2>3. \A p \in Partitions : cursor'[p] <= position'[p]
    BY DEF LossInv
  <2>4. CommitBehindCursor' /\ MemoryInLogOrder' /\ NoBatchBetweenFlushes'
    BY DEF LossInv, CommitBehindCursor, MemoryInLogOrder, NoBatchBetweenFlushes, InMemory
  <2>5. CommitAfterSend'
    BY <2>1 DEF CommitAfterSend
  <2>6. EventsAccountedFor' /\ LossHasTwoCauses'
    BY <2>2 DEF LossInv, EventsAccountedFor, LossHasTwoCauses, PastCommit, InMemory
  <2> QED BY <2>3, <2>4, <2>5, <2>6 DEF LossInv
<1>11. CASE CommitAll
  <2> USE <1>11 DEF CommitAll, pollVars, history, TypeOK, InMemory
  <2>1. /\ \A p \in Partitions : cursor'[p] <= position'[p]
        /\ MemoryInLogOrder'
        /\ NoBatchBetweenFlushes'
        /\ CommitAfterSend'
    BY DEF LossInv, MemoryInLogOrder, NoBatchBetweenFlushes, CommitAfterSend, AfterFlush
  <2>2. ASSUME NEW p \in Partitions
        PROVE  \/ committed'[p] = committed[p]
               \/ \E top \in batch : top[1] = p /\ committed'[p] = top[2] + 1
    BY DEF BatchCommit
  <2>3. CommitBehindCursor'
    <3> SUFFICES ASSUME NEW p \in Partitions PROVE committed'[p] <= cursor[p]
      BY DEF CommitBehindCursor
    <3>1. CASE committed'[p] = committed[p]
      BY <3>1 DEF LossInv, CommitBehindCursor
    <3>2. CASE \E top \in batch : top[1] = p /\ committed'[p] = top[2] + 1
      BY <3>2, RecordShape DEF LossInv, MemoryInLogOrder
    <3> QED BY <2>2, <3>1, <3>2
  <2>4. EventsAccountedFor'
    BY DEF LossInv, EventsAccountedFor, CommitAfterSend
  <2>5. LossHasTwoCauses'
    <3> SUFFICES ASSUME ClickHouseConfigured, NEW x \in Records,
                        x[2] < committed'[x[1]], kind[x] # "invalid"
                 PROVE  rows[x] > 0 \/ x \in dropped \/ x \in overtaken
      BY DEF LossHasTwoCauses, PastCommit
    <3> x[1] \in Partitions
      BY RecordShape
    <3>1. CASE committed'[x[1]] = committed[x[1]]
      BY <3>1 DEF LossInv, LossHasTwoCauses, PastCommit
    <3>2. CASE \E top \in batch : top[1] = x[1] /\ committed'[x[1]] = top[2] + 1
      <4> PICK top \in batch : top[1] = x[1] /\ committed'[x[1]] = top[2] + 1
        BY <3>2
      <4> top \in Records /\ top[2] \in Nat /\ x[2] \in Nat /\ cursor[x[1]] \in Nat
        BY RecordShape
      <4>1. x[2] <= top[2] /\ top[2] < cursor[x[1]]
        BY DEF LossInv, MemoryInLogOrder
      <4>2. x \notin buffer
        BY <4>1 DEF LossInv, MemoryInLogOrder
      <4>3. rows[x] > 0 \/ x \in InMemory \/ x \in dropped \/ x \in overtaken
        BY <4>1 DEF LossInv, EventsAccountedFor
      <4> QED BY <4>2, <4>3 DEF LossInv, CommitAfterSend
    <3> QED BY <2>2, <3>1, <3>2
  <2> QED BY <2>1, <2>3, <2>4, <2>5 DEF LossInv
<1>12. CASE StopStep \/ CancelApp \/ Crash
  BY <1>12, QuietStepKeepsLossInv
  DEF StopStep, CloseClient, StopWriter, Cleanup, Exit, CancelApp, Crash, MoveTo, pollVars,
      writerVars, history, LossInv, NoBatchBetweenFlushes
<1>13. CASE Restart
  <2> USE <1>13 DEF Restart, history, TypeOK
  <2>1. /\ \A p \in Partitions : cursor'[p] <= position'[p]
        /\ CommitBehindCursor'
        /\ MemoryInLogOrder'
        /\ NoBatchBetweenFlushes'
        /\ CommitAfterSend'
    BY DEF CommitBehindCursor, MemoryInLogOrder, NoBatchBetweenFlushes, CommitAfterSend, InMemory
  <2>2. LossHasTwoCauses' /\ EventsAccountedFor'
    BY DEF LossInv, LossHasTwoCauses, EventsAccountedFor, PastCommit
  <2> QED BY <2>1, <2>2 DEF LossInv
<1>14. CASE UNCHANGED vars
  BY <1>14, QuietStepKeepsLossInv
  DEF vars, pollVars, writerVars, history, LossInv, NoBatchBetweenFlushes
<1> QED
  BY <1>1, <1>2, <1>3, <1>4, <1>5, <1>6, <1>8, <1>9, <1>10, <1>11, <1>12, <1>13, <1>14
  DEF Next, PollStep, WriterStep

\* The loss invariant holds initially: nothing was handled, committed or buffered.
LEMMA InitLossInv == Init => LossInv
BY RecordShape
DEF Init, LossInv, CommitBehindCursor, MemoryInLogOrder, NoBatchBetweenFlushes, CommitAfterSend,
    EventsAccountedFor, LossHasTwoCauses, PastCommit, InMemory

\* The whole strengthening is an invariant.
THEOREM LossInvariant == Spec => []LossInv
<1>1. TypeOK /\ TypeOK' /\ LossInv /\ [Next]_vars => LossInv'
  BY StepKeepsLossInv
<1> QED
  BY <1>1, InitLossInv, TypeCorrect, PTL DEF Spec

\* consumer.go and batch_writer.go: whatever crashes, shutdowns and outages happen, an
\* audit event below the committed offset is stored, or fell in one of the two gaps.
THEOREM LossOnlyByTwoCauses == Spec => []LossHasTwoCauses
BY LossInvariant, PTL DEF LossInv

\* The committed offset never covers a record that was polled but not handled.
THEOREM CommittedWasHandled == Spec => []CommitBehindCursor
BY LossInvariant, PTL DEF LossInv

\* A batch precedes the buffer and both precede the cursor, in every partition.
THEOREM MemoryOrdered == Spec => []MemoryInLogOrder
BY LossInvariant, PTL DEF LossInv

-----------------------------------------------------------------------------
\* The step relation keeps the count of rows per record within the number of processes.
LEMMA StepKeepsRowInv ==
    ASSUME TypeOK, TypeOK', LossInv, RowInv, [Next]_vars
    PROVE  RowInv'
<1> USE DEF TypeOK
<1>1. ASSUME UNCHANGED <<rows, restarts, cursor, buffer, batch>>,
             writer' \in {"prepare", "send"} => batch = {} \/ writer \in {"prepare", "send"}
      PROVE  RowInv'
  BY <1>1 DEF RowInv, NotYetInserted
<1>2. CASE Poll \/ PollReturns \/ SignalFlush
  BY <1>1, <1>2 DEF Poll, PollReturns, SignalFlush, writerVars
<1>3. ASSUME NEW p \in Partitions, Add(p) \/ Reject(p) PROVE RowInv'
  <2> USE <1>3 DEF Add, Reject, writerVars
  <2>1. \A q \in Partitions : cursor'[q] = IF q = p THEN cursor[q] + 1 ELSE cursor[q]
    OBVIOUS
  <2>2. buffer' = buffer \/ buffer' = buffer \cup {<<p, cursor[p]>>}
    OBVIOUS
  <2>3. ASSUME NEW r \in Records, NotYetInserted(r)' PROVE NotYetInserted(r)
    BY <2>1, <2>2, <2>3, RecordShape DEF NotYetInserted
  <2>4. rows' = rows /\ restarts' = restarts
    OBVIOUS
  <2> QED BY <2>3, <2>4 DEF RowInv
<1>4. CASE OnTick \/ OnFlushCh \/ OnDone \/ Prepare
  BY <1>1, <1>4 DEF OnTick, OnFlushCh, OnDone, Prepare, pollVars
<1>5. CASE Take
  <2>1. batch = {}
    BY <1>5 DEF Take, LossInv, NoBatchBetweenFlushes
  <2> QED BY <1>5, <2>1 DEF Take, pollVars, RowInv, NotYetInserted
<1>6. ASSUME NEW r \in Records, r \in batch, writer = "send"
      PROVE  r \notin buffer /\ ~(r[2] >= cursor[r[1]]) /\ NotYetInserted(r)
  BY <1>6, RecordShape DEF LossInv, MemoryInLogOrder, InMemory, NotYetInserted
<1>7. ASSUME writer = "send", batch' = {} \/ batch' = batch, writer' \notin {"prepare", "send"},
             rows' = rows \/ rows' = RowsAdded, UNCHANGED <<restarts, cursor, buffer>>
      PROVE  RowInv'
  <2> SUFFICES ASSUME NEW r \in Records
               PROVE  rows'[r] <= restarts + (IF NotYetInserted(r)' THEN 0 ELSE 1)
    BY <1>7 DEF RowInv
  <2>1. NotYetInserted(r)' => NotYetInserted(r) /\ r \notin batch
    BY <1>6, <1>7 DEF NotYetInserted
  <2>2. rows[r] <= restarts + (IF NotYetInserted(r) THEN 0 ELSE 1)
    BY DEF RowInv
  <2>3. r \in batch => rows[r] <= restarts
    BY <2>2, <1>6, <1>7
  <2>4. rows'[r] = rows[r] \/ (r \in batch /\ rows'[r] = rows[r] + 1)
    BY <1>7 DEF RowsAdded
  <2> QED BY <2>1, <2>2, <2>3, <2>4
<1>8. CASE PrepareFails
  BY <1>8 DEF PrepareFails, DropBatch, pollVars, AfterFlush, RowInv, NotYetInserted
<1>9. CASE AppendFails \/ SendFails \/ Send
  BY <1>7, <1>9 DEF AppendFails, SendFails, Send, DropBatch, pollVars, AfterFlush
<1>10. CASE CommitAll
  BY <1>10 DEF CommitAll, pollVars, AfterFlush, RowInv, NotYetInserted
<1>11. CASE StopStep \/ CancelApp \/ Crash
  BY <1>1, <1>11
  DEF StopStep, CloseClient, StopWriter, Cleanup, Exit, CancelApp, Crash, MoveTo, pollVars, writerVars
<1>12. CASE Restart
  <2>1. rows' = rows /\ restarts' = restarts + 1
    BY <1>12 DEF Restart
  <2> QED BY <2>1 DEF RowInv
<1>13. CASE UNCHANGED vars
  BY <1>1, <1>13 DEF vars, pollVars, writerVars
<1> HIDE DEF TypeOK
<1> QED
  BY <1>2, <1>3, <1>4, <1>5, <1>8, <1>9, <1>10, <1>11, <1>12, <1>13 DEF Next, PollStep, WriterStep

\* BatchWriter: within one process an event is inserted at most once; duplicate rows of
\* an event are bounded by the number of processes that consumed it.
THEOREM OneRowPerProcessHolds == Spec => []OneRowPerProcess
<1>1. Init => RowInv
  BY DEF Init, RowInv
<1>2. TypeOK /\ TypeOK' /\ LossInv /\ RowInv /\ [Next]_vars => RowInv'
  BY StepKeepsRowInv
<1>3. TypeOK /\ RowInv => OneRowPerProcess
  BY DEF TypeOK, RowInv, OneRowPerProcess
<1> QED
  BY <1>1, <1>2, <1>3, TypeCorrect, LossInvariant, PTL DEF Spec

-----------------------------------------------------------------------------
\* The step relation keeps the order of a shutdown: poll loop, then writer, then final flush.
LEMMA StepKeepsStopInv ==
    ASSUME StopInv, [Next]_vars
    PROVE  StopInv'
<1>1. CASE PollStep
  <2>1. UNCHANGED <<phase, writer, final>> /\ poll # "done"
    BY <1>1 DEF PollStep, Poll, PollReturns, SignalFlush, Add, Reject, writerVars
  <2> QED BY <2>1 DEF StopInv
<1>2. CASE OnTick \/ OnFlushCh \/ OnDone
  BY <1>2 DEF OnTick, OnFlushCh, OnDone, Up, StopInv, pollVars
<1>3. CASE Take
  BY <1>3 DEF Take, AfterFlush, Up, StopInv, pollVars
<1>4. CASE PrepareFails \/ AppendFails \/ SendFails
  BY <1>4 DEF PrepareFails, AppendFails, SendFails, DropBatch, AfterFlush, StopInv, pollVars
<1>5. CASE Prepare \/ Send \/ CommitAll
  BY <1>5 DEF Prepare, Send, CommitAll, AfterFlush, StopInv, pollVars
<1>6. CASE StopStep \/ CancelApp \/ Crash
  BY <1>6 DEF StopStep, CloseClient, StopWriter, Cleanup, Exit, CancelApp, Crash, MoveTo, Phases,
              StopInv, pollVars, writerVars
<1>7. CASE Restart
  BY <1>7 DEF Restart, StopInv
<1>8. CASE UNCHANGED vars
  BY <1>8 DEF vars, pollVars, writerVars, StopInv
<1> QED
  BY <1>1, <1>2, <1>3, <1>4, <1>5, <1>6, <1>7, <1>8 DEF Next, WriterStep

\* Consumer.Stop stops the writer after the poll loop: no event reaches the buffer once
\* the final flush has taken it.
THEOREM NothingAfterFinalFlushHolds == Spec => []NothingAfterFinalFlush
<1>1. Init => StopInv
  BY DEF Init, StopInv
<1>2. StopInv /\ [Next]_vars => StopInv'
  BY StepKeepsStopInv
<1>3. StopInv => NothingAfterFinalFlush
  BY DEF StopInv, NothingAfterFinalFlush
<1> QED
  BY <1>1, <1>2, <1>3, PTL DEF Spec

-----------------------------------------------------------------------------
\* A full buffer is signalled by the Add that fills it, and only Take, which empties it, comes
\* between the flush goroutine's receiving the signal and its being back in the select.
LEMMA StepKeepsSignalled ==
    TypeOK /\ FullBufferSignalled /\ [Next]_vars => FullBufferSignalled'
<1> SUFFICES ASSUME TypeOK, FullBufferSignalled, [Next]_vars
             PROVE  FullBufferSignalled'
  OBVIOUS
<1> USE DEF FullBufferSignalled, pollVars, writerVars, history
<1>1. buffer' = {} => FullBufferSignalled'
  BY FS_EmptySet
<1>2. ASSUME NEW p \in Partitions, Add(p) PROVE FullBufferSignalled'
  BY <1>2 DEF Add
<1>3. CASE Poll \/ PollReturns \/ SignalFlush \/ \E p \in Partitions : Reject(p)
  BY <1>3 DEF Poll, PollReturns, SignalFlush, Reject, Up
<1>4. CASE OnTick \/ OnFlushCh \/ OnDone
  BY <1>4 DEF OnTick, OnFlushCh, OnDone
<1>5. CASE Take \/ Restart
  BY <1>1, <1>5 DEF Take, Restart
<1>6. CASE PrepareFails \/ Prepare \/ AppendFails \/ SendFails \/ Send \/ CommitAll
  BY <1>6 DEF PrepareFails, Prepare, AppendFails, SendFails, Send, CommitAll, DropBatch, Up
<1>7. CASE StopStep \/ CancelApp \/ Crash
  BY <1>7 DEF StopStep, CloseClient, StopWriter, Cleanup, Exit, CancelApp, Crash, MoveTo, Up, Phases
<1>8. CASE UNCHANGED vars
  BY <1>8 DEF vars, Up
<1> QED BY <1>2, <1>3, <1>4, <1>5, <1>6, <1>7, <1>8 DEF Next, PollStep, WriterStep

\* BatchWriter.Add: a full buffer never waits for the ticker.
THEOREM FullBufferIsSignalled == Spec => []FullBufferSignalled
<1>1. Init => FullBufferSignalled
  BY FS_EmptySet DEF Init, FullBufferSignalled
<1> QED BY <1>1, TypeCorrect, StepKeepsSignalled, PTL DEF Spec

-----------------------------------------------------------------------------
(* AuditPipeline implements AuditLog.                                       *)

\* What the steps do to what an event's fate depends on: nothing, but perhaps end the process,
Quiet == UNCHANGED <<rows, committed, cursor, buffer, batch>> /\ (Up' => Up)

\* insert the batch and keep it or let go of it,
Inserts ==
    /\ Up
    /\ rows' = RowsAdded
    /\ batch' \in {batch, {}}
    /\ UNCHANGED <<committed, cursor, buffer, phase>>

\* or only let go of it.
Drops == batch' = {} /\ UNCHANGED <<rows, committed, cursor, buffer, phase>>

\* Every step is one of these, or handles a record, takes the buffer, commits or restarts.
LEMMA Effects ==
    ASSUME [Next]_vars
    PROVE  /\ kind' = kind
           /\ dropped \subseteq dropped' /\ overtaken \subseteq overtaken'
           /\ \/ Quiet \/ Inserts \/ Drops
              \/ \E p \in Partitions : Add(p) \/ Reject(p)
              \/ Take \/ CommitAll \/ Restart
<1>. USE DEF pollVars, writerVars, history
<1>1. CASE Poll \/ PollReturns \/ SignalFlush \/ OnTick \/ OnFlushCh \/ OnDone \/ Prepare
  BY <1>1 DEF Poll, PollReturns, SignalFlush, OnTick, OnFlushCh, OnDone, Prepare, Quiet, Up
<1>2. ASSUME NEW p \in Partitions, Add(p) \/ Reject(p)
      PROVE  kind' = kind /\ dropped' = dropped /\ overtaken \subseteq overtaken'
  BY <1>2 DEF Add, Reject
<1>3. CASE Take \/ CommitAll \/ Restart
  BY <1>3 DEF Take, CommitAll, Restart
<1>4. CASE PrepareFails \/ AppendFails
  BY <1>4 DEF PrepareFails, AppendFails, DropBatch, Drops
<1>5. CASE SendFails
  BY <1>5 DEF SendFails, DropBatch, Drops, Inserts
<1>6. CASE Send
  BY <1>6 DEF Send, Inserts
<1>7. CASE StopStep \/ CancelApp \/ Crash
  BY <1>7 DEF StopStep, CloseClient, StopWriter, Cleanup, Exit, CancelApp, Crash, MoveTo, Quiet, Up, Phases
<1>8. CASE UNCHANGED vars
  BY <1>8 DEF vars, Quiet, Up
<1>. QED
  BY <1>1, <1>2, <1>3, <1>4, <1>5, <1>6, <1>7, <1>8 DEF Next, PollStep, WriterStep

\* The order of what is gone and what is in memory is kept.
LEMMA StepKeepsGone ==
    ASSUME TypeOK, LossInv, GoneBeforeMemory, [Next]_vars
    PROVE  GoneBeforeMemory'
<1>. SUFFICES ASSUME NEW r \in Records, NEW m \in InMemory', r[1] = m[1],
                     r[2] < cursor'[r[1]], kind[r] # "invalid", r \notin InMemory'
              PROVE  r[2] < m[2]
  BY Effects DEF GoneBeforeMemory
<1>. USE DEF InMemory
<1>1. /\ batch \subseteq Records /\ buffer \subseteq Records
      /\ cursor \in [Partitions -> 0 .. LogEnd]
  BY DEF TypeOK
<1>2. /\ r[1] \in Partitions /\ r[2] \in Nat /\ r = <<r[1], r[2]>> /\ cursor[r[1]] \in Nat
      /\ \A q \in InMemory : q[2] \in Nat /\ q[2] < cursor[q[1]]
      /\ \A b \in batch, w \in buffer : b[1] = w[1] => b[2] < w[2]
  BY <1>1, RecordShape DEF LossInv, MemoryInLogOrder
<1>3. ASSUME m \in InMemory, r[2] < cursor[r[1]], r \notin InMemory PROVE r[2] < m[2]
  BY <1>3 DEF GoneBeforeMemory
<1>4. ASSUME cursor' = cursor, buffer' = buffer, batch' \in {batch, {}}
      PROVE  r[2] < m[2]
  <2>1. CASE r \in batch
    BY <1>2, <1>4, <2>1
  <2>2. CASE r \notin batch
    BY <1>3, <1>4, <2>2
  <2>. QED  BY <2>1, <2>2
<1>5. CASE Quiet \/ Inserts \/ Drops \/ CommitAll
  BY <1>4, <1>5 DEF Quiet, Inserts, Drops, CommitAll, pollVars
<1>6. ASSUME NEW p \in Partitions, Add(p) PROVE r[2] < m[2]
  <2>1. /\ buffer' = buffer \cup {<<p, cursor[p]>>} /\ batch' = batch
        /\ cursor' = [cursor EXCEPT ![p] = @ + 1]
    BY <1>6 DEF Add, writerVars
  <2>2. r # <<p, cursor[p]>> /\ r \notin InMemory
    BY <2>1
  <2>3. r[2] < cursor[r[1]]
    BY <1>1, <1>2, <2>1, <2>2
  <2>4. CASE m \in InMemory
    BY <1>3, <2>2, <2>3, <2>4
  <2>5. CASE m = <<p, cursor[p]>>
    BY <2>3, <2>5
  <2>. QED  BY <2>1, <2>4, <2>5
<1>7. ASSUME NEW p \in Partitions, Reject(p) PROVE r[2] < m[2]
  <2>1. /\ buffer' = buffer /\ batch' = batch /\ kind[<<p, cursor[p]>>] = "invalid"
        /\ cursor' = [cursor EXCEPT ![p] = @ + 1]
    BY <1>7 DEF Reject, writerVars
  <2>2. r # <<p, cursor[p]>>
    BY <2>1
  <2>3. r[2] < cursor[r[1]]
    BY <1>1, <1>2, <2>1, <2>2
  <2>. QED  BY <1>3, <2>1, <2>3
<1>8. CASE Take
  <2>1. batch = {} /\ batch' = buffer /\ buffer' = {} /\ cursor' = cursor
    BY <1>8 DEF Take, LossInv, NoBatchBetweenFlushes, pollVars
  <2>. QED  BY <1>3, <2>1
<1>9. CASE Restart
  BY <1>9 DEF Restart
<1>. QED  BY <1>5, <1>6, <1>7, <1>8, <1>9, Effects

\* A record's fate, spelled out.
LEMMA FateCases ==
    ASSUME TypeOK, NEW r \in Records
    PROVE  /\ Fate(r) \in {"refused", "stored", "lost", "pending"}
           /\ Fate(r) = "refused" <=> kind[r] = "invalid"
           /\ Fate(r) = "stored" <=> kind[r] # "invalid" /\ rows[r] > 0
           /\ Fate(r) = "lost" <=> /\ kind[r] # "invalid" /\ rows[r] = 0 /\ PastCommit(r)
                                  /\ ~ (Up /\ r \in InMemory)
<1>1. rows[r] \in Nat
  BY DEF TypeOK
<1>. QED  BY <1>1 DEF Fate

\* The same of the state after a step.
LEMMA FateCasesNext ==
    ASSUME TypeOK', NEW r \in Records
    PROVE  /\ Fate(r)' \in {"refused", "stored", "lost", "pending"}
           /\ Fate(r)' = "refused" <=> kind'[r] = "invalid"
           /\ Fate(r)' = "stored" <=> kind'[r] # "invalid" /\ rows'[r] > 0
           /\ Fate(r)' = "lost" <=> /\ kind'[r] # "invalid" /\ rows'[r] = 0 /\ PastCommit(r)'
                                    /\ ~ (Up' /\ r \in InMemory')
<1>1. rows'[r] \in Nat
  BY DEF TypeOK
<1>. QED  BY <1>1 DEF Fate

\* Rows only come, and a step that brings some leaves nothing lost that was pending.
LEMMA RowsOrLosses ==
    ASSUME TypeOK, TypeOK', LossInv, [Next]_vars
    PROVE  /\ \A r \in Records : rows[r] > 0 => rows'[r] > 0
           /\ \/ rows' = rows
              \/ \A r \in Records : Fate(r) = "pending" => Fate(r)' # "lost"
<1>1. ASSUME Inserts, NEW r \in Records
      PROVE  /\ rows[r] > 0 => rows'[r] > 0
             /\ Fate(r) = "pending" => Fate(r)' # "lost"
  <2>1. rows[r] \in Nat /\ rows'[r] = IF r \in batch THEN rows[r] + 1 ELSE rows[r]
    BY <1>1 DEF Inserts, RowsAdded, TypeOK
  <2>2. ASSUME Fate(r) = "pending", Fate(r)' = "lost" PROVE FALSE
    <3>1. kind'[r] # "invalid" /\ rows'[r] = 0 /\ PastCommit(r)' /\ ~ (Up' /\ r \in InMemory')
      BY <2>2, FateCasesNext
    <3>2. kind[r] # "invalid" /\ ~ (rows[r] > 0)
      BY <2>1, <2>2, FateCases
    <3>3. PastCommit(r) /\ Up /\ Up'
      BY <1>1, <3>1 DEF Inserts, PastCommit, Up
    <3>4. r \in InMemory
      BY <2>1, <2>2, <3>2, <3>3, FateCases
    <3>5. r \notin batch
      BY <2>1, <3>1
    <3>6. r \in InMemory'
      BY <1>1, <3>4, <3>5 DEF Inserts, InMemory
    <3>. QED  BY <3>1, <3>3, <3>6
  <2>. QED  BY <2>1, <2>2
<1>2. rows' = rows \/ Inserts
  BY Effects DEF Quiet, Drops, Add, Reject, Take, CommitAll, Restart
<1>. QED  BY <1>1, <1>2

\* A lost event stays lost: no commit, no step of a flush and no new process brings it back.
LEMMA LostStaysLost ==
    ASSUME TypeOK, TypeOK', LossInv, GoneBeforeMemory, [Next]_vars, NEW r \in Records, Fate(r) = "lost"
    PROVE  Fate(r)' = "lost"
<1>1. /\ kind[r] # "invalid" /\ rows[r] = 0 /\ r[2] < committed[r[1]]
      /\ ~ (Up /\ r \in InMemory)
  BY FateCases DEF PastCommit
<1>2. /\ r[1] \in Partitions /\ r[2] \in Nat /\ committed \in [Partitions -> 0 .. LogEnd]
      /\ cursor \in [Partitions -> 0 .. LogEnd] /\ committed[r[1]] <= cursor[r[1]]
      /\ batch \subseteq Records /\ buffer \subseteq Records
  BY RecordShape DEF TypeOK, LossInv, CommitBehindCursor
<1>3. r[2] < cursor[r[1]]
  BY <1>1, <1>2
<1>4. kind' = kind
  BY Effects
<1>5. SUFFICES rows'[r] = 0 /\ r[2] < committed'[r[1]] /\ ~ (Up' /\ r \in InMemory')
  BY <1>1, <1>4, FateCasesNext DEF PastCommit
<1>6. CASE Quiet \/ Drops
  BY <1>1, <1>6 DEF Quiet, Drops, InMemory, Up
<1>7. CASE Inserts
  <2>1. r \notin batch
    BY <1>1, <1>7 DEF Inserts, InMemory
  <2>. QED  BY <1>1, <1>7, <2>1 DEF Inserts, RowsAdded, InMemory, Up
<1>8. ASSUME NEW p \in Partitions, Add(p) PROVE rows'[r] = 0 /\ r[2] < committed'[r[1]] /\ ~ (Up' /\ r \in InMemory')
  <2>1. /\ buffer' = buffer \cup {<<p, cursor[p]>>} /\ batch' = batch
        /\ UNCHANGED <<rows, committed, phase>>
    BY <1>8 DEF Add, writerVars
  <2>2. r # <<p, cursor[p]>>
    <3>1. cursor[p] \in Nat /\ (r[1] = p => r[2] < cursor[p])
      BY <1>2, <1>3
    <3>. QED  BY <1>2, <3>1
  <2>. QED  BY <1>1, <2>1, <2>2 DEF InMemory, Up
<1>9. ASSUME NEW p \in Partitions, Reject(p) PROVE rows'[r] = 0 /\ r[2] < committed'[r[1]] /\ ~ (Up' /\ r \in InMemory')
  <2>1. UNCHANGED <<rows, buffer, batch, phase>>
    BY <1>9 DEF Reject, writerVars
  <2>2. committed' = committed \/ committed' = [committed EXCEPT ![p] = cursor[p] + 1]
    BY <1>9 DEF Reject
  <2>3. r[2] < committed'[r[1]]
    BY <1>1, <1>2, <1>3, <2>2
  <2>. QED  BY <1>1, <2>1, <2>3 DEF InMemory, Up
<1>10. CASE Take
  BY <1>1, <1>10 DEF Take, InMemory, Up, pollVars
<1>11. CASE CommitAll
  <2>1. /\ Up /\ rows' = rows /\ buffer' = buffer /\ batch' = {} /\ phase' = phase
    BY <1>11 DEF CommitAll
  <2>2. committed'[r[1]] = committed[r[1]] \/ \E top \in batch : top[1] = r[1] /\ committed'[r[1]] = top[2] + 1
    BY <1>2, <1>11 DEF CommitAll, BatchCommit
  <2>3. ASSUME NEW top \in batch, top[1] = r[1] PROVE r[2] < top[2] /\ top[2] \in Nat
    <3>1. top \in InMemory /\ r \notin InMemory
      BY <1>1, <2>1 DEF InMemory
    <3>. QED  BY <1>1, <1>2, <1>3, <2>3, <3>1, RecordShape DEF GoneBeforeMemory
  <2>4. r[2] < committed'[r[1]]
    BY <1>1, <1>2, <2>2, <2>3
  <2>. QED  BY <1>1, <2>1, <2>4 DEF InMemory, Up
<1>12. CASE Restart
  BY <1>1, <1>12 DEF Restart, InMemory
<1>. QED  BY <1>6, <1>7, <1>8, <1>9, <1>10, <1>11, <1>12, Effects

\* Each step settles the fate of some records one way, or of none.
LEMMA StepIsLogStep ==
    ASSUME TypeOK, TypeOK', LossInv, LossInv', GoneBeforeMemory, [Next]_vars
    PROVE  Log!Next
<1>. DEFINE fate == [r \in Records |-> Fate(r)]
            stored == {r \in Records : Fate(r) = "pending" /\ Fate(r)' = "stored"}
            lost == {r \in Records : Fate(r) = "pending" /\ Fate(r)' = "lost"}
<1>1. kind' = kind /\ dropped \cup overtaken \subseteq dropped' \cup overtaken'
  BY Effects
<1>2. ASSUME NEW r \in Records
      PROVE  \/ Fate(r)' = Fate(r)
             \/ r \in stored /\ Fate(r)' = "stored"
             \/ r \in lost /\ Fate(r)' = "lost"
  <2>1. CASE Fate(r) = "refused"
    BY <1>1, <2>1, FateCases, FateCasesNext
  <2>2. CASE Fate(r) = "stored"
    BY <1>1, <2>2, FateCases, FateCasesNext, RowsOrLosses
  <2>3. CASE Fate(r) = "lost"
    BY <2>3, LostStaysLost
  <2>4. CASE Fate(r) = "pending"
    <3>1. Fate(r)' # "refused"
      BY <1>1, <2>4, FateCases, FateCasesNext
    <3>2. Fate(r)' \in {"refused", "stored", "lost", "pending"}
      BY FateCasesNext
    <3>. QED  BY <2>4, <3>1, <3>2
  <2>. QED  BY <2>1, <2>2, <2>3, <2>4, FateCases, FateCasesNext
<1>3. stored = {} \/ lost = {}
  <2>1. CASE rows' = rows
    <3>1. ASSUME NEW r \in stored PROVE FALSE
      BY <1>1, <2>1, FateCases, FateCasesNext
    <3>. QED  BY <3>1
  <2>2. CASE \A r \in Records : Fate(r) = "pending" => Fate(r)' # "lost"
    BY <2>2
  <2>. QED  BY <2>1, <2>2, RowsOrLosses
<1>4. CASE lost = {}
  <2>1. \A r \in stored : fate[r] = "pending"
    OBVIOUS
  <2>2. fate' = [r \in Records |-> IF r \in stored THEN "stored" ELSE fate[r]]
    BY <1>2, <1>4
  <2>. QED  BY <1>1, <2>1, <2>2 DEF Log!Next, Log!Store, Log!Settle
<1>5. CASE stored = {}
  <2>1. \A r \in lost : fate[r] = "pending"
    OBVIOUS
  <2>2. fate' = [r \in Records |-> IF r \in lost THEN "lost" ELSE fate[r]]
    BY <1>2, <1>5
  <2>3. ClickHouseConfigured => lost \subseteq dropped' \cup overtaken'
    <3>. SUFFICES ASSUME ClickHouseConfigured, NEW r \in lost PROVE r \in dropped' \cup overtaken'
      OBVIOUS
    <3>1. kind'[r] # "invalid" /\ rows'[r] = 0 /\ PastCommit(r)'
      BY FateCasesNext
    <3>. QED  BY <3>1 DEF LossInv, LossHasTwoCauses
  <2>. QED  BY <1>1, <2>1, <2>2, <2>3 DEF Log!Next, Log!Lose, Log!Settle
<1>. QED  BY <1>3, <1>4, <1>5

\* AuditPipeline implements AuditLog: what becomes of an event is settled once, whatever crashes,
\* restarts and commits of lower offsets there are, and losses have an excuse.
THEOREM PipelineSettlesOnce == Spec => SettlesOnce
<1>1. Init => Log!Init
  <2>. SUFFICES ASSUME Init PROVE Log!Init
    OBVIOUS
  <2>1. \A r \in Records : Fate(r) \in {"pending", "refused"}
    BY RecordShape DEF Init, Fate, PastCommit
  <2>. QED  BY <2>1 DEF Init, Log!Init
<1>2. Init => GoneBeforeMemory
  BY DEF Init, GoneBeforeMemory, InMemory
<1>3. TypeOK /\ LossInv /\ GoneBeforeMemory /\ [Next]_vars => GoneBeforeMemory'
  BY StepKeepsGone
<1>4. /\ TypeOK /\ TypeOK' /\ LossInv /\ LossInv' /\ GoneBeforeMemory /\ [Next]_vars
      => Log!Next
  BY StepIsLogStep
<1>. QED  BY <1>1, <1>2, <1>3, <1>4, TypeCorrect, LossInvariant, PTL DEF Spec, SettlesOnce, Log!Spec
=============================================================================
