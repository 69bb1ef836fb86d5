\* Ingestion with every kind of record and every fault, under fair goroutines.
CONSTANTS
    p1 = p1
    Partitions <- OnePartition
    LogEnd = 3
    Kinds <- AllKinds
    BatchSize = 2
    ClickHouseConfigured = TRUE
    Faults <- AllFaults
    MaxRestarts = 1
SPECIFICATION FairSpec
INVARIANTS LossHasTwoCauses OneRowPerProcess FullBufferSignalled NothingAfterFinalFlush
PROPERTIES SettlesOnce BufferedIsResolved ShutdownCompletes
\* The process may be down for good once the restarts are used up.
CHECK_DEADLOCK FALSE
