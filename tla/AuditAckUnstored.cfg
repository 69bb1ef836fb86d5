\* An event of a failed flush is acknowledged by the next one.
CONSTANTS
    p1 = p1
    Partitions <- OnePartition
    LogEnd = 2
    Kinds <- WellFormed
    BatchSize = 1
    ClickHouseConfigured = TRUE
    Faults <- ClickHouseFaults
    MaxRestarts = 0
SPECIFICATION Spec
INVARIANTS
    UnstoredIsNotAcknowledged
\* The process may be down for good once the restarts are used up.
CHECK_DEADLOCK FALSE
