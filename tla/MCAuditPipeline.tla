--------------------------- MODULE MCAuditPipeline ---------------------------
(* AuditPipeline on small instances, for TLC. *)
EXTENDS AuditPipeline

CONSTANT p1

OnePartition  == {p1}
AllKinds      == {"event", "invalid", "poison"}
WellFormed    == {"event"}
AllFaults     == {"clickhouse", "kafka", "crash"}
ClickHouseFaults == {"clickhouse"}
=============================================================================
