---------------------------- MODULE MCAuditQuery ----------------------------
(* AuditQuery with four events at two times, one on a second and one in     *)
(* between; one of the events cannot be read and one of them may expire.    *)
EXTENDS AuditQuery, TLC

FourEvents == 1 .. 4
TwoTimes   == (1 :> 2000 @@ 2 :> 1500 @@ 3 :> 2000 @@ 4 :> 1500)
SomeFilters == {FourEvents, {1, 2, 3}}
=============================================================================
