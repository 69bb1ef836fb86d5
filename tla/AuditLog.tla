------------------------------ MODULE AuditLog ------------------------------
(***************************************************************************)
(* What the audit service makes of the records of its topic, without       *)
(* goroutines, offsets or restarts: a record that is no audit event is     *)
(* refused, every other one is pending until it is stored or lost.  That   *)
(* is settled once: a stored event does not disappear from the account, a  *)
(* lost one does not turn up again, and none is lost without an excuse.    *)
(***************************************************************************)
CONSTANTS
    Records,
    Storing    \* there is a database; without one every event is lost

VARIABLES
    fate,
    excused    \* records whose flush failed, or that an invalid record's commit overtook

Init ==
    /\ fate \in [Records -> {"pending", "refused"}]
    /\ excused = {}

Settle(R, how) ==
    /\ \A r \in R : fate[r] = "pending"
    /\ fate' = [r \in Records |-> IF r \in R THEN how ELSE fate[r]]

Store(R) == Settle(R, "stored")
Lose(R)  == Settle(R, "lost") /\ (Storing => R \subseteq excused')

Next ==
    /\ excused \subseteq excused'
    /\ \E R \in SUBSET Records : Store(R) \/ Lose(R)

Spec == Init /\ [][Next]_<<fate, excused>>
=============================================================================
