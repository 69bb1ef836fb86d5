------------------------- MODULE VersionedResource -------------------------
(***************************************************************************)
(* What the example service promises of one resource: it is created once,  *)
(* its content changes only while it is active, a deleted resource stays   *)
(* what it was until it is restored, and every version it has when it is   *)
(* active, the one it is restored to included, is one it never had before. *)
(***************************************************************************)
CONSTANTS
    Versions,  \* there may be
    Initial,   \* version of a resource that exists at the start
    None       \* version of a resource that does not exist

VARIABLES
    state,
    version,
    given      \* versions there have been

vars == <<state, version, given>>

Init ==
    /\ \/ state = "none" /\ version = None
       \/ state \in {"active", "deleted"} /\ version = Initial
    /\ given = {Initial}

\* A version never given becomes that of the active resource.
Renew(from, v) ==
    /\ state = from
    /\ v \notin given
    /\ state' = "active"
    /\ version' = v
    /\ given' = given \cup {v}

Create(v)  == Renew("none", v)
Change(v)  == Renew("active", v)
Restore(v) == Renew("deleted", v)

Delete ==
    /\ state = "active"
    /\ state' = "deleted"
    /\ UNCHANGED <<version, given>>

Next ==
    \/ \E v \in Versions : Create(v) \/ Change(v) \/ Restore(v)
    \/ Delete

Spec == Init /\ [][Next]_vars
=============================================================================
