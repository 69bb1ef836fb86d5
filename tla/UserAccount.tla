---------------------------- MODULE UserAccount ----------------------------
(***************************************************************************)
(* What the IAM service promises of one user, whatever requests it serves  *)
(* at the same time: how the user's status may change, and that a login    *)
(* session opens only for a request that was let in while the user was     *)
(* active with a verified email, and then knew the password of the moment. *)
(* A session that was closed stays closed.                                 *)
(***************************************************************************)
EXTENDS Naturals

CONSTANTS
    Requests,  \* who may open a session, and whose passwords there may be
    Initial    \* the password of a user created at startup

VARIABLES
    status,
    verified,
    password,
    typed,     \* the password each request presents
    admitted,  \* requests let in
    proven,    \* requests that knew the password
    open,      \* sessions opened so far
    closed     \* those that were closed

vars == <<status, verified, password, typed, admitted, proven, open, closed>>

Init ==
    /\ \/ status = "none" /\ verified = FALSE
       \/ status = "active" /\ verified = TRUE
    /\ password = Initial
    /\ typed = [r \in Requests |-> Initial]
    /\ admitted = {}
    /\ proven = {}
    /\ open = {}
    /\ closed = {}

Passwords == Requests \cup {Initial}
Sessions == <<typed, admitted, proven, open, closed>>

Register(p) ==
    /\ status = "none"
    /\ status' = "pending"
    /\ password' = p
    /\ UNCHANGED <<verified, Sessions>>

Verify ==
    /\ status = "pending"
    /\ status' = "active"
    /\ verified' = TRUE
    /\ UNCHANGED <<password, Sessions>>

Disable ==
    /\ status \in {"pending", "active"}
    /\ status' = "disabled"
    /\ UNCHANGED <<verified, password, Sessions>>

Enable ==
    /\ status = "disabled"
    /\ status' = "active"
    /\ UNCHANGED <<verified, password, Sessions>>

\* A password is also replaced when the user was disabled after the request looked.
ReplacePassword(p) ==
    /\ status # "none"
    /\ verified
    /\ password' = p
    /\ UNCHANGED <<status, verified, Sessions>>

\* A request comes with a password, once, before it is let in.
Present(r, p) ==
    /\ r \notin admitted
    /\ typed' = [typed EXCEPT ![r] = p]
    /\ UNCHANGED <<status, verified, password, admitted, proven, open, closed>>

Admit(r) ==
    /\ status = "active"
    /\ verified
    /\ admitted' = admitted \cup {r}
    /\ UNCHANGED <<status, verified, password, typed, proven, open, closed>>

\* The password the request presents is the user's now.
Prove(r) ==
    /\ r \in admitted
    /\ typed[r] = password
    /\ proven' = proven \cup {r}
    /\ UNCHANGED <<status, verified, password, typed, admitted, open, closed>>

GiveUp(r) ==
    /\ r \notin open
    /\ admitted' = admitted \ {r}
    /\ proven' = proven \ {r}
    /\ UNCHANGED <<status, verified, password, typed, open, closed>>

Open(r) ==
    /\ r \in proven
    /\ open' = open \cup {r}
    /\ UNCHANGED <<status, verified, password, typed, admitted, proven, closed>>

Close(S) ==
    /\ closed' = closed \cup S
    /\ UNCHANGED <<status, verified, password, typed, admitted, proven, open>>

Next ==
    \/ Verify
    \/ Disable
    \/ Enable
    \/ \E r \in Requests :
        \/ Register(r)
        \/ ReplacePassword(r)
        \/ Admit(r)
        \/ \E p \in Passwords : Present(r, p)
        \/ Prove(r)
        \/ GiveUp(r)
        \/ Open(r)
    \/ \E S \in SUBSET open : Close(S)

Spec == Init /\ [][Next]_vars
=============================================================================
