--------------------------- MODULE TokenFamilies ---------------------------
(***************************************************************************)
(* What the IAM service promises of token sessions, without requests'      *)
(* steps, transactions or locks: a code is redeemed once, for a session    *)
(* with an access token and perhaps a refresh token; a refresh token is    *)
(* exchanged for its successor in one step, and only while its session is  *)
(* not revoked; sessions are revoked together with all their tokens, and   *)
(* stay revoked.                                                           *)
(***************************************************************************)
CONSTANTS
    Names,  \* of token sessions and of tokens
    Codes

VARIABLES
    redeemed,     \* codes
    issued,       \* names given to access tokens
    open,         \* token sessions opened so far
    revoked,      \* those that were revoked
    refreshable,  \* per session, the refresh tokens that can still be exchanged
    accepted      \* per session, the access tokens that are not revoked

vars == <<redeemed, issued, open, revoked, refreshable, accepted>>

Init ==
    /\ redeemed = {}
    /\ issued = {}
    /\ open = {}
    /\ revoked = {}
    /\ refreshable = [s \in Names |-> {}]
    /\ accepted = [s \in Names |-> {}]

\* A code is exchanged for session s, whose first tokens have the session's name.
Redeem(c, s) ==
    /\ c \notin redeemed
    /\ s \notin issued \cup open
    /\ redeemed' = redeemed \cup {c}
    /\ issued' = issued \cup {s}
    /\ open' = open \cup {s}
    /\ accepted' = [accepted EXCEPT ![s] = {s}]
    /\ \E offered \in {{}, {s}} : refreshable' = [refreshable EXCEPT ![s] = offered]
    /\ UNCHANGED revoked

\* Refresh token t of session s, its only one, is exchanged for the pair of tokens u.
Rotate(s, t, u) ==
    /\ s \in open \ revoked
    /\ refreshable[s] = {t}
    /\ u \notin issued
    /\ issued' = issued \cup {u}
    /\ refreshable' = [refreshable EXCEPT ![s] = {u}]
    /\ accepted' = [accepted EXCEPT ![s] = @ \cup {u}]
    /\ UNCHANGED <<redeemed, open, revoked>>

Revoke(S) ==
    /\ S # {}
    /\ S \subseteq open \ revoked
    /\ revoked' = revoked \cup S
    /\ refreshable' = [s \in Names |-> IF s \in S THEN {} ELSE refreshable[s]]
    /\ accepted' = [s \in Names |-> IF s \in S THEN {} ELSE accepted[s]]
    /\ UNCHANGED <<redeemed, issued, open>>

Next ==
    \/ \E c \in Codes, s \in Names : Redeem(c, s)
    \/ \E s, t, u \in Names : Rotate(s, t, u)
    \/ \E S \in SUBSET Names : Revoke(S)

Spec == Init /\ [][Next]_vars
=============================================================================
