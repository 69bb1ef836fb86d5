----------------------------- MODULE AuditQuery -----------------------------
(***************************************************************************)
(* Reading the audit table page by page (internal/data/audit.go of the     *)
(* audit service) while batches are inserted, some rows for the second     *)
(* time, and old rows expire.  A page is one query; the client passes the  *)
(* token of a page to get the next one, until a page has none.             *)
(*                                                                         *)
(* An event is its event_id, a number, so that IDs are ordered; times are  *)
(* milliseconds, the unit of the column, but a query is asked for whole    *)
(* seconds (Bound).  A row is an event and the number of its copy.  What a *)
(* query returns is a set of rows: its order is that of Precedes, its      *)
(* slices are given by the rows' Position.                                 *)
(***************************************************************************)
EXTENDS Integers, FiniteSets

CONSTANTS
    Events,
    occurredAt,       \* time of an event
    Filters,          \* sets of the events a request may match
    Unreadable,       \* events whose row fails to scan
    Old,              \* events old enough for the table's TTL
    Sizes,            \* page sizes asked for
    DefaultPageSize,
    MaxPageSize,
    Precision,        \* of a time in a query's arguments: 1000, as the driver binds seconds
    MaxCopies,        \* bound: how often an event is inserted
    None

ASSUME ConstantsAssumption ==
    /\ Events \subseteq Nat /\ IsFiniteSet(Events)
    /\ occurredAt \in [Events -> Nat]
    /\ Filters \subseteq SUBSET Events
    /\ Unreadable \subseteq Events /\ Old \subseteq Events
    /\ Sizes \subseteq Int
    /\ DefaultPageSize \in Nat \ {0} /\ MaxPageSize \in Nat \ {0}
    /\ Precision \in Nat \ {0} /\ MaxCopies \in Nat
    /\ None \notin Nat \X Nat

VARIABLES
    table,      \* how many rows an event has
    inserted,   \* how often it was inserted
    filter,     \* of the client's requests
    token,      \* of the next page: None for the first one
    page,       \* the rows the client got last
    returned,   \* events on the pages before it
    done,       \* the last page had no token
    since,      \* history: events in the table all the time since the first request
    skipped,    \* history: a row of the last page was not returned
    changed     \* history: the table changed since the first request

client  == <<filter, token, page, returned, done>>
history == <<since, skipped, changed>>
vars    == <<table, inserted, client, history>>

-----------------------------------------------------------------------------
\* pageToken.
Key(e) == <<occurredAt[e], e>>

Keys == {Key(e) : e \in Events}
Rows == Events \X (1 .. MaxCopies)

TypeOK ==
    /\ table \in [Events -> 0 .. MaxCopies]
    /\ inserted \in [Events -> 0 .. MaxCopies]
    /\ filter \in Filters
    /\ token \in Keys \cup {None}
    /\ page \in SUBSET Rows
    /\ returned \in SUBSET Events
    /\ done \in BOOLEAN
    /\ since \in SUBSET Events
    /\ skipped \in BOOLEAN
    /\ changed \in BOOLEAN

Init ==
    /\ table \in [Events -> 0 .. MaxCopies]
    /\ inserted = table
    /\ filter \in Filters
    /\ token = None
    /\ page = {}
    /\ returned = {}
    /\ done = FALSE
    /\ since = {e \in Events : table[e] > 0}
    /\ skipped = FALSE
    /\ changed = FALSE

-----------------------------------------------------------------------------
(* The queries.                                                             *)

After(e, key) ==
    \/ occurredAt[e] > key[1]
    \/ occurredAt[e] = key[1] /\ e > key[2]

\* ORDER BY occurred_at, event_id; the copies of a row follow each other in any order.
Precedes(x, y) ==
    \/ After(y[1], Key(x[1]))
    \/ y[1] = x[1] /\ y[2] > x[2]

\* The index a row has among others.
Position(x, rows) == Cardinality({y \in rows : Precedes(y, x)})

\* LIMIT n, and the slice [:n].
First(n, rows) == {x \in rows : Position(x, rows) < n}

\* A time as an argument of a query: the driver writes a time.Time that is bound by position, and
\* not by DateNamed, in whole seconds.
Bound(t) == t - (t % Precision)

\* Mutant: the cursor is the event_id alone.
FollowsById(e, key) == key # None => e > key[2]

\* Mutant: the cursor is the time alone, its row included.
FollowsByTime(e, key) == key # None => occurredAt[e] >= Bound(key[1])

\* The condition that a token adds.
Follows(e, key) == key # None => After(e, <<Bound(key[1]), key[2]>>)

\* buildWhere: the rows that the filters and the token leave.
Where(key) == {x \in filter \X (1 .. MaxCopies) : x[2] <= table[x[1]] /\ Follows(x[1], key)}

PageSize(asked) ==
    IF asked <= 0 THEN DefaultPageSize ELSE IF asked > MaxPageSize THEN MaxPageSize ELSE asked

\* Mutant: the count is that of the next page and those after it.
CountRest == Cardinality(Where(token))

CountEvents == Cardinality(Where(None))

\* Mutant: the token is that of the row that showed there is another page.
NextPageStart(items, size) == {x \in items : Position(x, items) = size}

\* items[pageSize-1].
LastOfPage(items, size) == {x \in items : Position(x, items) = size - 1}

-----------------------------------------------------------------------------
\* ListEvents asks for one more row than the page has; rows that fail to scan are left out before
\* it looks whether that one came.  A query that fails leaves the client with the token it had.
ListEvents(asked) ==
    LET size  == PageSize(asked)
        rows  == First(size + 1, Where(token))
        items == {x \in rows : x[1] \notin Unreadable}
    IN  /\ ~ done
        /\ page' = First(size, items)
        /\ returned' = returned \cup {x[1] : x \in page}
        /\ \/ /\ Cardinality(items) > size
              /\ \E last \in LastOfPage(items, size) : token' = Key(last[1])
              /\ UNCHANGED done
           \/ /\ Cardinality(items) <= size
              /\ done' = TRUE
              /\ UNCHANGED token
        /\ skipped' = (items # rows)
        /\ UNCHANGED <<table, inserted, filter, since, changed>>

\* A batch is inserted, or inserted again after its offsets were not committed.
Insert(e) ==
    /\ inserted[e] < MaxCopies
    /\ inserted' = [inserted EXCEPT ![e] = @ + 1]
    /\ table' = [table EXCEPT ![e] = @ + 1]
    /\ changed' = TRUE
    /\ UNCHANGED <<client, since, skipped>>

\* The table drops rows past their TTL when it merges its parts.
Expire(e) ==
    /\ e \in Old /\ table[e] > 0
    /\ table' = [table EXCEPT ![e] = 0]
    /\ since' = since \ {e}
    /\ changed' = TRUE
    /\ UNCHANGED <<inserted, client, skipped>>

Next ==
    \/ \E asked \in Sizes : ListEvents(asked)
    \/ \E e \in Events : Insert(e) \/ Expire(e)

Spec == Init /\ [][Next]_vars

\* The client asks for the next page.
FairSpec == Spec /\ WF_vars(\E asked \in Sizes : ListEvents(asked))

-----------------------------------------------------------------------------
(* Properties.                                                              *)

Returned == returned \cup {x[1] : x \in page}

\* The times of two events are the same to a query.
SameSecond(d, e) == Bound(occurredAt[d]) = Bound(occurredAt[e])

\* ListEvents goes forward in time, whatever is inserted or expires between two pages and though
\* its cursor loses the fraction of a second: what is on a page comes after everything on those
\* before it, but for events of the same second.
PagesAscend == \A d \in returned, x \in page : After(x[1], Key(d)) \/ SameSecond(x[1], d)

\* "ListEvents queries audit events with filters and cursor-based pagination" (audit.go:54): each
\* page comes after those before it in the order of occurred_at and event_id, and no event is on
\* two of them.  The code does not keep this: the row of the token is after its second.
PagesAreOrdered == \A d \in returned, x \in page : After(x[1], Key(d))

\* ListEvents' last page ends the list: every event that matched and was in the table all along
\* is on a page, unless its row, or one of the rows fetched with the last page, failed to scan.
NothingMissing ==
    done => skipped \/ (since \cap filter) \ Unreadable \subseteq Returned

\* CountEvents, asked with the same filter of a table that did not change, counts what the pages
\* have together, and the rows that are there twice.
CountCoversPages ==
    ~ changed =>
        /\ Cardinality(Returned) <= CountEvents
        /\ done /\ filter \cap Unreadable = {} /\ (\A e \in filter : table[e] <= 1) =>
             Cardinality(Returned) = CountEvents

\* The rows of the page are of the event's second.
PageIsSecondOf(d) == \A x \in page : SameSecond(x[1], d)

\* A client that asks for page after page comes to the end of the list, or ends up with pages of
\* one second for good: a second with events in its course and more of them than a page has, of
\* which the next query finds the earlier ones again.
ListEnds ==
    \/ <>done
    \/ \E d \in Events : occurredAt[d] # Bound(occurredAt[d]) /\ <>[]PageIsSecondOf(d)

-----------------------------------------------------------------------------
(* The inductive strengthening that AuditQuery_proofs needs.                *)

\* The second of the token divides the events in two: what was returned is not after it ...
TokenCovers ==
    /\ token = None => returned = {} /\ (done \/ page = {})
    /\ ~ done /\ token # None =>
         \A e \in Returned : Bound(occurredAt[e]) <= Bound(token[1])

\* ... and what is still to be returned is after the token itself.
RestFollows ==
    ~ done /\ token # None =>
        \A e \in (since \cap filter) \ (Unreadable \cup Returned) : After(e, token)

PageInv  == TokenCovers /\ PagesAscend
RestInv  == (\A e \in since : table[e] > 0) /\ RestFollows /\ NothingMissing
CountInv ==
    /\ Returned \subseteq filter
    /\ ~ changed => since = {e \in Events : table[e] > 0} /\ Returned \subseteq since
    /\ skipped => filter \cap Unreadable # {}
=============================================================================
