-------------------------- MODULE AuditQuery_proofs --------------------------
(***************************************************************************)
(* Proofs about AuditQuery: what the pages of a list are, for any table,   *)
(* any page sizes and any number of insertions and expiries between two    *)
(* pages.  The first part is about the slices of a query's result, which   *)
(* are given by the number of rows that precede a row.                     *)
(***************************************************************************)
EXTENDS AuditQuery, FiniteSetTheorems, WellFoundedInduction, TLAPS

USE ConstantsAssumption

-----------------------------------------------------------------------------
(* The order of rows and their positions.                                   *)

\* The order of occurred_at and event_id is a strict total order of the events.
LEMMA AfterIsTotal ==
    ASSUME NEW c \in Events, NEW d \in Events, NEW e \in Events
    PROVE  /\ ~ After(c, Key(c))
           /\ After(d, Key(c)) /\ After(e, Key(d)) => After(e, Key(c))
           /\ c = d \/ After(c, Key(d)) \/ After(d, Key(c))
<1>1. occurredAt[c] \in Nat /\ occurredAt[d] \in Nat /\ occurredAt[e] \in Nat
  OBVIOUS
<1>2. c \in Nat /\ d \in Nat /\ e \in Nat
  OBVIOUS
<1>. QED  BY <1>1, <1>2 DEF After, Key

\* So is ORDER BY of the rows, the copies of an event included.
LEMMA PrecedesIsTotal ==
    ASSUME NEW x \in Rows, NEW y \in Rows, NEW z \in Rows
    PROVE  /\ ~ Precedes(x, x)
           /\ Precedes(x, y) /\ Precedes(y, z) => Precedes(x, z)
           /\ x = y \/ Precedes(x, y) \/ Precedes(y, x)
<1>1. /\ x[1] \in Events /\ y[1] \in Events /\ z[1] \in Events
      /\ x[2] \in Nat /\ y[2] \in Nat /\ z[2] \in Nat
      /\ x = <<x[1], x[2]>> /\ y = <<y[1], y[2]>>
  BY DEF Rows
<1>2. ~ Precedes(x, x)
  BY <1>1, AfterIsTotal DEF Precedes
<1>3. Precedes(x, y) /\ Precedes(y, z) => Precedes(x, z)
  <2>1. /\ After(y[1], Key(x[1])) /\ After(z[1], Key(y[1])) => After(z[1], Key(x[1]))
    BY <1>1, AfterIsTotal
  <2>. QED  BY <1>1, <2>1 DEF Precedes
<1>4. x = y \/ Precedes(x, y) \/ Precedes(y, x)
  <2>1. x[1] = y[1] \/ After(x[1], Key(y[1])) \/ After(y[1], Key(x[1]))
    BY <1>1, AfterIsTotal
  <2>2. x[1] = y[1] => x[2] = y[2] \/ x[2] > y[2] \/ y[2] > x[2]
    BY <1>1
  <2>. QED  BY <1>1, <2>1, <2>2 DEF Precedes
<1>. QED  BY <1>2, <1>3, <1>4

\* A query has finitely many rows.
LEMMA RowsAreFinite ==
    ASSUME NEW R \in SUBSET Rows
    PROVE  IsFiniteSet(R) /\ Cardinality(R) \in Nat
<1>1. IsFiniteSet(1 .. MaxCopies)
  BY FS_Interval
<1>2. IsFiniteSet(Rows)
  BY <1>1, FS_Product DEF Rows
<1>3. IsFiniteSet(R)
  BY <1>2, FS_Subset
<1>. QED  BY <1>3, FS_CardinalityType

\* Rows before a row.
Ahead(x, R) == {y \in R : Precedes(y, x)}

\* A position is a number.
LEMMA PositionIsANumber ==
    ASSUME NEW R \in SUBSET Rows, NEW x
    PROVE  /\ Ahead(x, R) \in SUBSET Rows
           /\ IsFiniteSet(Ahead(x, R))
           /\ Position(x, R) = Cardinality(Ahead(x, R))
           /\ Position(x, R) \in Nat
<1>1. Ahead(x, R) \in SUBSET Rows
  BY DEF Ahead
<1>2. Position(x, R) = Cardinality(Ahead(x, R))
  BY DEF Position, Ahead
<1>. QED  BY <1>1, <1>2, RowsAreFinite

\* Positions go up with the order.
LEMMA PositionsAscend ==
    ASSUME NEW R \in SUBSET Rows, NEW x \in R, NEW y \in R, Precedes(x, y)
    PROVE  Position(x, R) < Position(y, R)
<1>1. x \notin Ahead(x, R)
  BY PrecedesIsTotal DEF Ahead
<1>2. \A z \in Ahead(x, R) : z \in Ahead(y, R)
  BY PrecedesIsTotal DEF Ahead
<1>3. Ahead(x, R) \cup {x} \in SUBSET Ahead(y, R)
  BY <1>2 DEF Ahead
<1>4. IsFiniteSet(Ahead(x, R)) /\ IsFiniteSet(Ahead(y, R))
  BY PositionIsANumber
<1>5. Cardinality(Ahead(x, R) \cup {x}) = Cardinality(Ahead(x, R)) + 1
  BY <1>1, <1>4, FS_AddElement
<1>6. Cardinality(Ahead(x, R) \cup {x}) <= Cardinality(Ahead(y, R))
  BY <1>3, <1>4, FS_Subset
<1>7. Position(x, R) \in Nat /\ Position(x, R) = Cardinality(Ahead(x, R))
  BY PositionIsANumber
<1>8. Position(y, R) \in Nat /\ Position(y, R) = Cardinality(Ahead(y, R))
  BY PositionIsANumber
<1>. QED  BY <1>5, <1>6, <1>7, <1>8

\* A slice [:n] comes before the rest.
LEMMA FirstComesFirst ==
    ASSUME NEW R \in SUBSET Rows, NEW n \in Nat,
           NEW x \in First(n, R), NEW y \in R \ First(n, R)
    PROVE  Precedes(x, y)
<1>1. x \in R /\ y \in R /\ x \in Rows /\ y \in Rows
  BY DEF First
<1>2. Position(x, R) < n /\ ~ (Position(y, R) < n)
  BY DEF First
<1>3. Position(x, R) \in Nat /\ Position(y, R) \in Nat
  BY PositionIsANumber
<1>4. ~ Precedes(y, x)
  <2>. SUFFICES ASSUME Precedes(y, x) PROVE FALSE
    OBVIOUS
  <2>1. Position(y, R) < Position(x, R)
    BY <1>1, PositionsAscend
  <2>. QED  BY <1>2, <1>3, <2>1
<1>. QED  BY <1>1, <1>2, <1>4, PrecedesIsTotal

\* LIMIT n of at most n rows returns all of them.
LEMMA FirstOfFew ==
    ASSUME NEW R \in SUBSET Rows, NEW n \in Nat, Cardinality(R) <= n
    PROVE  First(n, R) = R
<1>. SUFFICES ASSUME NEW x \in R PROVE Position(x, R) < n
  BY DEF First
<1>1. x \notin Ahead(x, R)
  BY PrecedesIsTotal DEF Ahead
<1>2. Ahead(x, R) \cup {x} \in SUBSET R
  BY DEF Ahead
<1>3. IsFiniteSet(Ahead(x, R)) /\ Position(x, R) = Cardinality(Ahead(x, R)) /\ Position(x, R) \in Nat
  BY PositionIsANumber
<1>4. Cardinality(Ahead(x, R) \cup {x}) = Cardinality(Ahead(x, R)) + 1
  BY <1>1, <1>3, FS_AddElement
<1>5. IsFiniteSet(R) /\ Cardinality(R) \in Nat
  BY RowsAreFinite
<1>6. Cardinality(Ahead(x, R) \cup {x}) <= Cardinality(R)
  BY <1>2, <1>5, FS_Subset
<1>. QED  BY <1>3, <1>4, <1>5, <1>6

\* A nonempty set of rows has one that no other precedes.
LEMMA SomeRowIsFirst ==
    ASSUME NEW R \in SUBSET Rows, R # {}
    PROVE  \E x \in R : \A y \in R : ~ Precedes(y, x)
<1>. DEFINE aheads == {Ahead(x, R) : x \in R}
<1>1. IsFiniteSet(R)
  BY RowsAreFinite
<1>2. IsWellFoundedOn(StrictSubsetOrdering(R), FiniteSubsetsOf(R))
  BY FS_StrictSubsetOrderingWellFounded
<1>3. aheads \subseteq FiniteSubsetsOf(R)
  <2>. SUFFICES ASSUME NEW x \in R PROVE Ahead(x, R) \in FiniteSubsetsOf(R)
    OBVIOUS
  <2>1. Ahead(x, R) \in SUBSET R /\ IsFiniteSet(Ahead(x, R))
    BY PositionIsANumber DEF Ahead
  <2>. QED  BY <2>1 DEF FiniteSubsetsOf
<1>4. aheads # {}
  OBVIOUS
<1>5. \E a \in aheads : \A b \in aheads : ~ (<<b, a>> \in StrictSubsetOrdering(R))
  <2>. HIDE DEF aheads
  <2>. QED  BY <1>2, <1>3, <1>4, WFMin
<1>6. PICK x \in R : \A y \in R : ~ (<<Ahead(y, R), Ahead(x, R)>> \in StrictSubsetOrdering(R))
  BY <1>5
<1>7. ASSUME NEW y \in R, Precedes(y, x) PROVE FALSE
  <2>1. Ahead(y, R) \in SUBSET R /\ Ahead(x, R) \in SUBSET R
    BY DEF Ahead
  <2>2. \A z \in Ahead(y, R) : z \in Ahead(x, R)
    BY <1>7, PrecedesIsTotal DEF Ahead
  <2>3. y \in Ahead(x, R) /\ y \notin Ahead(y, R)
    BY <1>7, PrecedesIsTotal DEF Ahead
  <2>4. <<Ahead(y, R), Ahead(x, R)>> \in StrictSubsetOrdering(R)
    BY <2>1, <2>2, <2>3 DEF StrictSubsetOrdering
  <2>. QED  BY <1>6, <2>4
<1>. QED  BY <1>6, <1>7

\* LIMIT n+1 that returns at most n rows has returned all of them.
LEMMA ShortFirstIsAll ==
    ASSUME NEW R \in SUBSET Rows, NEW n \in Nat, Cardinality(First(n + 1, R)) <= n
    PROVE  First(n + 1, R) = R
<1>. DEFINE rest == R \ First(n + 1, R)
<1>. SUFFICES ASSUME rest # {} PROVE FALSE
  BY DEF First
<1>1. PICK x \in rest : \A y \in rest : ~ Precedes(y, x)
  BY SomeRowIsFirst
<1>2. Ahead(x, R) \in SUBSET First(n + 1, R)
  BY <1>1 DEF Ahead
<1>3. First(n + 1, R) \in SUBSET Rows
  BY DEF First
<1>4. IsFiniteSet(First(n + 1, R)) /\ Cardinality(First(n + 1, R)) \in Nat
  BY <1>3, RowsAreFinite
<1>5. Position(x, R) = Cardinality(Ahead(x, R)) /\ Position(x, R) \in Nat
  BY PositionIsANumber
<1>6. Cardinality(Ahead(x, R)) <= Cardinality(First(n + 1, R))
  BY <1>2, <1>4, FS_Subset
<1>7. ~ (Position(x, R) < n + 1)
  BY DEF First
<1>. QED  BY <1>4, <1>5, <1>6, <1>7

\* items[pageSize-1] is the last row of items[:pageSize].
LEMMA LastEndsThePage ==
    ASSUME NEW R \in SUBSET Rows, NEW n \in Nat \ {0}, NEW last \in LastOfPage(R, n)
    PROVE  /\ last \in First(n, R)
           /\ \A x \in First(n, R) : x = last \/ Precedes(x, last)
           /\ \A x \in R \ First(n, R) : Precedes(last, x)
<1>1. last \in R /\ Position(last, R) = n - 1
  BY DEF LastOfPage
<1>2. last \in First(n, R)
  BY <1>1 DEF First
<1>3. ASSUME NEW x \in First(n, R) PROVE x = last \/ Precedes(x, last)
  <2>1. x \in R /\ Position(x, R) < n
    BY DEF First
  <2>2. Position(x, R) \in Nat
    BY PositionIsANumber
  <2>3. ~ Precedes(last, x)
    <3>. SUFFICES ASSUME Precedes(last, x) PROVE FALSE
      OBVIOUS
    <3>1. Position(last, R) < Position(x, R)
      BY <1>1, <2>1, PositionsAscend
    <3>. QED  BY <1>1, <2>1, <2>2, <3>1
  <2>. QED  BY <1>1, <2>1, <2>3, PrecedesIsTotal
<1>4. ASSUME NEW x \in R \ First(n, R) PROVE Precedes(last, x)
  BY <1>2, FirstComesFirst
<1>. QED  BY <1>2, <1>3, <1>4

-----------------------------------------------------------------------------
(* One page.                                                                *)

\* The page size is positive, so that a page with a token is not empty.
LEMMA PageSizeIsPositive ==
    ASSUME NEW asked \in Sizes
    PROVE  PageSize(asked) \in Nat \ {0}
<1>1. asked \in Int
  OBVIOUS
<1>. QED  BY <1>1 DEF PageSize

\* The rows of a query are rows of events that match and are in the table, after the token.
LEMMA WhereIsRows ==
    ASSUME TypeOK, NEW key
    PROVE  /\ Where(key) \in SUBSET Rows
           /\ \A x \in Where(key) : /\ x[1] \in filter /\ table[x[1]] > 0
                                  /\ Follows(x[1], key)
           /\ \A e \in filter : table[e] > 0 /\ Follows(e, key) => <<e, 1>> \in Where(key)
<1>1. filter \in SUBSET Events
  BY DEF TypeOK
<1>2. \A e \in filter : table[e] \in 0 .. MaxCopies
  BY <1>1 DEF TypeOK
<1>3. ASSUME NEW x \in Where(key)
      PROVE  x \in Rows /\ x[1] \in filter /\ table[x[1]] > 0 /\ Follows(x[1], key)
  <2>1. x \in filter \X (1 .. MaxCopies) /\ x[2] <= table[x[1]] /\ Follows(x[1], key)
    BY DEF Where
  <2>2. x[1] \in filter /\ x[2] \in 1 .. MaxCopies /\ table[x[1]] \in 0 .. MaxCopies
    BY <1>2, <2>1
  <2>3. x \in Rows
    BY <1>1, <2>1 DEF Rows
  <2>4. table[x[1]] > 0
    BY <2>1, <2>2
  <2>. QED  BY <2>1, <2>2, <2>3, <2>4
<1>4. ASSUME NEW e \in filter, table[e] > 0, Follows(e, key)
      PROVE  <<e, 1>> \in Where(key)
  <2>1. table[e] \in 0 .. MaxCopies
    BY <1>2
  <2>2. <<e, 1>> \in filter \X (1 .. MaxCopies) /\ 1 <= table[e]
    BY <1>4, <2>1
  <2>. QED  BY <1>4, <2>2 DEF Where
<1>. QED  BY <1>3, <1>4

\* What the driver cuts off a time leaves one that is not later.
LEMMA BoundIsNotLater ==
    ASSUME NEW t \in Nat
    PROVE  Bound(t) \in Int /\ Bound(t) <= t
<1>1. t % Precision \in 0 .. (Precision - 1)
  OBVIOUS
<1>. QED  BY <1>1 DEF Bound

\* A time that is not before a second is not of an earlier one.
LEMMA BoundAscends ==
    ASSUME NEW s \in Nat, NEW t \in Nat, Bound(s) <= t
    PROVE  Bound(s) <= Bound(t)
<1>. DEFINE P == Precision
            i == s \div Precision
            j == t \div Precision
<1>1. P \in Nat \ {0} /\ i \in Int /\ j \in Int
  OBVIOUS
<1>2. Bound(s) = P * i
  BY DEF Bound
<1>3. Bound(t) = P * j /\ t - Bound(t) < P
  BY DEF Bound
<1>4. P * i < P * (j + 1)
  <2>1. P * (j + 1) = P * j + P /\ P * j \in Int
    BY <1>1
  <2>. QED  BY <1>1, <1>2, <1>3, <2>1
<1>5. i <= j
  <2>. HIDE DEF P, i, j
  <2>. SUFFICES ASSUME j + 1 <= i PROVE FALSE
    BY <1>1
  <2>1. P * (j + 1) <= P * i
    BY <1>1
  <2>. QED  BY <1>1, <1>4, <2>1
<1>6. P * i <= P * j
  <2>. HIDE DEF P, i, j
  <2>. QED  BY <1>1, <1>5
<1>. QED  BY <1>2, <1>3, <1>6

\* A time that a query is asked for is not after the token's, whatever the driver cuts off: no
\* event after a token is left out.
LEMMA AfterFollows ==
    ASSUME TypeOK, token # None, NEW e \in Events, After(e, token)
    PROVE  Follows(e, token)
<1>1. PICK d \in Events : token = Key(d)
  BY DEF TypeOK, Keys
<1>2. occurredAt[d] \in Nat /\ occurredAt[e] \in Nat /\ d \in Nat /\ e \in Nat
  OBVIOUS
<1>3. token[1] = occurredAt[d] /\ token[2] = d
  BY <1>1 DEF Key
<1>4. Bound(token[1]) \in Int /\ Bound(token[1]) <= token[1]
  BY <1>2, <1>3, BoundIsNotLater
<1>. QED  BY <1>2, <1>3, <1>4 DEF Follows, After

\* What ListEvents reads and returns.
Fetched(asked)  == First(PageSize(asked) + 1, Where(token))
Readable(asked) == {x \in Fetched(asked) : x[1] \notin Unreadable}

\* ListEvents, its local names spelled out.
LEMMA ListEventsStep ==
    ASSUME TypeOK, NEW asked \in Sizes, ListEvents(asked)
    PROVE  /\ ~ done
           /\ page' = First(PageSize(asked), Readable(asked))
           /\ returned' = Returned
           /\ \/ /\ \E last \in LastOfPage(Readable(asked), PageSize(asked)) : token' = Key(last[1])
                 /\ done' = FALSE
              \/ /\ Cardinality(Readable(asked)) <= PageSize(asked)
                 /\ done' = TRUE
                 /\ token' = token
           /\ skipped' = (Readable(asked) # Fetched(asked))
           /\ UNCHANGED <<table, inserted, filter, since, changed>>
  BY DEF ListEvents, Fetched, Readable, Returned

\* Everything on a page is a row the query was to find.
LEMMA PageIsFetched ==
    ASSUME TypeOK, NEW asked \in Sizes
    PROVE  /\ PageSize(asked) \in Nat \ {0}
           /\ Fetched(asked) \in SUBSET Where(token)
           /\ Readable(asked) \in SUBSET Fetched(asked)
           /\ First(PageSize(asked), Readable(asked)) \in SUBSET Readable(asked)
           /\ Where(token) \in SUBSET Rows
           /\ Readable(asked) \in SUBSET Rows
<1>1. Where(token) \in SUBSET Rows
  BY WhereIsRows
<1>2. Fetched(asked) \in SUBSET Where(token)
  BY DEF Fetched, First
<1>3. Readable(asked) \in SUBSET Fetched(asked)
  BY DEF Readable
<1>4. First(PageSize(asked), Readable(asked)) \in SUBSET Readable(asked)
  BY DEF First
<1>. QED  BY <1>1, <1>2, <1>3, <1>4, PageSizeIsPositive

\* So is what ListEvents returns.
LEMMA PageIsRows ==
    ASSUME TypeOK, NEW asked \in Sizes, ListEvents(asked)
    PROVE  /\ page' = First(PageSize(asked), Readable(asked))
           /\ \A x \in page' : x \in Readable(asked) /\ x \in Where(token) /\ x \in Rows
<1>1. page' = First(PageSize(asked), Readable(asked))
  BY ListEventsStep
<1>2. \A x \in page' : x \in Readable(asked)
  BY <1>1 DEF First
<1>3. \A x \in Readable(asked) : x \in Where(token)
  BY DEF Readable, Fetched, First
<1>4. Where(token) \in SUBSET Rows
  BY WhereIsRows
<1>. QED  BY <1>1, <1>2, <1>3, <1>4

-----------------------------------------------------------------------------
(* Type correctness.                                                        *)

\* An event has no more rows than insertions.
RowsInserted == \A e \in Events : table[e] <= inserted[e]

\* What was returned are events.
LEMMA ReturnedAreEvents ==
    ASSUME TypeOK
    PROVE  Returned \in SUBSET Events
<1>1. \A x \in page : x[1] \in Events
  BY DEF TypeOK, Rows
<1>2. {x[1] : x \in page} \subseteq Events
  BY <1>1
<1>3. returned \subseteq Events
  BY DEF TypeOK
<1>. QED  BY <1>2, <1>3 DEF Returned

\* The new page, token and history are of their types.
LEMMA ListEventsTypes ==
    ASSUME TypeOK, NEW asked \in Sizes, ListEvents(asked)
    PROVE  /\ page' \in SUBSET Rows
           /\ returned' \in SUBSET Events
           /\ token' \in Keys \cup {None}
           /\ done' \in BOOLEAN
           /\ skipped' \in BOOLEAN
<1>1. page' \in SUBSET Rows
  BY PageIsRows
<1>2. returned' \in SUBSET Events
  BY ReturnedAreEvents, ListEventsStep
<1>3. token' \in Keys \cup {None}
  <2>1. CASE \E last \in LastOfPage(Readable(asked), PageSize(asked)) : token' = Key(last[1])
    <3>1. PICK last \in LastOfPage(Readable(asked), PageSize(asked)) : token' = Key(last[1])
      BY <2>1
    <3>2. last \in Rows
      BY PageIsFetched DEF LastOfPage
    <3>3. last[1] \in Events
      BY <3>2 DEF Rows
    <3>. QED  BY <3>1, <3>3 DEF Keys
  <2>2. CASE token' = token
    BY <2>2 DEF TypeOK
  <2>. QED  BY <2>1, <2>2, ListEventsStep
<1>4. done' \in BOOLEAN /\ skipped' \in BOOLEAN
  BY ListEventsStep
<1>. QED  BY <1>1, <1>2, <1>3, <1>4

\* Types are kept, and so is RowsInserted.
LEMMA TypeStep ==
    ASSUME TypeOK, RowsInserted, [Next]_vars
    PROVE  TypeOK' /\ RowsInserted'
<1>1. CASE \E asked \in Sizes : ListEvents(asked)
  <2>1. PICK asked \in Sizes : ListEvents(asked)
    BY <1>1
  <2>2. UNCHANGED <<table, inserted, filter, since, changed>>
    BY <2>1, ListEventsStep
  <2>3. /\ page' \in SUBSET Rows /\ returned' \in SUBSET Events
        /\ token' \in Keys \cup {None} /\ done' \in BOOLEAN /\ skipped' \in BOOLEAN
    BY <2>1, ListEventsTypes
  <2>. QED  BY <2>2, <2>3 DEF TypeOK, RowsInserted
<1>2. ASSUME NEW e \in Events, Insert(e) PROVE TypeOK' /\ RowsInserted'
  <2>1. /\ table[e] \in 0 .. MaxCopies /\ inserted[e] \in 0 .. MaxCopies
        /\ table[e] <= inserted[e] /\ inserted[e] < MaxCopies
    BY <1>2 DEF TypeOK, RowsInserted, Insert
  <2>2. /\ table[e] + 1 \in 0 .. MaxCopies /\ inserted[e] + 1 \in 0 .. MaxCopies
        /\ table[e] + 1 <= inserted[e] + 1
    BY <2>1
  <2>3. /\ table' = [table EXCEPT ![e] = @ + 1] /\ inserted' = [inserted EXCEPT ![e] = @ + 1]
        /\ changed' = TRUE /\ UNCHANGED <<filter, token, page, returned, done, since, skipped>>
    BY <1>2 DEF Insert, client
  <2>4. table' \in [Events -> 0 .. MaxCopies] /\ inserted' \in [Events -> 0 .. MaxCopies]
    BY <2>2, <2>3 DEF TypeOK
  <2>5. RowsInserted'
    BY <2>2, <2>3 DEF TypeOK, RowsInserted
  <2>. QED  BY <2>3, <2>4, <2>5 DEF TypeOK
<1>3. ASSUME NEW e \in Events, Expire(e) PROVE TypeOK' /\ RowsInserted'
  <2>1. /\ table' = [table EXCEPT ![e] = 0] /\ inserted' = inserted /\ since' = since \ {e}
        /\ changed' = TRUE /\ UNCHANGED <<filter, token, page, returned, done, skipped>>
    BY <1>3 DEF Expire, client
  <2>2. table' \in [Events -> 0 .. MaxCopies]
    BY <2>1 DEF TypeOK
  <2>3. RowsInserted'
    BY <2>1 DEF TypeOK, RowsInserted
  <2>. QED  BY <2>1, <2>2, <2>3 DEF TypeOK
<1>4. CASE UNCHANGED vars
  BY <1>4 DEF vars, client, history, TypeOK, RowsInserted
<1>. QED  BY <1>1, <1>2, <1>3, <1>4 DEF Next

\* Every variable of AuditQuery keeps its type, in all behaviours.
THEOREM TypeCorrect == Spec => [](TypeOK /\ RowsInserted)
<1>1. Init => TypeOK /\ RowsInserted
  <2>. SUFFICES ASSUME Init PROVE TypeOK /\ RowsInserted
    OBVIOUS
  <2>1. \A e \in Events : table[e] <= inserted[e]
    BY DEF Init
  <2>2. page \in SUBSET Rows /\ token \in Keys \cup {None} /\ since \in SUBSET Events
    BY DEF Init
  <2>. QED  BY <2>1, <2>2 DEF Init, TypeOK, RowsInserted
<1>2. TypeOK /\ RowsInserted /\ [Next]_vars => (TypeOK /\ RowsInserted)'
  BY TypeStep
<1>. QED  BY <1>1, <1>2, PTL DEF Spec

-----------------------------------------------------------------------------
(* The order of the pages.                                                  *)

\* A token is the key of an event.
LEMMA TokenIsAKey ==
    ASSUME TypeOK, token # None
    PROVE  \E d \in Events : token = Key(d)
  BY DEF TypeOK, Keys

\* The key of an event is a token.
LEMMA KeyIsAToken ==
    ASSUME NEW e \in Events
    PROVE  Key(e) # None
<1>1. Key(e) \in Nat \X Nat
  BY DEF Key
<1>. QED  BY <1>1

\* A row that a token leaves is not of a second before the token's.
LEMMA FollowsInTime ==
    ASSUME TypeOK, token # None, NEW e \in Events, Follows(e, token)
    PROVE  /\ Bound(token[1]) \in Int /\ Bound(occurredAt[e]) \in Int
           /\ Bound(token[1]) <= Bound(occurredAt[e])
<1>1. PICK d \in Events : token = Key(d)
  BY TokenIsAKey
<1>2. token[1] = occurredAt[d] /\ occurredAt[d] \in Nat /\ occurredAt[e] \in Nat
  BY <1>1 DEF Key
<1>3. Bound(occurredAt[d]) \in Int /\ Bound(occurredAt[e]) \in Int
  BY <1>2, BoundIsNotLater
<1>4. Bound(token[1]) <= occurredAt[e]
  BY <1>2, <1>3 DEF Follows, After
<1>. QED  BY <1>2, <1>3, <1>4, BoundAscends

\* A new page starts with the token's second.
LEMMA PageStartsAtToken ==
    ASSUME TypeOK, token # None, NEW asked \in Sizes, ListEvents(asked), NEW x \in page'
    PROVE  /\ x[1] \in Events
           /\ Bound(token[1]) \in Int /\ Bound(occurredAt[x[1]]) \in Int
           /\ Bound(token[1]) <= Bound(occurredAt[x[1]])
<1>1. x \in Where(token) /\ x \in Rows
  BY PageIsRows
<1>2. x[1] \in Events /\ Follows(x[1], token)
  BY <1>1, WhereIsRows DEF Rows
<1>. QED  BY <1>2, FollowsInTime

\* So it has nothing of a second before one that was returned.
LEMMA PageFollowsReturned ==
    ASSUME TypeOK, TokenCovers, NEW asked \in Sizes, ListEvents(asked),
           NEW d \in Returned, NEW x \in page'
    PROVE  Bound(occurredAt[d]) <= Bound(occurredAt[x[1]])
<1>1. ~ done
  BY ListEventsStep
<1>2. token # None
  BY <1>1 DEF TokenCovers, Returned
<1>3. Bound(occurredAt[d]) <= Bound(token[1])
  BY <1>1, <1>2 DEF TokenCovers
<1>4. /\ Bound(token[1]) \in Int /\ Bound(occurredAt[x[1]]) \in Int
      /\ Bound(token[1]) <= Bound(occurredAt[x[1]])
  BY <1>2, PageStartsAtToken
<1>5. d \in Events /\ occurredAt[d] \in Nat
  BY ReturnedAreEvents
<1>6. Bound(occurredAt[d]) \in Int
  BY <1>5, BoundIsNotLater
<1>. QED  BY <1>3, <1>4, <1>6

\* Of two events of different seconds, the one of the later second comes after the other.
LEMMA LaterSecondIsAfter ==
    ASSUME NEW d \in Events, NEW e \in Events, Bound(occurredAt[d]) <= Bound(occurredAt[e])
    PROVE  After(e, Key(d)) \/ SameSecond(e, d)
<1>1. occurredAt[d] \in Nat /\ occurredAt[e] \in Nat
  OBVIOUS
<1>2. /\ Bound(occurredAt[d]) \in Int
      /\ Bound(occurredAt[e]) \in Int /\ Bound(occurredAt[e]) <= occurredAt[e]
  BY <1>1, BoundIsNotLater
<1>3. SUFFICES ASSUME ~ SameSecond(e, d) PROVE occurredAt[e] > occurredAt[d]
  BY <1>3 DEF After, Key
<1>4. Bound(occurredAt[d]) < Bound(occurredAt[e])
  BY <1>2, <1>3 DEF SameSecond
<1>5. ~ (occurredAt[e] <= occurredAt[d])
  <2>. SUFFICES ASSUME occurredAt[e] <= occurredAt[d] PROVE FALSE
    OBVIOUS
  <2>1. Bound(occurredAt[e]) <= occurredAt[d]
    BY <1>1, <1>2
  <2>2. Bound(occurredAt[e]) <= Bound(occurredAt[d])
    BY <1>1, <2>1, BoundAscends
  <2>. QED  BY <1>2, <1>4, <2>2
<1>. QED  BY <1>1, <1>5

\* No row of a page is of a second after the last one's.
LEMMA LastIsOfLastSecond ==
    ASSUME TypeOK, NEW asked \in Sizes, ListEvents(asked),
           NEW last \in LastOfPage(Readable(asked), PageSize(asked))
    PROVE  /\ last \in page' /\ last[1] \in Events
           /\ \A x \in page' : /\ x[1] \in Events
                              /\ Bound(occurredAt[x[1]]) \in Int
                              /\ Bound(occurredAt[x[1]]) <= Bound(occurredAt[last[1]])
<1>1. /\ Readable(asked) \in SUBSET Rows /\ PageSize(asked) \in Nat \ {0}
      /\ page' = First(PageSize(asked), Readable(asked))
      /\ \A x \in page' : x \in Rows
  BY PageIsFetched, PageIsRows
<1>2. last \in page' /\ \A x \in page' : x = last \/ Precedes(x, last)
  BY <1>1, LastEndsThePage
<1>3. last[1] \in Events
  BY <1>1, <1>2 DEF Rows
<1>4. ASSUME NEW x \in page'
      PROVE  /\ x[1] \in Events
             /\ Bound(occurredAt[x[1]]) \in Int
             /\ Bound(occurredAt[x[1]]) <= Bound(occurredAt[last[1]])
  <2>1. x[1] \in Events
    BY <1>1 DEF Rows
  <2>2. occurredAt[x[1]] \in Nat /\ occurredAt[last[1]] \in Nat
    BY <1>3, <2>1
  <2>3. occurredAt[x[1]] <= occurredAt[last[1]]
    BY <1>2, <2>2 DEF Precedes, After, Key
  <2>4. Bound(occurredAt[x[1]]) \in Int /\ Bound(occurredAt[x[1]]) <= occurredAt[last[1]]
    BY <2>2, <2>3, BoundIsNotLater
  <2>. QED  BY <2>1, <2>2, <2>4, BoundAscends
<1>. QED  BY <1>2, <1>3, <1>4

\* The second of a new token is not before that of anything returned, the new page included.
LEMMA TokenEndsPage ==
    ASSUME TypeOK, TokenCovers, NEW asked \in Sizes, ListEvents(asked),
           NEW last \in LastOfPage(Readable(asked), PageSize(asked)), NEW e \in Returned'
    PROVE  Bound(occurredAt[e]) <= Bound(occurredAt[last[1]])
<1>1. CASE e \in Returned
  BY <1>1, LastIsOfLastSecond, PageFollowsReturned
<1>2. CASE \E x \in page' : e = x[1]
  BY <1>2, LastIsOfLastSecond
<1>3. e \in Returned \/ \E x \in page' : e = x[1]
  BY ListEventsStep DEF Returned
<1>. QED  BY <1>1, <1>2, <1>3

\* PageInv is kept by every step.
LEMMA PageStep ==
    ASSUME TypeOK, PageInv, [Next]_vars
    PROVE  PageInv'
<1>. USE DEF PageInv
<1>1. ASSUME NEW asked \in Sizes, ListEvents(asked) PROVE PageInv'
  <2>1. PagesAscend'
    <3>. SUFFICES ASSUME NEW d \in returned', NEW x \in page'
                  PROVE  After(x[1], Key(d)) \/ SameSecond(x[1], d)
      BY DEF PagesAscend
    <3>1. d \in Returned /\ d \in Events
      BY <1>1, ListEventsStep, ReturnedAreEvents
    <3>2. x[1] \in Events
      BY <1>1, PageIsRows DEF Rows
    <3>3. Bound(occurredAt[d]) <= Bound(occurredAt[x[1]])
      BY <1>1, <3>1, PageFollowsReturned
    <3>. QED  BY <3>1, <3>2, <3>3, LaterSecondIsAfter
  <2>2. CASE \E last \in LastOfPage(Readable(asked), PageSize(asked)) : token' = Key(last[1])
    <3>1. PICK last \in LastOfPage(Readable(asked), PageSize(asked)) : token' = Key(last[1])
      BY <2>2
    <3>2. last[1] \in Events
      BY <1>1, LastIsOfLastSecond
    <3>3. token' # None /\ token'[1] = occurredAt[last[1]]
      BY <3>1, <3>2, KeyIsAToken DEF Key
    <3>4. \A e \in Returned' : Bound(occurredAt[e]) <= Bound(token'[1])
      BY <1>1, <3>3, TokenEndsPage
    <3>. QED  BY <2>1, <3>3, <3>4 DEF TokenCovers
  <2>3. CASE done' = TRUE /\ token' = token
    <3>1. ~ done /\ returned' = Returned
      BY <1>1, ListEventsStep
    <3>2. token = None => returned = {} /\ page = {}
      BY <3>1 DEF TokenCovers
    <3>3. token = None => returned' = {}
      BY <3>1, <3>2 DEF Returned
    <3>. QED  BY <2>1, <2>3, <3>3 DEF TokenCovers
  <2>. QED  BY <1>1, <2>2, <2>3, ListEventsStep
<1>2. CASE UNCHANGED client
  BY <1>2 DEF client, TokenCovers, PagesAscend, Returned
<1>3. ASSUME NEW e \in Events, Insert(e) \/ Expire(e) PROVE UNCHANGED client
  BY <1>3 DEF Insert, Expire
<1>4. CASE UNCHANGED vars
  BY <1>2, <1>4 DEF vars
<1>. QED  BY <1>1, <1>2, <1>3, <1>4 DEF Next

\* The pages of ListEvents go forward in time: no page has an event of an earlier second than one
\* listed before, and what it repeats or lists out of order is of the same second.  This holds
\* for whatever part of a time the driver cuts off.
THEOREM PagesOrdered == Spec => []PagesAscend
<1>1. Init => PageInv
  BY DEF Init, PageInv, TokenCovers, PagesAscend, Returned
<1>2. TypeOK /\ PageInv /\ [Next]_vars => PageInv'
  BY PageStep
<1>3. PageInv => PagesAscend
  BY DEF PageInv
<1>. QED  BY <1>1, <1>2, <1>3, TypeCorrect, PTL DEF Spec

\* A page that is followed by another one is a step to a later second, or is within the second
\* of the token it was asked with.
PagesAdvance ==
    [][(\E asked \in Sizes : ListEvents(asked)) /\ token # None /\ ~ done' =>
          \/ Bound(token[1]) < Bound(token'[1])
          \/ \A x \in page' : Bound(occurredAt[x[1]]) = Bound(token[1])]_vars

\* ListEvents gets stuck in a second or goes on to a later one, never back: why a list without a
\* crowded second ends (ListEnds).
THEOREM PagesGoForward == Spec => PagesAdvance
<1>1. ASSUME TypeOK, NEW asked \in Sizes, ListEvents(asked), token # None, ~ done'
      PROVE  \/ Bound(token[1]) < Bound(token'[1])
             \/ \A x \in page' : Bound(occurredAt[x[1]]) = Bound(token[1])
  <2>1. PICK last \in LastOfPage(Readable(asked), PageSize(asked)) : token' = Key(last[1])
    BY <1>1, ListEventsStep
  <2>2. token'[1] = occurredAt[last[1]]
    BY <2>1 DEF Key
  <2>3. last \in page'
    BY <1>1, LastIsOfLastSecond
  <2>4. Bound(token[1]) \in Int /\ Bound(token'[1]) \in Int /\ Bound(token[1]) <= Bound(token'[1])
    BY <1>1, <2>2, <2>3, PageStartsAtToken
  <2>5. ASSUME Bound(token[1]) = Bound(token'[1]), NEW x \in page'
        PROVE  Bound(occurredAt[x[1]]) = Bound(token[1])
    <3>1. /\ Bound(occurredAt[x[1]]) \in Int
          /\ Bound(token[1]) <= Bound(occurredAt[x[1]])
      BY <1>1, PageStartsAtToken
    <3>2. Bound(occurredAt[x[1]]) <= Bound(token'[1])
      BY <1>1, <2>2, LastIsOfLastSecond
    <3>. QED  BY <2>4, <2>5, <3>1, <3>2
  <2>. QED  BY <2>4, <2>5
<1>2. TypeOK /\ [Next]_vars =>
        [(\E asked \in Sizes : ListEvents(asked)) /\ token # None /\ ~ done' =>
            \/ Bound(token[1]) < Bound(token'[1])
            \/ \A x \in page' : Bound(occurredAt[x[1]]) = Bound(token[1])]_vars
  BY <1>1
<1>. QED  BY <1>2, TypeCorrect, PTL DEF Spec, PagesAdvance

-----------------------------------------------------------------------------
(* Nothing is left out.                                                     *)

\* A readable event that was there all along and was not returned is found by the next query.
LEMMA RestIsFound ==
    ASSUME TypeOK, RestInv, ~ done, NEW e \in (since \cap filter) \ (Unreadable \cup Returned)
    PROVE  <<e, 1>> \in Where(token)
<1>1. e \in since /\ e \in filter
  OBVIOUS
<1>2. e \in Events
  BY <1>1 DEF TypeOK
<1>3. table[e] > 0
  BY <1>1 DEF RestInv
<1>4. Follows(e, token)
  <2>1. CASE token = None
    BY <2>1 DEF Follows
  <2>2. CASE token # None
    <3>1. RestFollows
      BY DEF RestInv
    <3>2. After(e, token)
      BY <2>2, <3>1 DEF RestFollows
    <3>. QED  BY <1>2, <2>2, <3>2, AfterFollows
  <2>. QED  BY <2>1, <2>2
<1>. QED  BY <1>1, <1>3, <1>4, WhereIsRows

\* If it is not on a page that has a token, it comes after that token.
LEMMA RestFollowsToken ==
    ASSUME TypeOK, RestInv, NEW asked \in Sizes, ListEvents(asked),
           NEW last \in LastOfPage(Readable(asked), PageSize(asked)),
           NEW e \in (since \cap filter) \ (Unreadable \cup Returned'),
           e \notin Returned
    PROVE  After(e, Key(last[1]))
<1>. DEFINE row == <<e, 1>>
<1>1. row \in Where(token)
  BY ListEventsStep, RestIsFound
<1>2. row \notin page'
  BY DEF Returned
<1>3. /\ Readable(asked) \in SUBSET Rows /\ Where(token) \in SUBSET Rows
      /\ PageSize(asked) \in Nat \ {0}
      /\ page' = First(PageSize(asked), Readable(asked))
  BY PageIsFetched, ListEventsStep
<1>4. last \in Readable(asked) /\ last \in Fetched(asked) /\ last \in Rows
  BY <1>3 DEF LastOfPage, Readable
<1>5. Precedes(last, row)
  <2>1. CASE row \in Fetched(asked)
    <3>1. row \in Readable(asked) \ First(PageSize(asked), Readable(asked))
      BY <1>2, <1>3, <2>1 DEF Readable
    <3>. QED  BY <1>3, <3>1, LastEndsThePage
  <2>2. CASE row \notin Fetched(asked)
    <3>1. PageSize(asked) + 1 \in Nat
      BY <1>3
    <3>2. last \in First(PageSize(asked) + 1, Where(token))
      BY <1>4 DEF Fetched
    <3>3. row \in Where(token) \ First(PageSize(asked) + 1, Where(token))
      BY <1>1, <2>2 DEF Fetched
    <3>. QED  BY <1>3, <3>1, <3>2, <3>3, FirstComesFirst
  <2>. QED  BY <2>1, <2>2
<1>6. last[2] \in 1 .. MaxCopies
  BY <1>4 DEF Rows
<1>. QED  BY <1>5, <1>6 DEF Precedes

\* A page without a token has everything the query found, unless a row failed to scan.
LEMMA LastPageIsAll ==
    ASSUME TypeOK, NEW asked \in Sizes, ListEvents(asked),
           Cardinality(Readable(asked)) <= PageSize(asked), Readable(asked) = Fetched(asked)
    PROVE  page' = Where(token)
<1>1. /\ Readable(asked) \in SUBSET Rows /\ Where(token) \in SUBSET Rows
      /\ PageSize(asked) \in Nat
      /\ page' = First(PageSize(asked), Readable(asked))
  BY PageIsFetched, ListEventsStep
<1>2. page' = Readable(asked)
  BY <1>1, FirstOfFew
<1>3. First(PageSize(asked) + 1, Where(token)) = Where(token)
  <2>1. Cardinality(First(PageSize(asked) + 1, Where(token))) <= PageSize(asked)
    BY DEF Fetched
  <2>. QED  BY <1>1, <2>1, ShortFirstIsAll
<1>. QED  BY <1>2, <1>3 DEF Fetched

\* RestInv is kept by every step.
LEMMA RestStep ==
    ASSUME TypeOK, RestInv, [Next]_vars
    PROVE  RestInv'
<1>1. ASSUME NEW asked \in Sizes, ListEvents(asked) PROVE RestInv'
  <2>1. ~ done /\ UNCHANGED <<table, filter, since>> /\ returned' = Returned
    BY <1>1, ListEventsStep
  <2>2. \A e \in since' : table'[e] > 0
    BY <2>1 DEF RestInv
  <2>3. \A e \in Returned : e \in Returned'
    BY <2>1 DEF Returned
  <2>4. CASE /\ \E last \in LastOfPage(Readable(asked), PageSize(asked)) : token' = Key(last[1])
             /\ done' = FALSE
    <3>1. PICK last \in LastOfPage(Readable(asked), PageSize(asked)) : token' = Key(last[1])
      BY <2>4
    <3>2. ASSUME NEW e \in (since' \cap filter') \ (Unreadable \cup Returned')
          PROVE  After(e, token')
      <4>1. e \in (since \cap filter) \ (Unreadable \cup Returned') /\ e \notin Returned
        BY <2>1, <2>3, <3>2
      <4>2. After(e, Key(last[1]))
        BY <1>1, <4>1, RestFollowsToken
      <4>. QED  BY <3>1, <4>2
    <3>3. RestFollows'
      BY <3>2 DEF RestFollows
    <3>4. NothingMissing'
      BY <2>4 DEF NothingMissing
    <3>. QED  BY <2>2, <3>3, <3>4 DEF RestInv
  <2>5. CASE done' = TRUE /\ Cardinality(Readable(asked)) <= PageSize(asked)
    <3>1. ASSUME ~ skipped', NEW e \in (since' \cap filter') \ Unreadable
          PROVE  e \in Returned'
      <4>1. CASE e \in Returned
        BY <2>3, <4>1
      <4>2. CASE e \notin Returned
        <5>1. e \in (since \cap filter) \ (Unreadable \cup Returned)
          BY <2>1, <3>1, <4>2
        <5>2. <<e, 1>> \in Where(token)
          BY <2>1, <5>1, RestIsFound
        <5>3. Readable(asked) = Fetched(asked)
          BY <1>1, <3>1, ListEventsStep
        <5>4. <<e, 1>> \in page'
          BY <1>1, <2>5, <5>2, <5>3, LastPageIsAll
        <5>. QED  BY <5>4 DEF Returned
      <4>. QED  BY <4>1, <4>2
    <3>2. NothingMissing'
      BY <3>1 DEF NothingMissing
    <3>3. RestFollows'
      BY <2>5 DEF RestFollows
    <3>. QED  BY <2>2, <3>2, <3>3 DEF RestInv
  <2>. QED  BY <1>1, <2>4, <2>5, ListEventsStep
<1>2. ASSUME NEW e \in Events, Insert(e) PROVE RestInv'
  <2>1. /\ table' = [table EXCEPT ![e] = @ + 1]
        /\ UNCHANGED <<filter, token, page, returned, done, since, skipped>>
    BY <1>2 DEF Insert, client
  <2>2. \A d \in since' : table'[d] > 0
    <3>. SUFFICES ASSUME NEW d \in since PROVE table'[d] > 0
      BY <2>1
    <3>1. d \in Events /\ table[d] \in 0 .. MaxCopies /\ table[d] > 0 /\ table \in [Events -> 0 .. MaxCopies]
      BY DEF TypeOK, RestInv
    <3>. QED  BY <2>1, <3>1
  <2>. QED  BY <2>1, <2>2 DEF RestInv, RestFollows, NothingMissing, Returned
<1>3. ASSUME NEW e \in Events, Expire(e) PROVE RestInv'
  <2>1. /\ table' = [table EXCEPT ![e] = 0] /\ since' = since \ {e}
        /\ UNCHANGED <<filter, token, page, returned, done, skipped>>
    BY <1>3 DEF Expire, client
  <2>2. \A d \in since' : table'[d] > 0
    BY <2>1 DEF TypeOK, RestInv
  <2>. QED  BY <2>1, <2>2 DEF RestInv, RestFollows, NothingMissing, Returned
<1>4. CASE UNCHANGED vars
  BY <1>4 DEF vars, client, history, RestInv, RestFollows, NothingMissing, Returned
<1>. QED  BY <1>1, <1>2, <1>3, <1>4 DEF Next

\* A list that ended has every event that matched and was in the table all along, unless a row
\* failed to scan: inserts, expiries and duplicate rows between two pages hide nothing.
THEOREM ListIsComplete == Spec => []NothingMissing
<1>1. Init => RestInv
  BY DEF Init, RestInv, RestFollows, NothingMissing
<1>2. TypeOK /\ RestInv /\ [Next]_vars => RestInv'
  BY RestStep
<1>3. RestInv => NothingMissing
  BY DEF RestInv
<1>. QED  BY <1>1, <1>2, <1>3, TypeCorrect, PTL DEF Spec

-----------------------------------------------------------------------------
(* The count.                                                               *)

\* CountInv is kept by every step.
LEMMA CountStep ==
    ASSUME TypeOK, CountInv, [Next]_vars
    PROVE  CountInv'
<1>1. ASSUME NEW asked \in Sizes, ListEvents(asked) PROVE CountInv'
  <2>1. UNCHANGED <<table, filter, since, changed>> /\ returned' = Returned
    BY <1>1, ListEventsStep
  <2>2. \A x \in page' : x[1] \in filter /\ table[x[1]] > 0 /\ x[1] \in Events
    BY <1>1, PageIsRows, WhereIsRows DEF Rows
  <2>3. \A e \in Returned' : e \in Returned \/ \E x \in page' : e = x[1]
    BY <2>1 DEF Returned
  <2>4. Returned' \subseteq filter'
    BY <2>1, <2>2, <2>3 DEF CountInv
  <2>5. ASSUME ~ changed'
        PROVE  since' = {e \in Events : table'[e] > 0} /\ Returned' \subseteq since'
    <3>1. since = {e \in Events : table[e] > 0} /\ Returned \subseteq since
      BY <2>1, <2>5 DEF CountInv
    <3>2. ASSUME NEW e \in Returned' PROVE e \in since
      <4>1. CASE e \in Returned
        BY <3>1, <4>1
      <4>2. CASE \E x \in page' : e = x[1]
        BY <2>2, <3>1, <4>2
      <4>. QED  BY <2>3, <4>1, <4>2
    <3>3. since' = since /\ table' = table
      BY <2>1
    <3>. QED  BY <3>1, <3>2, <3>3
  <2>6. ASSUME skipped' PROVE filter' \cap Unreadable # {}
    <3>1. Readable(asked) # Fetched(asked)
      BY <1>1, <2>6, ListEventsStep
    <3>2. PICK x \in Fetched(asked) : x[1] \in Unreadable
      BY <3>1 DEF Readable
    <3>3. x \in Where(token)
      BY DEF Fetched, First
    <3>. QED  BY <2>1, <3>2, <3>3, WhereIsRows
  <2>. QED  BY <2>4, <2>5, <2>6 DEF CountInv
<1>2. ASSUME NEW e \in Events, Insert(e) \/ Expire(e) PROVE CountInv'
  <2>1. changed' = TRUE /\ UNCHANGED <<filter, page, returned, skipped>>
    BY <1>2 DEF Insert, Expire, client
  <2>. QED  BY <2>1 DEF CountInv, Returned
<1>3. CASE UNCHANGED vars
  BY <1>3 DEF vars, client, history, CountInv, Returned
<1>. QED  BY <1>1, <1>2, <1>3 DEF Next

\* Each returned event has its first row in what CountEvents counts.
LEMMA ReturnedIsCounted ==
    ASSUME TypeOK, CountInv, ~ changed
    PROVE  /\ [e \in Returned |-> <<e, 1>>] \in Injection(Returned, Where(None))
           /\ IsFiniteSet(Where(None)) /\ IsFiniteSet(Returned)
           /\ Cardinality(Returned) \in Nat /\ Cardinality(Where(None)) \in Nat
           /\ Cardinality(Returned) <= Cardinality(Where(None))
           /\ Cardinality(Returned) = Cardinality(Where(None))
                <=> [e \in Returned |-> <<e, 1>>] \in Surjection(Returned, Where(None))
<1>. DEFINE first == [e \in Returned |-> <<e, 1>>]
<1>1. \A e \in Returned : <<e, 1>> \in Where(None)
  <2>1. ASSUME NEW e \in Returned PROVE <<e, 1>> \in Where(None)
    <3>1. e \in filter /\ table[e] > 0
      BY DEF CountInv
    <3>2. Follows(e, None)
      BY DEF Follows
    <3>. QED  BY <3>1, <3>2, WhereIsRows
  <2>. QED  BY <2>1
<1>2. first \in Injection(Returned, Where(None))
  BY <1>1 DEF Injection, IsInjective
<1>3. IsFiniteSet(Where(None)) /\ Cardinality(Where(None)) \in Nat
  BY WhereIsRows, RowsAreFinite
<1>4. /\ IsFiniteSet(Returned)
      /\ Cardinality(Returned) <= Cardinality(Where(None))
      /\ Cardinality(Returned) = Cardinality(Where(None)) <=> first \in Surjection(Returned, Where(None))
  <2>. HIDE DEF first
  <2>. QED  BY <1>2, <1>3, FS_Injection
<1>5. Cardinality(Returned) \in Nat
  BY <1>4, FS_CardinalityType
<1>. QED  BY <1>2, <1>3, <1>4, <1>5

\* On a table at rest with one row per event, what was counted was returned.
LEMMA CountedIsReturned ==
    ASSUME TypeOK, RestInv, CountInv, ~ changed, done, filter \cap Unreadable = {},
           \A e \in filter : table[e] <= 1
    PROVE  [e \in Returned |-> <<e, 1>>] \in Surjection(Returned, Where(None))
<1>1. ASSUME NEW x \in Where(None) PROVE x[1] \in Returned /\ x = <<x[1], 1>>
  <2>1. x \in filter \X (1 .. MaxCopies) /\ x[2] <= table[x[1]] /\ x[1] \in filter
    BY DEF Where
  <2>2. table[x[1]] \in 0 .. MaxCopies /\ table[x[1]] <= 1 /\ x[1] \in Events
    BY <2>1 DEF TypeOK
  <2>3. x[2] = 1 /\ table[x[1]] > 0
    BY <2>1, <2>2
  <2>4. x[1] \in (since \cap filter) \ Unreadable
    <3>1. since = {e \in Events : table[e] > 0}
      BY DEF CountInv
    <3>. QED  BY <2>1, <2>2, <2>3, <3>1
  <2>5. ~ skipped /\ NothingMissing
    BY DEF CountInv, RestInv
  <2>6. x[1] \in Returned
    BY <2>4, <2>5 DEF NothingMissing
  <2>. QED  BY <2>1, <2>3, <2>6
<1>2. [e \in Returned |-> <<e, 1>>] \in [Returned -> Where(None)]
  BY ReturnedIsCounted DEF Injection
<1>. QED  BY <1>1, <1>2 DEF Surjection

\* CountEvents agrees with the pages.
LEMMA CountAgrees ==
    ASSUME TypeOK, RestInv, CountInv
    PROVE  CountCoversPages
<1>. SUFFICES ASSUME ~ changed
              PROVE  /\ Cardinality(Returned) <= CountEvents
                     /\ done /\ filter \cap Unreadable = {} /\ (\A e \in filter : table[e] <= 1)
                          => Cardinality(Returned) = CountEvents
  BY DEF CountCoversPages
<1>1. CountEvents = Cardinality(Where(None))
  BY DEF CountEvents
<1>2. Cardinality(Returned) <= CountEvents
  BY <1>1, ReturnedIsCounted
<1>3. ASSUME done, filter \cap Unreadable = {}, \A e \in filter : table[e] <= 1
      PROVE  Cardinality(Returned) = CountEvents
  <2>1. [e \in Returned |-> <<e, 1>>] \in Surjection(Returned, Where(None))
    BY <1>3, CountedIsReturned
  <2>. QED  BY <1>1, <2>1, ReturnedIsCounted
<1>. QED  BY <1>2, <1>3

\* On a table that does not change CountEvents never says less than the pages have, and as much
\* once the list has ended, one row per event and every row readable.
THEOREM CountMatchesPages == Spec => []CountCoversPages
<1>1. Init => RestInv /\ CountInv
  <2>. SUFFICES ASSUME Init PROVE RestInv /\ CountInv
    OBVIOUS
  <2>1. RestInv
    BY DEF Init, RestInv, RestFollows, NothingMissing
  <2>2. Returned = {}
    BY DEF Init, Returned
  <2>3. CountInv
    BY <2>2 DEF Init, CountInv
  <2>. QED  BY <2>1, <2>3
<1>2. TypeOK /\ RestInv /\ CountInv /\ [Next]_vars => (RestInv /\ CountInv)'
  BY RestStep, CountStep
<1>3. TypeOK /\ RestInv /\ CountInv => CountCoversPages
  BY CountAgrees
<1>. QED  BY <1>1, <1>2, <1>3, TypeCorrect, PTL DEF Spec
=============================================================================
