------------------------ MODULE ExampleUsers_proofs ------------------------
(***************************************************************************)
(* Proofs about the User of the example service, for any number of         *)
(* requests and of attempts to undelete.                                   *)
(***************************************************************************)
EXTENDS ExampleUsers, FiniteSetTheorems, TLAPS

Acts(r) ==
    \/ Start(r) \/ Insert(r) \/ GetForUpdate(r) \/ Update(r) \/ GetForDelete(r) \/ Delete(r)
    \/ Probe(r) \/ Reread(r) \/ GetForUndelete(r) \/ Undelete(r) \/ RereadRestored(r)
    \/ LastLook(r) \/ Fail(r)

-----------------------------------------------------------------------------
(* The kinds of steps: a request begins, goes on or is answered, reads the  *)
(* row it will change, writes it, or fails an attempt to undelete.          *)

Advances(r, step) ==
    /\ Advance(r, step)
    /\ \/ pc[r] = "insert" /\ state # "none" /\ step = "exists"
       \/ pc[r] = "get" /\ op[r] = "update" /\ state # "active" /\ step \in {"insert", "notFound"}
       \/ pc[r] = "get" /\ op[r] \in {"update", "delete"} /\ Stale(r) /\ step = "mismatch"
       \/ pc[r] = "get" /\ op[r] = "delete" /\ state # "active" /\ step = "notFound"
       \/ pc[r] = "get" /\ op[r] = "delete" /\ state = "deleted" /\ step = "ok"
       \/ pc[r] = "get" /\ op[r] = "undelete" /\ state = "none" /\ step = "notFound"
       \/ pc[r] = "get" /\ op[r] = "undelete" /\ state = "active" /\ step = "ok"
       \/ pc[r] = "get" /\ op[r] = "undelete" /\ state = "deleted" /\ step = "undelete"
       \/ pc[r] = "probe" /\ state # "deleted" /\ step = "mismatch"
       \/ pc[r] = "probe" /\ state = "deleted" /\ step = "notFound"
       \/ pc[r] = "probe" /\ state = "deleted" /\ op[r] = "delete" /\ step = "ok"
       \/ pc[r] = "reread" /\ op[r] = "update" /\ state # "active" /\ step = "notFound"
       \/ pc[r] = "reread" /\ op[r] # "undelete" /\ step = "ok"
       \/ pc[r] = "reread" /\ op[r] = "undelete" /\ state = "active" /\ step = "ok"
       \/ pc[r] = "last" /\ state = "active" /\ step = "ok"
       \/ pc[r] = "last" /\ state # "active" /\ step = "mismatch"
       \/ pc[r] = "update" /\ ~(state = "active" /\ etag = seen[r]) /\ step = "probe"
       \/ pc[r] = "delete" /\ ~(state = "active" /\ etag = seen[r]) /\ step = "probe"
       \/ pc[r] \in Steps /\ step = "error"

Reads(r, step) ==
    /\ Read(r, step)
    /\ pc[r] = "get"
    /\ op[r] = step
    /\ step \in {"update", "delete"}
    /\ state = "active"
    /\ ~Stale(r)

Writing(r, n, newState, newEtag, step) ==
    /\ Write(r, n, newState, newEtag, step)
    /\ \/ /\ pc[r] = "insert" /\ state = "none" /\ n = 1
          /\ newState = "active" /\ newEtag = <<r, n>> /\ step \in {"ok", "error"}
          /\ overwrote' = overwrote
       \/ /\ pc[r] = "update" /\ state = "active" /\ etag = seen[r] /\ n = 1
          /\ newState = "active" /\ newEtag = <<r, n>> /\ step = "reread"
          /\ overwrote' = [overwrote EXCEPT ![r] = wrote \ base[r]]
       \/ /\ pc[r] = "delete" /\ state = "active" /\ etag = seen[r] /\ n = 1
          /\ newState = "deleted" /\ newEtag = etag /\ step = "reread"
          /\ overwrote' = [overwrote EXCEPT ![r] = wrote \ base[r]]
       \/ /\ pc[r] = "undelete" /\ state = "deleted" /\ n = attempts[r] + 1
          /\ newState = "active" /\ newEtag = <<r, n>> /\ step = "reread"
          /\ overwrote' = overwrote

Misses(r) ==
    /\ Missed(r)
    /\ \/ pc[r] = "undelete" /\ state # "deleted"
       \/ pc[r] = "reread" /\ op[r] = "undelete" /\ state # "active"

Kinds(r) ==
    \/ Start(r)
    \/ \E step \in Steps \cup Answers : Advances(r, step)
    \/ \E step \in Steps : Reads(r, step)
    \/ \E n \in 1 .. MaxAttempts, s \in States, e \in Etags, step \in Steps \cup Answers :
         Writing(r, n, s, e, step)
    \/ Misses(r)

LEMMA AdvanceKind ==
    ASSUME NEW r, NEW step \in Steps \cup Answers, Advances(r, step)
    PROVE  Kinds(r)
  BY DEF Kinds

LEMMA StepKinds ==
    ASSUME TypeOK, FlowInv, NEW r \in Requests, Acts(r)
    PROVE  Kinds(r)
<1> USE ConstantsAssumption DEF Steps, Answers
<1>1. CASE Start(r)
  BY <1>1 DEF Kinds
<1>2. CASE Insert(r)
  <2>1. CASE state # "none"
    <3>1. Advances(r, "exists")
      BY <1>2, <2>1 DEF Insert, Advances
    <3> QED BY <3>1, AdvanceKind
  <2>2. CASE state = "none"
    <3>1. PICK answer \in {"ok", "error"} : Write(r, 1, "active", <<r, 1>>, answer)
      BY <1>2, <2>2 DEF Insert
    <3>2. Writing(r, 1, "active", <<r, 1>>, answer)
      BY <1>2, <2>2, <3>1 DEF Insert, Writing
    <3>3. 1 \in 1 .. MaxAttempts /\ "active" \in States /\ <<r, 1>> \in Etags
      BY DEF States, Etags, Writes
    <3> QED BY <3>2, <3>3 DEF Kinds
  <2> QED BY <2>1, <2>2
<1>3. CASE GetForUpdate(r)
  <2>1. CASE state # "active"
    <3>1. \E step \in {"insert", "notFound"} : Advance(r, step)
      BY <1>3, <2>1 DEF GetForUpdate
    <3>2. \E step \in {"insert", "notFound"} : Advances(r, step)
      BY <1>3, <2>1, <3>1 DEF GetForUpdate, Advances
    <3> QED BY <3>2, AdvanceKind
  <2>2. CASE state = "active" /\ Stale(r)
    <3>1. Advances(r, "mismatch")
      BY <1>3, <2>2 DEF GetForUpdate, Advances
    <3> QED BY <3>1, AdvanceKind
  <2>3. CASE state = "active" /\ ~Stale(r)
    <3>1. Reads(r, "update")
      BY <1>3, <2>3 DEF GetForUpdate, Reads
    <3> QED BY <3>1 DEF Kinds
  <2> QED BY <2>1, <2>2, <2>3
<1>4. CASE Update(r)
  <2>1. CASE ~(state = "active" /\ etag = seen[r])
    <3>1. Advances(r, "probe")
      BY <1>4, <2>1 DEF Update, Advances
    <3> QED BY <3>1, AdvanceKind
  <2>2. CASE state = "active" /\ etag = seen[r]
    <3>1. Writing(r, 1, "active", <<r, 1>>, "reread")
      BY <1>4, <2>2 DEF Update, Writing
    <3>2. 1 \in 1 .. MaxAttempts /\ "active" \in States /\ <<r, 1>> \in Etags
      BY DEF States, Etags, Writes
    <3> QED BY <3>1, <3>2 DEF Kinds
  <2> QED BY <2>1, <2>2
<1>5. CASE GetForDelete(r)
  <2>1. CASE state = "none"
    <3>1. Advances(r, "notFound")
      BY <1>5, <2>1 DEF GetForDelete, Advances
    <3> QED BY <3>1, AdvanceKind
  <2>2. CASE state # "none" /\ Stale(r)
    <3>1. Advances(r, "mismatch")
      BY <1>5, <2>2 DEF GetForDelete, Advances
    <3> QED BY <3>1, AdvanceKind
  <2>3. CASE state = "deleted" /\ ~Stale(r)
    <3>1. Advances(r, "ok") \/ Advances(r, "notFound")
      BY <1>5, <2>3 DEF GetForDelete, Advances
    <3> QED BY <3>1, AdvanceKind
  <2>4. CASE state = "active" /\ ~Stale(r)
    <3>1. Reads(r, "delete")
      BY <1>5, <2>4 DEF GetForDelete, Reads
    <3> QED BY <3>1 DEF Kinds
  <2> QED BY <2>1, <2>2, <2>3, <2>4 DEF TypeOK, States
<1>6. CASE Delete(r)
  <2>1. CASE ~(state = "active" /\ etag = seen[r])
    <3>1. Advances(r, "probe")
      BY <1>6, <2>1 DEF Delete, Advances
    <3> QED BY <3>1, AdvanceKind
  <2>2. CASE state = "active" /\ etag = seen[r]
    <3>1. Writing(r, 1, "deleted", etag, "reread")
      BY <1>6, <2>2 DEF Delete, Writing
    <3>2. 1 \in 1 .. MaxAttempts /\ "deleted" \in States /\ etag \in Etags
      BY DEF States, TypeOK
    <3> QED BY <3>1, <3>2 DEF Kinds
  <2> QED BY <2>1, <2>2
<1>7. CASE Probe(r)
  <2>1. Advances(r, "mismatch") \/ Advances(r, "ok") \/ Advances(r, "notFound")
    BY <1>7 DEF Probe, Advances
  <2> QED BY <2>1, AdvanceKind
<1>8. CASE Reread(r)
  <2>1. Advances(r, "ok") \/ Advances(r, "notFound")
    BY <1>8 DEF Reread, Advances
  <2> QED BY <2>1, AdvanceKind
<1>9. CASE GetForUndelete(r)
  <2>1. Advances(r, "notFound") \/ Advances(r, "ok") \/ Advances(r, "undelete")
    BY <1>9 DEF GetForUndelete, Advances, TypeOK, States
  <2> QED BY <2>1, AdvanceKind
<1>10. CASE Undelete(r)
  <2>1. CASE state # "deleted"
    BY <1>10, <2>1 DEF Undelete, Misses, Kinds
  <2>2. CASE state = "deleted"
    <3>1. Writing(r, attempts[r] + 1, "active", <<r, attempts[r] + 1>>, "reread")
      BY <1>10, <2>2 DEF Undelete, Writing
    <3>2. attempts[r] + 1 \in 1 .. MaxAttempts
      BY <1>10 DEF TypeOK, FlowInv, Undelete
    <3>3. "active" \in States /\ <<r, attempts[r] + 1>> \in Etags
      BY <3>2 DEF States, Etags, Writes
    <3> QED BY <3>1, <3>2, <3>3 DEF Kinds
  <2> QED BY <2>1, <2>2
<1>11. CASE RereadRestored(r)
  <2>1. CASE state # "active"
    BY <1>11, <2>1 DEF RereadRestored, Misses, Kinds
  <2>2. CASE state = "active"
    <3>1. Advances(r, "ok")
      BY <1>11, <2>2 DEF RereadRestored, Advances
    <3> QED BY <3>1, AdvanceKind
  <2> QED BY <2>1, <2>2
<1>12. CASE LastLook(r)
  <2>1. Advances(r, "ok") \/ Advances(r, "mismatch")
    BY <1>12 DEF LastLook, Advances
  <2> QED BY <2>1, AdvanceKind
<1>13. CASE Fail(r)
  <2>1. Advances(r, "error")
    BY <1>13 DEF Fail, Advances
  <2> QED BY <2>1, AdvanceKind
<1> QED BY <1>1, <1>2, <1>3, <1>4, <1>5, <1>6, <1>7, <1>8, <1>9, <1>10, <1>11, <1>12, <1>13
         DEF Acts

-----------------------------------------------------------------------------
(* Type correctness and the flow of a request.                              *)

LEMMA TypeStep ==
    ASSUME TypeOK, FlowInv, NEW r \in Requests, Kinds(r)
    PROVE  TypeOK'
<1> USE DEF Goto, row, call, history
<1>1. CASE Start(r)
  <2>1. PICK kind \in Operations, allow \in BOOLEAN, e \in {None, etag} :
          /\ op' = [op EXCEPT ![r] = kind]
          /\ missing' = IF allow THEN missing \cup {r} ELSE missing
          /\ want' = [want EXCEPT ![r] = e]
          /\ pc' = [pc EXCEPT ![r] = IF kind = "create" THEN "insert" ELSE "get"]
    BY <1>1 DEF Start
  <2>2. op' \in [Requests -> Operations \cup {"none"}] /\ missing' \in SUBSET Requests
    BY <2>1 DEF TypeOK
  <2>3. want' \in [Requests -> Etags]
    BY <2>1 DEF TypeOK, Etags
  <2>4. pc' \in [Requests -> {"idle"} \cup Steps \cup Answers]
    BY <2>1 DEF TypeOK, Steps
  <2>5. /\ base' = [base EXCEPT ![r] = wrote]
        /\ held' = [held EXCEPT ![r] = {state}]
        /\ UNCHANGED <<state, etag, seen, attempts, wrote, overwrote>>
    BY <1>1 DEF Start
  <2> QED BY <2>2, <2>3, <2>4, <2>5 DEF TypeOK
<1>2. ASSUME NEW step \in Steps \cup Answers, Advances(r, step) PROVE TypeOK'
  BY <1>2 DEF Advances, Advance, TypeOK
<1>3. ASSUME NEW step \in Steps, Reads(r, step) PROVE TypeOK'
  BY <1>3 DEF Reads, Read, TypeOK
<1>4. ASSUME NEW n \in 1 .. MaxAttempts, NEW s \in States, NEW e \in Etags,
             NEW step \in Steps \cup Answers, Writing(r, n, s, e, step)
      PROVE  TypeOK'
  <2>1. /\ state' = s /\ etag' = e
        /\ wrote' = wrote \cup {<<r, n>>}
        /\ held' = [q \in Requests |-> held[q] \cup {s}]
        /\ pc' = [pc EXCEPT ![r] = step]
        /\ UNCHANGED <<op, missing, want, seen, attempts, base>>
    BY <1>4 DEF Writing, Write
  <2>2. overwrote' \in [Requests -> SUBSET Writes]
    BY <1>4 DEF Writing, TypeOK
  <2>3. <<r, n>> \in Writes
    BY DEF Writes
  <2>4. held' \in [Requests -> SUBSET States]
    BY <2>1 DEF TypeOK
  <2> QED BY <2>1, <2>2, <2>3, <2>4 DEF TypeOK
<1>5. CASE Misses(r)
  <2>1. attempts[r] + 1 \in 0 .. MaxAttempts
    BY <1>5, ConstantsAssumption DEF Misses, FlowInv, TypeOK
  <2>2. /\ attempts' = [attempts EXCEPT ![r] = attempts[r] + 1]
        /\ \E step \in {"get", "last"} : pc' = [pc EXCEPT ![r] = step]
        /\ UNCHANGED <<state, etag, op, missing, want, seen, wrote, base, overwrote, held>>
    BY <1>5 DEF Misses, Missed
  <2> QED BY <2>1, <2>2 DEF TypeOK, Steps
<1> QED BY <1>1, <1>2, <1>3, <1>4, <1>5 DEF Kinds

LEMMA FlowStep ==
    ASSUME TypeOK, FlowInv, NEW r \in Requests, Kinds(r)
    PROVE  FlowInv'
<1> USE DEF Goto, row, call, history
<1>1. CASE Start(r)
  <2>1. PICK kind \in Operations, e \in {None, etag} :
          /\ op' = [op EXCEPT ![r] = kind]
          /\ pc' = [pc EXCEPT ![r] = IF kind = "create" THEN "insert" ELSE "get"]
    BY <1>1 DEF Start
  <2>2. pc[r] = "idle" /\ attempts[r] = 0 /\ attempts' = attempts
    BY <1>1 DEF Start, FlowInv, TypeOK
  <2>3. 0 < MaxAttempts
    BY ConstantsAssumption
  <2> QED BY <2>1, <2>2, <2>3 DEF FlowInv, TypeOK, Operations
<1>2. ASSUME NEW step \in Steps \cup Answers, Advances(r, step) PROVE FlowInv'
  <2>1. pc' = [pc EXCEPT ![r] = step] /\ UNCHANGED <<op, attempts>>
    BY <1>2 DEF Advances, Advance
  <2>2. /\ step = "insert" => op[r] \in {"create", "update"}
        /\ step \notin {"idle", "get", "update", "delete", "reread", "last"}
        /\ step = "probe" => op[r] \in {"update", "delete"}
        /\ step = "undelete" => op[r] = "undelete" /\ attempts[r] < MaxAttempts
        /\ op[r] # "none"
    BY <1>2 DEF Advances, FlowInv, Steps, Answers
  <2> QED BY <2>1, <2>2 DEF FlowInv, TypeOK
<1>3. ASSUME NEW step \in Steps, Reads(r, step) PROVE FlowInv'
  BY <1>3 DEF Reads, Read, FlowInv, TypeOK
<1>4. ASSUME NEW n \in 1 .. MaxAttempts, NEW s \in States, NEW e \in Etags,
             NEW step \in Steps \cup Answers, Writing(r, n, s, e, step)
      PROVE  FlowInv'
  <2>1. pc' = [pc EXCEPT ![r] = step] /\ UNCHANGED <<op, attempts>>
    BY <1>4 DEF Writing, Write
  <2>2. /\ step \in {"ok", "error", "reread"}
        /\ op[r] # "none"
        /\ step = "reread" => op[r] \in {"update", "delete", "undelete"} /\ attempts[r] < MaxAttempts
    BY <1>4, ConstantsAssumption DEF Writing, FlowInv
  <2> QED BY <2>1, <2>2 DEF FlowInv, TypeOK
<1>5. CASE Misses(r)
  <2>1. /\ attempts' = [attempts EXCEPT ![r] = attempts[r] + 1]
        /\ pc' = [pc EXCEPT ![r] = IF attempts[r] + 1 < MaxAttempts THEN "get" ELSE "last"]
        /\ op' = op
        /\ op[r] = "undelete"
        /\ attempts[r] < MaxAttempts
    BY <1>5 DEF Misses, Missed, FlowInv
  <2> QED BY <2>1, ConstantsAssumption DEF FlowInv, TypeOK
<1> QED BY <1>1, <1>2, <1>3, <1>4, <1>5 DEF Kinds

-----------------------------------------------------------------------------
(* What a write is.                                                         *)

\* A write is new, and only a delete leaves the etag as it is.
LEMMA WriteFacts ==
    ASSUME TypeOK, FlowInv, WroteInv, VersionInv, NEW r \in Requests,
           NEW n \in 1 .. MaxAttempts, NEW s, NEW e, NEW step, Writing(r, n, s, e, step)
    PROVE  /\ <<r, n>> \notin wrote
           /\ <<r, n>> \in wrote'
           /\ \A q \in Requests \ {r} : By(q, wrote') = By(q, wrote)
           /\ By(r, wrote') = By(r, wrote) \cup {<<r, n>>}
           /\ op[r] = "delete" => e = etag /\ Given' = Given
           /\ op[r] # "delete" => e = <<r, n>> /\ e \notin Given /\ e # None
                                  /\ Given' = Given \cup {e}
           /\ s = "deleted" <=> op[r] = "delete"
           /\ s # "none"
<1>1. wrote' = wrote \cup {<<r, n>>} /\ op' = op
  BY DEF Writing, Write, call
<1>2. \/ pc[r] \in {"insert", "update", "delete"} /\ n = 1
      \/ pc[r] = "undelete" /\ n = attempts[r] + 1
  BY DEF Writing
<1>3. <<r, n>> \notin wrote
  <2>1. CASE pc[r] \in {"insert", "update", "delete"}
    <3>1. By(r, wrote) = {}
      BY <2>1 DEF WroteInv
    <3> QED BY <3>1 DEF By
  <2>2. CASE pc[r] = "undelete" /\ n = attempts[r] + 1
    <3>1. \A w \in By(r, wrote) : w[2] <= attempts[r]
      BY <2>2 DEF WroteInv, FlowInv, Steps
    <3>2. <<r, n>> \in wrote => n <= attempts[r]
      BY <3>1 DEF By
    <3>3. attempts[r] \in Nat
      BY DEF TypeOK
    <3> QED BY <2>2, <3>2, <3>3
  <2> QED BY <1>2, <2>1, <2>2
<1>4. \A q \in Requests \ {r} : By(q, wrote') = By(q, wrote)
  BY <1>1 DEF By
<1>5. By(r, wrote') = By(r, wrote) \cup {<<r, n>>}
  BY <1>1 DEF By
<1>6. /\ pc[r] \in {"insert", "update", "undelete"} => op[r] # "delete" /\ e = <<r, n>> /\ s = "active"
      /\ pc[r] = "delete" => op[r] = "delete" /\ e = etag /\ s = "deleted"
      /\ pc[r] \in {"insert", "update", "undelete", "delete"}
  <2>1. /\ pc[r] \in {"insert", "update", "undelete"} => e = <<r, n>> /\ s = "active"
        /\ pc[r] = "delete" => e = etag /\ s = "deleted"
        /\ pc[r] \in {"insert", "update", "undelete", "delete"}
    BY Zenon DEF Writing
  <2>2. /\ pc[r] \in {"insert", "update", "undelete"} => op[r] # "delete"
        /\ pc[r] = "delete" => op[r] = "delete"
    BY DEF FlowInv
  <2> QED BY <2>1, <2>2
<1>7. <<r, n>> # Initial /\ <<r, n>> # None
  <2>1. <<r, n>> \in Requests \X Nat
    OBVIOUS
  <2> QED BY <2>1, ConstantsAssumption
<1>8. op[r] = "delete" => Given' = Given
  BY <1>1 DEF Given
<1>9. op[r] # "delete" => Given' = Given \cup {<<r, n>>} /\ <<r, n>> \notin Given
  BY <1>1, <1>3, <1>7 DEF Given
<1> QED BY <1>1, <1>3, <1>4, <1>5, <1>6, <1>7, <1>8, <1>9

\* What steps other than writes leave as it is.
LEMMA NoWrite ==
    ASSUME TypeOK, FlowInv, WroteInv, NEW r \in Requests,
           \/ Start(r)
           \/ \E step \in Steps \cup Answers : Advances(r, step)
           \/ \E step \in Steps : Reads(r, step)
           \/ Misses(r)
    PROVE  /\ UNCHANGED <<state, etag, wrote, overwrote>>
           /\ Given' = Given
           /\ \A q \in Requests : By(q, wrote') = By(q, wrote)
           /\ \A q \in Requests \ {r} : /\ pc'[q] = pc[q]
                                        /\ op'[q] = op[q]
                                        /\ want'[q] = want[q]
                                        /\ seen'[q] = seen[q]
                                        /\ base'[q] = base[q]
                                        /\ held'[q] = held[q]
                                        /\ attempts'[q] = attempts[q]
           /\ ~Start(r) => op' = op /\ want' = want /\ held' = held
<1> USE DEF Goto, row, call, history
<1>1. UNCHANGED <<state, etag, wrote, overwrote>>
  BY DEF Start, Advances, Advance, Reads, Read, Misses, Missed
<1>2. \A w \in wrote : w[1] \in Requests /\ op'[w[1]] = op[w[1]]
  <2>1. CASE Start(r)
    <3>1. \A w \in wrote : w[1] \in Requests /\ w[1] # r
      BY <2>1 DEF Start, WroteInv, By, TypeOK, Writes
    <3> QED BY <2>1, <3>1 DEF Start, TypeOK
  <2>2. CASE ~Start(r)
    <3>1. op' = op
      BY <2>2 DEF Advances, Advance, Reads, Read, Misses, Missed
    <3> QED BY <3>1 DEF TypeOK, Writes
  <2> QED BY <2>1, <2>2
<1>3. Given' = Given
  BY <1>1, <1>2 DEF Given
<1>4. \A q \in Requests : By(q, wrote') = By(q, wrote)
  BY <1>1 DEF By
<1>5. \A q \in Requests \ {r} : /\ pc'[q] = pc[q]
                                /\ op'[q] = op[q]
                                /\ want'[q] = want[q]
                                /\ seen'[q] = seen[q]
                                /\ base'[q] = base[q]
                                /\ held'[q] = held[q]
                                /\ attempts'[q] = attempts[q]
  BY DEF TypeOK, Start, Advances, Advance, Reads, Read, Misses, Missed
<1>6. ~Start(r) => op' = op /\ want' = want /\ held' = held
  BY DEF Advances, Advance, Reads, Read, Misses, Missed
<1> QED BY <1>1, <1>3, <1>4, <1>5, <1>6

\* What a write leaves as it is.
LEMMA WriteFrame ==
    ASSUME TypeOK, NEW r \in Requests, NEW n, NEW s, NEW e, NEW step, Writing(r, n, s, e, step)
    PROVE  /\ UNCHANGED <<op, missing, want, seen, attempts, base>>
           /\ state' = s /\ etag' = e
           /\ wrote' = wrote \cup {<<r, n>>}
           /\ pc'[r] = step
           /\ \A q \in Requests \ {r} : pc'[q] = pc[q]
           /\ \A q \in Requests : held'[q] = held[q] \cup {s}
  BY DEF Writing, Write, Goto, call, TypeOK

LEMMA WroteStep ==
    ASSUME TypeOK, FlowInv, WroteInv, VersionInv, NEW r \in Requests, Kinds(r)
    PROVE  WroteInv'
<1> USE DEF Goto, row, call, history
<1>1. CASE Start(r)
  <2>1. /\ pc'[r] \in {"insert", "get"} /\ By(r, wrote) = {}
        /\ base'[r] = wrote /\ wrote' = wrote /\ state' = state
    BY <1>1 DEF Start, WroteInv, TypeOK
  <2> QED BY <1>1, <2>1, NoWrite DEF WroteInv
<1>2. ASSUME NEW step \in Steps \cup Answers, Advances(r, step) PROVE WroteInv'
  <2>1. pc' = [pc EXCEPT ![r] = step] /\ UNCHANGED <<op, base, attempts>>
    BY <1>2 DEF Advances, Advance
  <2>2. /\ step \in {"insert", "exists", "probe"} => By(r, wrote) = {}
        /\ step = "mismatch" /\ op[r] # "undelete" => By(r, wrote) = {}
        /\ step = "notFound" /\ op[r] # "update" => By(r, wrote) = {}
        /\ step = "undelete" => pc[r] = "get" /\ op[r] = "undelete"
        /\ step \notin {"idle", "update", "delete", "get", "reread", "last"}
    BY <1>2 DEF Advances, WroteInv, FlowInv, By, Steps, Answers
  <2> QED BY <1>2, <2>1, <2>2, NoWrite DEF WroteInv, TypeOK, Steps, FlowInv
<1>3. ASSUME NEW step \in Steps, Reads(r, step) PROVE WroteInv'
  <2>1. /\ pc'[r] = step /\ pc[r] = "get" /\ op[r] = step /\ step \in {"update", "delete"}
        /\ base'[r] \in {base[r], wrote}
        /\ op' = op
    BY <1>3 DEF Reads, Read, TypeOK
  <2> QED BY <1>3, <2>1, NoWrite DEF WroteInv, TypeOK
<1>4. ASSUME NEW n \in 1 .. MaxAttempts, NEW s \in States, NEW e \in Etags,
             NEW step \in Steps \cup Answers, Writing(r, n, s, e, step)
      PROVE  WroteInv'
  <2>1. IsFiniteSet(wrote')
    <3>1. wrote' = wrote \cup {<<r, n>>}
      BY <1>4, WriteFrame
    <3> QED BY <3>1, FS_AddElement DEF WroteInv
  <2>2. /\ step \in {"ok", "error", "reread"}
        /\ step = "reread" /\ op[r] = "undelete" => n = attempts[r] + 1 /\ pc[r] = "undelete"
        /\ step = "reread" /\ op[r] = "update" => n = 1
    BY <1>4 DEF Writing, FlowInv
  <2>3. \A w \in By(r, wrote) : op[r] = "undelete" /\ pc[r] = "undelete" => w[2] <= attempts[r]
    BY DEF WroteInv, Steps
  <2>4. \A w \in By(r, wrote) : w[2] \in Nat
    BY DEF By, TypeOK, Writes
  <2>5. attempts[r] \in Nat
    BY DEF TypeOK
  <2>6. op[r] = "undelete" /\ step = "reread" => \A w \in By(r, wrote') : w[2] <= attempts[r] + 1
    <3> SUFFICES ASSUME op[r] = "undelete", step = "reread", NEW w \in By(r, wrote')
                 PROVE  w[2] <= attempts[r] + 1
      OBVIOUS
    <3>1. w \in By(r, wrote) \/ w = <<r, n>>
      BY <1>4, WriteFacts
    <3>2. n = attempts[r] + 1 /\ pc[r] = "undelete"
      BY <2>2
    <3>3. CASE w = <<r, n>>
      BY <2>5, <3>2, <3>3
    <3>4. CASE w \in By(r, wrote)
      BY <2>3, <2>4, <2>5, <3>2, <3>4
    <3> QED BY <3>1, <3>3, <3>4
  <2>7. ASSUME NEW q \in Requests \ {r}
        PROVE  /\ By(q, wrote') = By(q, wrote) /\ pc'[q] = pc[q] /\ op'[q] = op[q]
               /\ attempts'[q] = attempts[q] /\ base'[q] \subseteq wrote'
               /\ <<q, 1>> \in wrote => <<q, 1>> \in wrote'
    BY <1>4, WriteFacts, WriteFrame DEF WroteInv
  <2>8. base'[r] \subseteq wrote' /\ pc'[r] = step /\ op'[r] = op[r] /\ attempts'[r] = attempts[r]
    <3>1. base[r] \subseteq wrote
      BY DEF WroteInv
    <3>2. /\ UNCHANGED <<op, attempts, base>>
          /\ wrote' = wrote \cup {<<r, n>>}
          /\ pc'[r] = step
      BY <1>4, WriteFrame
    <3> QED BY <3>1, <3>2
  <2>9. <<r, n>> \in wrote' /\ state' # "none"
    BY <1>4, WriteFacts, WriteFrame
  <2> DEFINE Has(q) ==
        /\ base'[q] \subseteq wrote'
        /\ pc'[q] \in {"idle", "insert", "update", "delete", "probe", "exists"} => By(q, wrote') = {}
        /\ op'[q] # "undelete" /\ pc'[q] \in {"get", "mismatch"} => By(q, wrote') = {}
        /\ op'[q] # "update" /\ pc'[q] = "notFound" => By(q, wrote') = {}
        /\ op'[q] = "undelete" /\ pc'[q] \in Steps \ {"reread"} =>
             \A w \in By(q, wrote') : w[2] <= attempts'[q]
        /\ op'[q] = "undelete" /\ pc'[q] = "reread" =>
             \A w \in By(q, wrote') : w[2] <= attempts'[q] + 1
        /\ op'[q] = "update" /\ pc'[q] = "reread" => <<q, 1>> \in wrote'
  <2>10. ASSUME NEW q \in Requests \ {r} PROVE Has(q)
    BY <2>7 DEF WroteInv
  <2>11. Has(r)
    BY <2>2, <2>6, <2>8, <2>9 DEF Steps
  <2>12. \A q \in Requests : Has(q)
    BY <2>10, <2>11
  <2> QED BY <2>1, <2>9, <2>12 DEF WroteInv, Steps, By
<1>5. CASE Misses(r)
  <2>1. /\ attempts'[r] = attempts[r] + 1 /\ op' = op /\ base' = base
        /\ pc'[r] \in {"get", "last"}
        /\ op[r] = "undelete" /\ pc[r] \in {"undelete", "reread"}
        /\ attempts[r] \in Nat
    BY <1>5 DEF Misses, Missed, TypeOK, FlowInv
  <2>2. \A w \in By(r, wrote) : w[2] <= attempts[r] + 1
    <3>1. \A w \in By(r, wrote) : w[2] \in Nat
      BY DEF By, TypeOK, Writes
    <3>2. CASE pc[r] = "undelete"
      <4>1. \A w \in By(r, wrote) : w[2] <= attempts[r]
        BY <2>1, <3>2 DEF WroteInv, Steps
      <4> QED BY <2>1, <3>1, <4>1
    <3>3. CASE pc[r] = "reread"
      BY <2>1, <3>3 DEF WroteInv
    <3> QED BY <2>1, <3>2, <3>3
  <2> QED BY <1>5, <2>1, <2>2, NoWrite DEF WroteInv
<1> QED BY <1>1, <1>2, <1>3, <1>4, <1>5 DEF Kinds

-----------------------------------------------------------------------------
(* Versions.                                                                *)

LEMMA VersionStep ==
    ASSUME TypeOK, FlowInv, WroteInv, VersionInv, NEW r \in Requests, Kinds(r)
    PROVE  VersionInv'
<1> USE DEF Goto, row, call, history
<1>1. CASE Start(r)
  <2>1. /\ pc'[r] \in {"insert", "get"} /\ base'[r] = wrote
        /\ want'[r] = None \/ want'[r] = etag
    BY <1>1 DEF Start, TypeOK
  <2> QED BY <1>1, <2>1, NoWrite DEF VersionInv
<1>2. ASSUME NEW step \in Steps \cup Answers, Advances(r, step) PROVE VersionInv'
  <2>1. pc' = [pc EXCEPT ![r] = step] /\ UNCHANGED <<op, want, base, seen>>
    BY <1>2 DEF Advances, Advance
  <2>2. pc[r] \in Steps /\ step \notin {"update", "delete"}
    BY <1>2 DEF Advances, Steps, Answers
  <2>3. step = "probe" => wrote # base[r]
    BY <1>2 DEF Advances, VersionInv, Steps, Answers
  <2> QED BY <1>2, <2>1, <2>2, <2>3, NoWrite DEF VersionInv, TypeOK
<1>3. ASSUME NEW step \in Steps, Reads(r, step) PROVE VersionInv'
  <2>1. /\ pc'[r] = step /\ pc[r] = "get" /\ step \in {"update", "delete"}
        /\ seen'[r] = etag
        /\ base'[r] = IF want[r] = None THEN wrote ELSE base[r]
        /\ want' = want
        /\ state = "active"
        /\ want[r] # None => want[r] = etag
    BY <1>3 DEF Reads, Read, Stale, TypeOK
  <2>2. etag \in Given
    BY <2>1 DEF VersionInv
  <2>3. want[r] # None => wrote = base[r]
    BY <2>1 DEF VersionInv, Steps
  <2> QED BY <1>3, <2>1, <2>2, <2>3, NoWrite DEF VersionInv
<1>4. ASSUME NEW n \in 1 .. MaxAttempts, NEW s \in States, NEW e \in Etags,
             NEW step \in Steps \cup Answers, Writing(r, n, s, e, step)
      PROVE  VersionInv'
  <2>1. /\ state' = s /\ etag' = e /\ s # "none" /\ e # None /\ e \in Given'
        /\ Given \subseteq Given'
    <3>1. state' = s /\ etag' = e /\ s # "none"
      BY <1>4, WriteFrame, WriteFacts
    <3>2. op[r] = "delete" => state = "active"
      <4>1. pc[r] \in {"insert", "update", "undelete"} \/ state = "active"
        BY <1>4, Zenon DEF Writing
      <4> QED BY <4>1 DEF FlowInv
    <3>3. op[r] = "delete" => e = etag /\ e \in Given /\ Given' = Given /\ e # None
      <4>1. op[r] = "delete" => e = etag /\ Given' = Given
        BY <1>4, WriteFacts
      <4>2. state = "active" => etag # None /\ etag \in Given
        BY DEF VersionInv
      <4> QED BY <3>2, <4>1, <4>2
    <3>4. op[r] # "delete" => e # None /\ Given' = Given \cup {e}
      BY <1>4, WriteFacts
    <3> QED BY <3>1, <3>3, <3>4
  <2>2. s = "active" => e \notin Given
    BY <1>4, WriteFacts
  <2>3. \A q \in Requests : wrote' # base'[q]
    BY <1>4, WriteFrame, WriteFacts DEF WroteInv
  <2>4. UNCHANGED <<want, seen, base>> /\ \A q \in Requests \ {r} : pc'[q] = pc[q]
    BY <1>4, WriteFrame
  <2>5. pc'[r] \in {"ok", "error", "reread"}
    BY <1>4, WriteFrame DEF Writing
  <2>6. pc[r] \in {"insert", "update", "delete", "undelete"}
    BY <1>4 DEF Writing
  <2> QED BY <2>1, <2>2, <2>3, <2>4, <2>5, <2>6 DEF VersionInv, Steps
<1>5. CASE Misses(r)
  <2>1. pc'[r] \in {"get", "last"} /\ pc[r] \in {"undelete", "reread"} /\ UNCHANGED <<want, base>>
    BY <1>5 DEF Misses, Missed, TypeOK
  <2> QED BY <1>5, <2>1, NoWrite DEF VersionInv, Steps
<1> QED BY <1>1, <1>2, <1>3, <1>4, <1>5 DEF Kinds

LEMMA HeldStep ==
    ASSUME TypeOK, FlowInv, WroteInv, VersionInv, HeldInv, NEW r \in Requests, Kinds(r)
    PROVE  HeldInv'
<1> USE DEF Goto, row, call, history
<1>1. CASE Start(r)
  <2>1. pc'[r] \in {"insert", "get"} /\ held'[r] = {state}
    BY <1>1 DEF Start, TypeOK
  <2> QED BY <1>1, <2>1, NoWrite DEF HeldInv
<1>2. ASSUME NEW step \in Steps \cup Answers, Advances(r, step) PROVE HeldInv'
  <2>1. pc' = [pc EXCEPT ![r] = step] /\ UNCHANGED <<op, held>>
    BY <1>2 DEF Advances, Advance
  <2>2. pc[r] \in Steps /\ step # "reread"
    BY <1>2 DEF Advances, Steps, Answers
  <2> QED BY <1>2, <2>1, <2>2, NoWrite DEF HeldInv, TypeOK
<1>3. ASSUME NEW step \in Steps, Reads(r, step) PROVE HeldInv'
  <2>1. pc'[r] = step /\ pc[r] = "get" /\ step \in {"update", "delete"} /\ held' = held
    BY <1>3 DEF Reads, Read, TypeOK
  <2> QED BY <1>3, <2>1, NoWrite DEF HeldInv, Steps
<1>4. ASSUME NEW n \in 1 .. MaxAttempts, NEW s \in States, NEW e \in Etags,
             NEW step \in Steps \cup Answers, Writing(r, n, s, e, step)
      PROVE  HeldInv'
  <2>1. op[r] = "delete" => s = "deleted"
    BY <1>4, WriteFacts
  <2> QED BY <1>4, <2>1, WriteFrame DEF HeldInv
<1>5. CASE Misses(r)
  <2>1. pc'[r] \in {"get", "last"} /\ pc[r] \in {"undelete", "reread"} /\ held' = held
    BY <1>5 DEF Misses, Missed, TypeOK
  <2> QED BY <1>5, <2>1, NoWrite DEF HeldInv, Steps
<1> QED BY <1>1, <1>2, <1>3, <1>4, <1>5 DEF Kinds

LEMMA NoLostUpdateStep ==
    ASSUME TypeOK, FlowInv, WroteInv, VersionInv, NoLostUpdate, NEW r \in Requests, Kinds(r)
    PROVE  NoLostUpdate'
<1>1. ASSUME NEW n \in 1 .. MaxAttempts, NEW s \in States, NEW e \in Etags,
             NEW step \in Steps \cup Answers, Writing(r, n, s, e, step)
      PROVE  NoLostUpdate'
  <2>1. \/ overwrote' = overwrote
        \/ /\ pc[r] \in {"update", "delete"} /\ state = "active" /\ etag = seen[r]
           /\ overwrote' = [overwrote EXCEPT ![r] = wrote \ base[r]]
    BY <1>1, Zenon DEF Writing
  <2>2. pc[r] \in {"update", "delete"} /\ state = "active" /\ etag = seen[r] => wrote = base[r]
    BY DEF VersionInv
  <2> QED BY <2>1, <2>2 DEF NoLostUpdate, TypeOK
<1>2. CASE \/ Start(r)
           \/ \E step \in Steps \cup Answers : Advances(r, step)
           \/ \E step \in Steps : Reads(r, step)
           \/ Misses(r)
  <2>1. overwrote' = overwrote
    BY <1>2, NoWrite
  <2> QED BY <2>1 DEF NoLostUpdate
<1> QED BY <1>1, <1>2 DEF Kinds

-----------------------------------------------------------------------------
(* Answers.                                                                 *)

LEMMA AnswersStep ==
    ASSUME TypeOK, FlowInv, WroteInv, VersionInv, HeldInv, AnswersHold, NEW r \in Requests, Kinds(r)
    PROVE  AnswersHold'
<1> USE DEF Goto, row, call, history
<1>1. CASE Start(r)
  <2>1. pc'[r] \in {"insert", "get"}
    BY <1>1 DEF Start, TypeOK
  <2>2. /\ wrote' = wrote
        /\ \A q \in Requests \ {r} : pc'[q] = pc[q] /\ op'[q] = op[q] /\ held'[q] = held[q]
    BY <1>1, NoWrite
  <2> QED BY <2>1, <2>2 DEF AnswersHold
<1>2. ASSUME NEW step \in Steps \cup Answers, Advances(r, step) PROVE AnswersHold'
  <2>1. pc' = [pc EXCEPT ![r] = step] /\ UNCHANGED <<op, held, wrote>>
    BY <1>2 DEF Advances, Advance
  <2>2. state \in held[r] /\ state \in {"none", "active", "deleted"}
    BY <1>2 DEF Advances, HeldInv, TypeOK, States, Steps
  <2>3. /\ step = "ok" => \/ op[r] = "delete" /\ "deleted" \in held[r]
                          \/ op[r] = "update" /\ <<r, 1>> \in wrote
                          \/ op[r] = "undelete" /\ state = "active"
        /\ step = "exists" => state # "none"
        /\ step = "notFound" => /\ state # "active"
                                /\ op[r] = "undelete" => state = "none"
    BY <1>2, <2>2 DEF Advances, HeldInv, WroteInv, FlowInv, Steps, Answers
  <2>4. pc'[r] = step /\ \A q \in Requests \ {r} : pc'[q] = pc[q]
    BY <2>1 DEF TypeOK
  <2> QED BY <2>1, <2>2, <2>3, <2>4 DEF AnswersHold
<1>3. ASSUME NEW step \in Steps, Reads(r, step) PROVE AnswersHold'
  <2>1. pc'[r] \in {"update", "delete"}
    BY <1>3 DEF Reads, Read, TypeOK
  <2>2. /\ wrote' = wrote
        /\ \A q \in Requests \ {r} : pc'[q] = pc[q] /\ op'[q] = op[q] /\ held'[q] = held[q]
    BY <1>3, NoWrite
  <2> QED BY <2>1, <2>2 DEF AnswersHold
<1>4. ASSUME NEW n \in 1 .. MaxAttempts, NEW s \in States, NEW e \in Etags,
             NEW step \in Steps \cup Answers, Writing(r, n, s, e, step)
      PROVE  AnswersHold'
  <2>1. /\ pc'[r] \in {"ok", "error", "reread"}
        /\ pc'[r] = "ok" => n = 1 /\ op[r] \in {"create", "update"}
        /\ <<r, n>> \in wrote'
    BY <1>4, WriteFrame DEF Writing, FlowInv
  <2>2. /\ op' = op /\ wrote \subseteq wrote' /\ \A q \in Requests : held[q] \subseteq held'[q]
        /\ \A q \in Requests \ {r} : pc'[q] = pc[q]
    BY <1>4, WriteFrame
  <2> QED BY <2>1, <2>2 DEF AnswersHold
<1>5. CASE Misses(r)
  <2>1. pc'[r] \in {"get", "last"}
    BY <1>5 DEF Misses, Missed, TypeOK
  <2>2. /\ wrote' = wrote
        /\ \A q \in Requests \ {r} : pc'[q] = pc[q] /\ op'[q] = op[q] /\ held'[q] = held[q]
    BY <1>5, NoWrite
  <2> QED BY <2>1, <2>2 DEF AnswersHold
<1> QED BY <1>1, <1>2, <1>3, <1>4, <1>5 DEF Kinds

-----------------------------------------------------------------------------
(* Conflicts.                                                               *)

\* The writes that count against a request, before and after a step.
LEMMA DeletesKept ==
    ASSUME TypeOK, FlowInv, WroteInv, NEW r \in Requests,
           \/ Start(r)
           \/ \E step \in Steps \cup Answers : Advances(r, step)
           \/ \E step \in Steps : Reads(r, step)
           \/ Misses(r),
           NEW q \in Requests, base'[q] = base[q]
    PROVE  Others(q)' = Others(q) /\ DeletesByOthers(q)' = DeletesByOthers(q)
<1>1. /\ wrote' = wrote
      /\ \A p \in Requests : By(p, wrote') = By(p, wrote)
      /\ \A p \in Requests \ {r} : op'[p] = op[p]
      /\ ~Start(r) => op' = op
  BY NoWrite
<1>2. \A w \in wrote : op'[w[1]] = op[w[1]]
  <2>1. CASE Start(r)
    <3>1. \A w \in wrote : w[1] \in Requests /\ w[1] # r
      BY <2>1 DEF Start, WroteInv, By, TypeOK, Writes
    <3> QED BY <1>1, <3>1
  <2>2. CASE ~Start(r)
    BY <1>1, <2>2
  <2> QED BY <2>1, <2>2
<1>3. Others(q)' = Others(q)
  BY <1>1 DEF Others
<1>4. Others(q) \subseteq wrote
  BY DEF Others
<1> QED BY <1>2, <1>3, <1>4 DEF DeletesByOthers

LEMMA DeletesCounted ==
    ASSUME TypeOK, FlowInv, WroteInv, VersionInv, NEW r \in Requests,
           NEW n \in 1 .. MaxAttempts, NEW s, NEW e, NEW step, Writing(r, n, s, e, step),
           NEW q \in Requests
    PROVE  /\ Others(q) \subseteq Others(q)'
           /\ Cardinality(DeletesByOthers(q)) \in Nat
           /\ Cardinality(DeletesByOthers(q)') \in Nat
           /\ IF op[r] = "delete" /\ q # r
              THEN Cardinality(DeletesByOthers(q)') = Cardinality(DeletesByOthers(q)) + 1
              ELSE DeletesByOthers(q)' = DeletesByOthers(q)
<1>1. /\ <<r, n>> \notin wrote
      /\ wrote' = wrote \cup {<<r, n>>}
      /\ op' = op /\ base' = base
      /\ <<r, n>> \notin base[q]
  BY WriteFacts, WriteFrame DEF WroteInv
<1>2. IF q = r THEN Others(q)' = Others(q) ELSE Others(q)' = Others(q) \cup {<<r, n>>}
  BY <1>1 DEF Others, By
<1>3. <<r, n>> \notin DeletesByOthers(q)
  BY <1>1 DEF DeletesByOthers, Others
<1>4. IF op[r] = "delete" /\ q # r
      THEN DeletesByOthers(q)' = DeletesByOthers(q) \cup {<<r, n>>}
      ELSE DeletesByOthers(q)' = DeletesByOthers(q)
  BY <1>1, <1>2 DEF DeletesByOthers
<1>5. IsFiniteSet(DeletesByOthers(q))
  <2>1. DeletesByOthers(q) \subseteq wrote
    BY DEF DeletesByOthers, Others
  <2> QED BY <2>1, FS_Subset DEF WroteInv
<1>6. Cardinality(DeletesByOthers(q)) \in Nat
  BY <1>5, FS_CardinalityType
<1>7. Others(q) \subseteq Others(q)'
  BY <1>2
<1>8. CASE op[r] = "delete" /\ q # r
  <2>1. Cardinality(DeletesByOthers(q) \cup {<<r, n>>}) = Cardinality(DeletesByOthers(q)) + 1
    BY <1>3, <1>5, FS_AddElement
  <2>2. DeletesByOthers(q)' = DeletesByOthers(q) \cup {<<r, n>>}
    BY <1>4, <1>8
  <2>3. Cardinality(DeletesByOthers(q)') = Cardinality(DeletesByOthers(q)) + 1
    BY <2>1, <2>2
  <2> QED BY <1>6, <1>7, <1>8, <2>3
<1>9. CASE ~(op[r] = "delete" /\ q # r)
  <2>1. DeletesByOthers(q)' = DeletesByOthers(q)
    BY <1>4, <1>9
  <2>2. Cardinality(DeletesByOthers(q)') = Cardinality(DeletesByOthers(q))
    BY <2>1
  <2> QED BY <1>6, <1>7, <1>9, <2>1, <2>2
<1> QED BY <1>8, <1>9

LEMMA CountType ==
    ASSUME WroteInv, NEW q \in Requests
    PROVE  Cardinality(DeletesByOthers(q)) \in Nat
<1>1. DeletesByOthers(q) \subseteq wrote
  BY DEF DeletesByOthers, Others
<1> QED BY <1>1, FS_Subset, FS_CardinalityType DEF WroteInv

LEMMA CountStep ==
    ASSUME TypeOK, FlowInv, WroteInv, VersionInv, CountInv, NEW r \in Requests, Kinds(r)
    PROVE  CountInv'
<1> USE DEF Goto, row, call, history
<1> DEFINE Count(q) == Cardinality(DeletesByOthers(q))
           Has(q) ==
             /\ pc'[q] \in {"get", "last"} =>
                  attempts'[q] <= IF state' = "deleted" THEN Count(q)' ELSE Count(q)' + 1
             /\ pc'[q] \in {"undelete", "last"} => state' # "none"
             /\ pc'[q] = "undelete" => attempts'[q] <= Count(q)'
             /\ pc'[q] = "reread" =>
                  /\ state' # "none"
                  /\ attempts'[q] <= IF state' = "deleted" THEN Count(q)' - 1 ELSE Count(q)'
<1> SUFFICES ASSUME NEW q \in Requests, op'[q] = "undelete" PROVE Has(q)
  BY DEF CountInv
<1>1. Count(q) \in Nat /\ attempts[q] \in Nat
  BY CountType DEF TypeOK
<1>2. op[q] = "undelete" =>
             /\ pc[q] \in {"get", "last"} =>
                  attempts[q] <= IF state = "deleted" THEN Count(q) ELSE Count(q) + 1
             /\ pc[q] \in {"undelete", "last"} => state # "none"
             /\ pc[q] = "undelete" => attempts[q] <= Count(q)
             /\ pc[q] = "reread" =>
                  /\ state # "none"
                  /\ attempts[q] <= IF state = "deleted" THEN Count(q) - 1 ELSE Count(q)
  BY DEF CountInv
<1>3. CASE Start(r)
  <2>1. CASE q # r
    <3>1. /\ base'[q] = base[q] /\ pc'[q] = pc[q] /\ op'[q] = op[q] /\ attempts'[q] = attempts[q]
          /\ state' = state
      BY <1>3, <2>1, NoWrite
    <3>2. Count(q)' = Count(q)
      BY <1>3, <3>1, DeletesKept
    <3> HIDE DEF Count
    <3> QED BY <1>2, <3>1, <3>2
  <2>2. CASE q = r
    <3>1. /\ pc'[r] = "get" \/ pc'[r] = "insert"
          /\ attempts'[r] = 0
          /\ base'[r] = wrote /\ wrote' = wrote
      BY <1>3 DEF Start, FlowInv, TypeOK
    <3>2. DeletesByOthers(r)' = {}
      BY <3>1 DEF DeletesByOthers, Others
    <3>3. Count(r)' = 0
      BY <3>2, FS_EmptySet
    <3> HIDE DEF Count
    <3> QED BY <2>2, <3>1, <3>3
  <2> QED BY <2>1, <2>2
<1>4. ASSUME NEW step \in Steps \cup Answers, Advances(r, step) PROVE Has(q)
  <2>1. /\ pc' = [pc EXCEPT ![r] = step]
        /\ UNCHANGED <<state, op, base, attempts>>
    BY <1>4 DEF Advances, Advance
  <2>2. /\ step \notin {"get", "last", "reread"}
        /\ step = "undelete" => pc[r] = "get" /\ state = "deleted"
    BY <1>4 DEF Advances, Steps, Answers
  <2>3. Count(q)' = Count(q)
    BY <1>4, <2>1, DeletesKept
  <2> HIDE DEF Count
  <2>4. CASE q # r
    <3>1. pc'[q] = pc[q]
      BY <2>1, <2>4 DEF TypeOK
    <3> QED BY <1>2, <2>1, <2>3, <3>1
  <2>5. CASE q = r
    <3>1. pc'[q] = step
      BY <2>1, <2>5 DEF TypeOK
    <3> QED BY <1>2, <2>1, <2>2, <2>3, <2>5, <3>1
  <2> QED BY <2>4, <2>5
<1>5. ASSUME NEW step \in Steps, Reads(r, step) PROVE Has(q)
  <2>1. /\ op' = op /\ op[r] \in {"update", "delete"}
        /\ q # r
    BY <1>5 DEF Reads, Read
  <2>2. /\ base'[q] = base[q] /\ pc'[q] = pc[q] /\ attempts'[q] = attempts[q] /\ state' = state
    BY <1>5, <2>1, NoWrite
  <2>3. Count(q)' = Count(q)
    BY <1>5, <2>2, DeletesKept
  <2> HIDE DEF Count
  <2> QED BY <1>2, <2>1, <2>2, <2>3
<1>6. ASSUME NEW n \in 1 .. MaxAttempts, NEW s \in States, NEW e \in Etags,
             NEW step \in Steps \cup Answers, Writing(r, n, s, e, step)
      PROVE  Has(q)
  <2>1. /\ state' = s /\ op' = op /\ attempts' = attempts /\ pc'[r] = step
        /\ q # r => pc'[q] = pc[q]
        /\ s # "none"
        /\ s = "deleted" <=> op[r] = "delete"
    BY <1>6, WriteFrame, WriteFacts
  <2>2. /\ Count(q)' \in Nat
        /\ IF op[r] = "delete" /\ q # r THEN Count(q)' = Count(q) + 1 ELSE Count(q)' = Count(q)
    BY <1>6, DeletesCounted
  <2>3. op[r] = "delete" => state = "active"
    <3>1. pc[r] \in {"insert", "update", "undelete"} \/ state = "active"
      BY <1>6, Zenon DEF Writing
    <3> QED BY <3>1 DEF FlowInv
  <2>4. op[r] = "undelete" => step = "reread" /\ pc[r] = "undelete"
    BY <1>6 DEF Writing, FlowInv
  <2> HIDE DEF Count
  <2>5. CASE q = r
    BY <1>1, <1>2, <2>1, <2>2, <2>4, <2>5
  <2>6. CASE q # r
    BY <1>1, <1>2, <2>1, <2>2, <2>3, <2>6
  <2> QED BY <2>5, <2>6
<1>7. CASE Misses(r)
  <2>1. /\ UNCHANGED <<state, op, base>>
        /\ pc'[r] \in {"get", "last"} /\ attempts'[r] = attempts[r] + 1
        /\ q # r => pc'[q] = pc[q] /\ attempts'[q] = attempts[q]
        /\ \/ pc[r] = "undelete" /\ state # "deleted"
           \/ pc[r] = "reread" /\ state # "active"
    BY <1>7 DEF Misses, Missed, TypeOK
  <2>2. Count(q)' = Count(q)
    BY <1>7, <2>1, DeletesKept
  <2>3. state \in {"none", "active", "deleted"}
    BY DEF TypeOK, States
  <2> HIDE DEF Count
  <2>4. CASE q = r
    BY <1>1, <1>2, <2>1, <2>2, <2>3, <2>4
  <2>5. CASE q # r
    BY <1>2, <2>1, <2>2, <2>5
  <2> QED BY <2>4, <2>5
<1> QED BY <1>3, <1>4, <1>5, <1>6, <1>7 DEF Kinds

LEMMA ConflictsStep ==
    ASSUME TypeOK, FlowInv, WroteInv, VersionInv, CountInv, ConflictsAreReal,
           NEW r \in Requests, Kinds(r)
    PROVE  ConflictsAreReal'
<1> USE DEF Goto, row, call, history
<1> DEFINE Count(q) == Cardinality(DeletesByOthers(q))
           Real(q) == IF op[q] = "undelete" THEN Count(q) >= MaxAttempts ELSE Others(q) # {}
<1> SUFFICES ASSUME NEW q \in Requests, pc'[q] = "mismatch" PROVE Real(q)'
  BY DEF ConflictsAreReal
<1>1. pc[q] = "mismatch" => Real(q)
  BY DEF ConflictsAreReal
<1>2. MaxAttempts \in Nat /\ Count(q) \in Nat
  BY ConstantsAssumption, CountType
<1>3. CASE Start(r)
  <2>1. q # r
    BY <1>3 DEF Start, TypeOK
  <2>2. pc[q] = "mismatch" /\ op'[q] = op[q] /\ base'[q] = base[q]
    BY <1>3, <2>1, NoWrite
  <2> QED BY <1>1, <1>3, <2>2, DeletesKept
<1>4. ASSUME NEW step \in Steps \cup Answers, Advances(r, step) PROVE Real(q)'
  <2>1. pc' = [pc EXCEPT ![r] = step] /\ UNCHANGED <<op, base>>
    BY <1>4 DEF Advances, Advance
  <2>2. Count(q)' = Count(q) /\ Others(q)' = Others(q)
    BY <1>4, <2>1, DeletesKept
  <2>3. CASE q # r
    <3>1. pc[q] = "mismatch"
      BY <2>1, <2>3 DEF TypeOK
    <3> QED BY <1>1, <2>1, <2>2, <3>1
  <2>4. CASE q = r
    <3>1. step = "mismatch"
      BY <2>1, <2>4 DEF TypeOK
    <3>2. \/ pc[r] = "get" /\ op[r] \in {"update", "delete"} /\ Stale(r)
          \/ pc[r] = "probe"
          \/ pc[r] = "last" /\ state # "active"
      BY <1>4, <3>1 DEF Advances
    <3>3. CASE pc[r] = "last" /\ state # "active"
      <4>1. op[r] = "undelete" /\ attempts[r] = MaxAttempts
        BY <3>3 DEF FlowInv
      <4>2. state = "deleted"
        BY <3>3, <4>1 DEF CountInv, TypeOK, States
      <4>3. attempts[r] <= Count(r)
        BY <3>3, <4>1, <4>2 DEF CountInv
      <4> HIDE DEF Count
      <4> QED BY <1>2, <2>1, <2>2, <2>4, <4>1, <4>3
    <3>4. CASE \/ pc[r] = "get" /\ op[r] \in {"update", "delete"} /\ Stale(r)
               \/ pc[r] = "probe"
      <4>1. wrote # base[r]
        BY <3>4 DEF VersionInv, Stale, Steps
      <4>2. op[r] # "undelete" /\ By(r, wrote) = {} /\ base[r] \subseteq wrote
        BY <3>4 DEF WroteInv, FlowInv
      <4>3. Others(r) # {}
        BY <4>1, <4>2 DEF Others
      <4> QED BY <2>1, <2>2, <2>4, <4>2, <4>3
    <3> QED BY <3>2, <3>3, <3>4
  <2> QED BY <2>3, <2>4
<1>5. ASSUME NEW step \in Steps, Reads(r, step) PROVE Real(q)'
  <2>1. q # r
    BY <1>5 DEF Reads, Read, TypeOK
  <2>2. pc[q] = "mismatch" /\ op'[q] = op[q] /\ base'[q] = base[q]
    BY <1>5, <2>1, NoWrite
  <2> QED BY <1>1, <1>5, <2>2, DeletesKept
<1>6. ASSUME NEW n \in 1 .. MaxAttempts, NEW s \in States, NEW e \in Etags,
             NEW step \in Steps \cup Answers, Writing(r, n, s, e, step)
      PROVE  Real(q)'
  <2>1. pc'[r] # "mismatch"
    BY <1>6, WriteFrame DEF Writing
  <2>2. pc[q] = "mismatch" /\ op'[q] = op[q]
    BY <1>6, <2>1, WriteFrame
  <2>3. /\ Count(q)' \in Nat /\ Others(q) \subseteq Others(q)'
        /\ Count(q)' = Count(q) + 1 \/ Count(q)' = Count(q)
    BY <1>6, DeletesCounted
  <2> HIDE DEF Count
  <2>4. op[q] = "undelete" => Count(q)' >= MaxAttempts
    BY <1>1, <1>2, <2>2, <2>3
  <2>5. op[q] # "undelete" => Others(q)' # {}
    BY <1>1, <2>2, <2>3
  <2> QED BY <2>2, <2>4, <2>5
<1>7. CASE Misses(r)
  <2>1. q # r
    BY <1>7 DEF Misses, Missed, TypeOK
  <2>2. pc[q] = "mismatch" /\ op'[q] = op[q] /\ base'[q] = base[q]
    BY <1>7, <2>1, NoWrite
  <2> QED BY <1>1, <1>7, <2>2, DeletesKept
<1> QED BY <1>3, <1>4, <1>5, <1>6, <1>7 DEF Kinds

-----------------------------------------------------------------------------
(* The invariant.                                                           *)

LEMMA InitInv == Init => IInv
<1> SUFFICES ASSUME Init PROVE IInv
  OBVIOUS
<1> USE DEF Init
<1>1. TypeOK
  BY ConstantsAssumption DEF TypeOK, States, Etags
<1>2. FlowInv
  BY ConstantsAssumption DEF FlowInv
<1>3. WroteInv
  BY FS_EmptySet DEF WroteInv, By, Steps
<1>4. VersionInv
  BY ConstantsAssumption DEF VersionInv, Given, Steps
<1>5. HeldInv
  BY DEF HeldInv, Steps
<1>6. CountInv
  BY DEF CountInv
<1>7. NoLostUpdate
  BY DEF NoLostUpdate
<1>8. AnswersHold /\ ConflictsAreReal
  BY DEF AnswersHold, ConflictsAreReal
<1> QED BY <1>1, <1>2, <1>3, <1>4, <1>5, <1>6, <1>7, <1>8 DEF IInv

LEMMA StepInv == IInv /\ [Next]_vars => IInv'
<1> SUFFICES ASSUME IInv, [Next]_vars PROVE IInv'
  OBVIOUS
<1>1. CASE Next
  <2>1. PICK r \in Requests : Acts(r)
    BY <1>1 DEF Next, Acts
  <2>2. Kinds(r)
    BY <2>1, StepKinds DEF IInv
  <2> QED BY <2>2, TypeStep, FlowStep, WroteStep, VersionStep, HeldStep, CountStep,
             NoLostUpdateStep, AnswersStep, ConflictsStep DEF IInv
<1>2. CASE UNCHANGED vars
  BY <1>2 DEF vars, row, call, history, IInv, TypeOK, FlowInv, WroteInv, VersionInv, HeldInv,
     CountInv, NoLostUpdate, AnswersHold, ConflictsAreReal, Others, DeletesByOthers, Given, By, Stale
<1> QED BY <1>1, <1>2

\* The inductive invariant holds in every state of biz/user.go and data/user.go's requests.
THEOREM Invariance == Spec => []IInv
  BY InitInv, StepInv, PTL DEF Spec

\* Every request is at a step of its operation, with an etag there has been, and an undelete
\* has failed at most maxUndeleteAttempts times.
THEOREM TypeCorrect == Spec => []TypeOK
<1>1. IInv => TypeOK
  BY DEF IInv
<1> QED BY Invariance, <1>1, PTL

\* UpdateUser and DeleteUser write exactly the version that was read, or none.
THEOREM LosesNoUpdate == Spec => []NoLostUpdate
<1>1. IInv => NoLostUpdate
  BY DEF IInv
<1> QED BY Invariance, <1>1, PTL

\* What CreateUser, UpdateUser, DeleteUser and UndeleteUser answer was so during the call.
THEOREM AnswersAreTrue == Spec => []AnswersHold
<1>1. IInv => AnswersHold
  BY DEF IInv
<1> QED BY Invariance, <1>1, PTL

\* ETAG_MISMATCH is only answered when other writes came in between, to an undelete as many
\* deletes as it has attempts.
THEOREM ConflictsHappened == Spec => []ConflictsAreReal
<1>1. IInv => ConflictsAreReal
  BY DEF IInv
<1> QED BY Invariance, <1>1, PTL

\* A create, update or delete that is refused has written nothing, but for the update whose
\* row GetUser no longer finds when it is read back.
THEOREM RefusedWithoutEffect == Spec => []RefusalsWroteNothing
<1>1. IInv => RefusalsWroteNothing
  BY DEF IInv, WroteInv, FlowInv, RefusalsWroteNothing
<1> QED BY Invariance, <1>1, PTL

-----------------------------------------------------------------------------
(* The refinement.                                                          *)

LEMMA InitRefines == Init => Resource!Init
  BY DEF Init, Resource!Init, Given

\* A write is a step of the resource.
LEMMA WriteRefines ==
    ASSUME IInv, NEW r \in Requests, NEW n \in 1 .. MaxAttempts, NEW s \in States,
           NEW e \in Etags, NEW step, Writing(r, n, s, e, step)
    PROVE  Resource!Next
<1> USE DEF IInv
<1>1. state' = s /\ etag' = e
  BY WriteFrame
<1>2. /\ op[r] = "delete" => e = etag /\ Given' = Given
      /\ op[r] # "delete" => e = <<r, n>> /\ e \notin Given /\ Given' = Given \cup {e}
      /\ s = "deleted" <=> op[r] = "delete"
      /\ s # "none"
  BY WriteFacts
<1>3. <<r, n>> \in Writes
  BY DEF Writes
<1>4. op[r] = "delete" => state = "active"
  <2>1. pc[r] \in {"insert", "update", "undelete"} \/ state = "active"
    BY Zenon DEF Writing
  <2> QED BY <2>1 DEF FlowInv
<1>5. state \in {"none", "active", "deleted"} /\ s \in {"none", "active", "deleted"}
  BY DEF TypeOK, States
<1>6. CASE op[r] = "delete"
  <2>1. Resource!Delete
    BY <1>1, <1>2, <1>4, <1>6 DEF Resource!Delete
  <2> QED BY <2>1 DEF Resource!Next
<1>7. CASE op[r] # "delete"
  <2>1. \/ Resource!Renew("none", <<r, n>>)
        \/ Resource!Renew("active", <<r, n>>)
        \/ Resource!Renew("deleted", <<r, n>>)
    BY <1>1, <1>2, <1>5, <1>7 DEF Resource!Renew
  <2> QED BY <1>3, <2>1 DEF Resource!Next, Resource!Create, Resource!Change, Resource!Restore
<1> QED BY <1>6, <1>7

\* Every statement on the row is a step of the resource or none: the UPDATEs of data/user.go
\* carry every condition the promise needs.
THEOREM ImplementsVersionedResource == Spec => IsVersionedResource
<1>1. IInv /\ [Next]_vars => [Resource!Next]_(Resource!vars)
  <2> SUFFICES ASSUME IInv, [Next]_vars PROVE [Resource!Next]_(Resource!vars)
    OBVIOUS
  <2>1. CASE Next
    <3>1. PICK r \in Requests : Acts(r)
      BY <2>1 DEF Next, Acts
    <3>2. Kinds(r)
      BY <3>1, StepKinds DEF IInv
    <3>3. CASE \E n \in 1 .. MaxAttempts, s \in States, e \in Etags, step \in Steps \cup Answers :
                 Writing(r, n, s, e, step)
      BY <3>3, WriteRefines
    <3>4. CASE \/ Start(r)
               \/ \E step \in Steps \cup Answers : Advances(r, step)
               \/ \E step \in Steps : Reads(r, step)
               \/ Misses(r)
      BY <3>4, NoWrite DEF IInv, Resource!vars
    <3> QED BY <3>2, <3>3, <3>4 DEF Kinds
  <2>2. CASE UNCHANGED vars
    BY <2>2 DEF vars, row, call, history, Resource!vars, Given
  <2> QED BY <2>1, <2>2
<1> QED BY <1>1, InitRefines, Invariance, PTL DEF Spec, IsVersionedResource, Resource!Spec
=============================================================================
