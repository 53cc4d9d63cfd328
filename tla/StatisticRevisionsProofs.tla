---------------------- MODULE StatisticRevisionsProofs ----------------------
(***************************************************************************)
(* Proofs about StatisticRevisions, for every number of requests, matches, *)
(* statistics and corrections.  A request takes nothing but the row lock   *)
(* of its UPDATE; the proofs show how much that is worth: the wide row a   *)
(* request has written is the committed one with its own correction, and   *)
(* what it read before was committed, though it may be out of date.        *)
(***************************************************************************)
EXTENDS StatisticRevisions, TLAPS

Typed ==
  /\ projection \in [WithStatistics -> [Field -> Nat]]
  /\ revisions \in Seq(Revision)
  /\ sequence \in Nat
  /\ rowLock \in [WithStatistics -> SUBSET Request]
  /\ pc \in [Request -> {"idle", "begun", "found", "inserted", "written"}]
  /\ draft \in [Request -> Draft \cup {NoDraft}]
  /\ found \in [Request -> SUBSET Nat]
  /\ inserted \in [Request -> SUBSET Revision]
  /\ updated \in [Request -> [Field -> Nat] \cup {NoRow}]

\* A value that a statistic has, or had before the last correction.
WasInForce(m, f, value) ==
  \/ value = Imported[m][f]
  \/ \E j \in Corrections(m, f) : revisions[j].new = value

\* What PreviousWasInForce says of one revision.
NamesEarlier(i) ==
  \/ revisions[i].previous = Imported[revisions[i].match][revisions[i].field]
  \/ \E j \in Corrections(revisions[i].match, revisions[i].field) :
       j < i /\ revisions[j].new = revisions[i].previous

RowLocks ==
  \A m \in WithStatistics : \A r \in rowLock[m] :
    /\ rowLock[m] = {r}
    /\ pc[r] = "written"
    /\ draft[r].match = m

\* What a request has read and written and not committed.
Uncommitted(r) ==
  /\ pc[r] # "idle" => draft[r] \in Draft
  /\ pc[r] \in {"found", "inserted", "written"} => draft[r].match \in WithStatistics
  /\ pc[r] = "found" =>
       \A value \in found[r] : WasInForce(draft[r].match, draft[r].field, value)
  /\ pc[r] \in {"inserted", "written"} =>
       \E row \in inserted[r] :
         /\ inserted[r] = {row}
         /\ row.match = draft[r].match
         /\ row.field = draft[r].field
         /\ row.new = draft[r].new
         /\ WasInForce(row.match, row.field, row.previous)
  /\ pc[r] = "inserted" => draft[r].new # Missing
  /\ pc[r] # "written" => updated[r] = NoRow
  /\ pc[r] = "written" =>
       IF draft[r].new = Missing THEN updated[r] = NoRow
       ELSE /\ updated[r] # NoRow
            /\ updated[r] = Corrected(r)
            /\ r \in rowLock[draft[r].match]

IInv ==
  /\ Typed
  /\ RowLocks
  /\ \A r \in Request : Uncommitted(r)
  /\ ProjectionIsLastCorrection
  /\ PreviousWasInForce
-----------------------------------------------------------------------------
LEMMA InitIInv == Init => IInv
<1> SUFFICES ASSUME Init PROVE IInv
  OBVIOUS
<1> USE StatisticsAssumption DEF Init
<1>1. Typed
  BY DEF Typed
<1>2. RowLocks
  BY DEF RowLocks
<1>3. \A r \in Request : Uncommitted(r)
  BY DEF Uncommitted
<1>4. ProjectionIsLastCorrection /\ PreviousWasInForce
  BY DEF ProjectionIsLastCorrection, PreviousWasInForce, Corrections
<1>5. QED
  BY <1>1, <1>2, <1>3, <1>4 DEF IInv

\* As long as nothing is committed, what holds of the tables goes on to hold.
LEMMA TablesStay ==
  ASSUME IInv, UNCHANGED <<projection, revisions>>
  PROVE  /\ \A m, f, value : WasInForce(m, f, value)' <=> WasInForce(m, f, value)
         /\ ProjectionIsLastCorrection'
         /\ PreviousWasInForce'
BY DEF IInv, WasInForce, Corrections, ProjectionIsLastCorrection, PreviousWasInForce

\* The end of a request that commits nothing.
LEMMA FinishKeepsIInv ==
  ASSUME NEW r \in Request, IInv, Finish(r), UNCHANGED <<projection, revisions, sequence>>
  PROVE  IInv'
<1> USE DEF IInv, Finish
<1>1. Typed'
  BY DEF Typed
<1>2. RowLocks'
  BY DEF Typed, RowLocks
<1>3. ASSUME NEW q \in Request PROVE Uncommitted(q)'
  <2>1. CASE q = r
    BY <2>1 DEF Typed, Uncommitted
  <2>2. CASE q # r
    BY <2>2, TablesStay DEF Typed, Uncommitted, Corrected
  <2>3. QED BY <2>1, <2>2
<1>4. QED
  BY <1>1, <1>2, <1>3, TablesStay

LEMMA BeginKeepsIInv ==
  ASSUME NEW r \in Request, NEW d \in Drafts, IInv, Begin(r, d)
  PROVE  IInv'
<1> USE DEF IInv, Begin
<1>1. d \in Draft
  BY StatisticsAssumption DEF Drafts, Draft
<1>2. Typed'
  BY <1>1 DEF Typed
<1>3. RowLocks'
  BY DEF Typed, RowLocks
<1>4. ASSUME NEW q \in Request PROVE Uncommitted(q)'
  <2>1. CASE q = r
    BY <1>1, <2>1 DEF Typed, Uncommitted
  <2>2. CASE q # r
    BY <2>2, TablesStay DEF Typed, Uncommitted, Corrected
  <2>3. QED BY <2>1, <2>2
<1>5. QED
  BY <1>2, <1>3, <1>4, TablesStay

\* What is read is what the last correction left, or the import.
LEMMA ReadPreviousKeepsIInv ==
  ASSUME NEW r \in Request, IInv, ReadPrevious(r)
  PROVE  IInv'
<1> USE DEF IInv, ReadPrevious
<1>1. draft[r] \in Draft /\ draft[r].match \in WithStatistics /\ draft[r].field \in Field
  BY DEF Uncommitted, Draft
<1>2. Typed'
  BY <1>1 DEF Typed
<1>3. RowLocks'
  BY DEF Typed, RowLocks
<1>4. WasInForce(draft[r].match, draft[r].field, projection[draft[r].match][draft[r].field])
  BY <1>1 DEF ProjectionIsLastCorrection, WasInForce
<1>5. ASSUME NEW q \in Request PROVE Uncommitted(q)'
  <2>1. CASE q = r
    BY <1>1, <1>4, <2>1, TablesStay DEF Typed, Uncommitted
  <2>2. CASE q # r
    BY <2>2, TablesStay DEF Typed, Uncommitted, Corrected
  <2>3. QED BY <2>1, <2>2
<1>6. QED
  BY <1>2, <1>3, <1>5, TablesStay

LEMMA InsertRevisionKeepsIInv ==
  ASSUME NEW r \in Request, IInv, InsertRevision(r)
  PROVE  IInv'
<1> USE DEF IInv, InsertRevision
<1>1. /\ draft[r] \in Draft /\ draft[r].match \in WithStatistics
      /\ draft[r].field \in Field /\ draft[r].new \in Nat \cup {Missing}
  BY DEF Uncommitted, Draft
<1>2. PICK previous \in found[r] :
        inserted' = [inserted EXCEPT ![r] =
          {[id |-> sequence + 1, match |-> draft[r].match, field |-> draft[r].field,
            previous |-> previous, new |-> draft[r].new]}]
  OBVIOUS
<1>3. PICK row : row = [id |-> sequence + 1, match |-> draft[r].match,
                        field |-> draft[r].field, previous |-> previous, new |-> draft[r].new]
  OBVIOUS
<1>4. row \in Revision /\ inserted'[r] = {row}
  BY <1>1, <1>2, <1>3 DEF Typed, Revision
<1>5. WasInForce(row.match, row.field, row.previous)
  BY <1>3 DEF Uncommitted
<1>6. Typed'
  BY <1>2, <1>3, <1>4 DEF Typed
<1>7. RowLocks'
  BY DEF Typed, RowLocks
<1>8. ASSUME NEW q \in Request PROVE Uncommitted(q)'
  <2>1. CASE q = r
    <3>1. /\ row.match = draft[r].match /\ row.field = draft[r].field
          /\ row.new = draft[r].new
      BY <1>3
    <3>2. \/ pc'[r] = "written" /\ draft[r].new = Missing
          \/ pc'[r] = "inserted" /\ draft[r].new # Missing
      BY DEF Typed
    <3>3. /\ inserted'[r] = {row} /\ draft'[r] = draft[r] /\ updated'[r] = NoRow
          /\ WasInForce(row.match, row.field, row.previous)'
      BY <1>4, <1>5, TablesStay DEF Uncommitted
    <3>4. QED
      BY <1>1, <2>1, <3>1, <3>2, <3>3 DEF Uncommitted
  <2>2. CASE q # r
    BY <1>2, <2>2, TablesStay DEF Typed, Uncommitted, Corrected
  <2>3. QED BY <2>1, <2>2
<1>9. QED
  BY <1>6, <1>7, <1>8, TablesStay

\* The UPDATE takes the row as it is once the lock is free.
LEMMA UpdateKeepsIInv ==
  ASSUME NEW r \in Request, IInv, Update(r)
  PROVE  IInv'
<1> USE DEF IInv, Update
<1>1. /\ draft[r] \in Draft /\ draft[r].match \in WithStatistics
      /\ draft[r].field \in Field /\ draft[r].new \in Nat
  BY DEF Uncommitted, Draft
<1>2. Corrected(r) \in [Field -> Nat]
  BY <1>1 DEF Corrected, Typed
<1>3. Corrected(r) # NoRow
  BY <1>1, <1>2 DEF NoRow
<1>4. Typed'
  BY <1>1, <1>2 DEF Typed
<1>5. RowLocks'
  BY <1>1 DEF Typed, RowLocks
<1>6. ASSUME NEW q \in Request PROVE Uncommitted(q)'
  <2>1. CASE q = r
    <3>1. Corrected(r)' = Corrected(r)
      BY DEF Corrected
    <3>2. QED
      BY <1>1, <1>3, <2>1, <3>1, TablesStay DEF Typed, Uncommitted
  <2>2. CASE q # r
    BY <1>1, <2>2, TablesStay DEF Typed, Uncommitted, Corrected
  <2>3. QED BY <2>1, <2>2
<1>7. QED
  BY <1>4, <1>5, <1>6, TablesStay

\* The row joins the revisions, and what it wrote replaces the wide row: nobody has
\* written that row since, for the lock was its own.
LEMMA CommitKeepsIInv ==
  ASSUME NEW r \in Request, IInv, Commit(r)
  PROVE  IInv'
<1> USE DEF IInv, Commit, Finish
<1>1. PICK row \in inserted[r] : revisions' = Append(revisions, row)
  OBVIOUS
<1> DEFINE m == draft[r].match
           f == draft[r].field
           n == Len(revisions) + 1
<1>2. /\ draft[r] \in Draft /\ m \in WithStatistics /\ f \in Field
      /\ draft[r].new \in Nat \cup {Missing}
  BY DEF Uncommitted, Draft
<1>3. /\ row \in Revision /\ row.match = m /\ row.field = f /\ row.new = draft[r].new
      /\ WasInForce(m, f, row.previous)
  BY DEF Typed, Uncommitted
<1>4. /\ n \in Nat \ {0} /\ Len(revisions') = n
      /\ revisions'[n] = row
      /\ \A i \in 1..Len(revisions) : i \in 1..n /\ i # n /\ i < n /\ revisions'[i] = revisions[i]
      /\ \A i \in 1..n : i # n => i \in 1..Len(revisions)
      /\ n \in 1..n
  BY <1>1, <1>3 DEF Typed
<1>5. \A g, h : Corrections(g, h)' =
        Corrections(g, h) \cup {i \in {n} : g = m /\ h = f /\ row.new # Missing}
  <2>1. ASSUME NEW g, NEW h, NEW i PROVE
          i \in Corrections(g, h)' <=>
            (i \in Corrections(g, h) \/ (i = n /\ g = m /\ h = f /\ row.new # Missing))
    <3>1. CASE i = n
      BY <1>3, <1>4, <3>1 DEF Corrections
    <3>2. CASE i # n
      BY <1>4, <3>2 DEF Corrections
    <3>3. QED BY <3>1, <3>2
  <2>2. QED BY <2>1
<1>6. \A g, h, value : WasInForce(g, h, value) => WasInForce(g, h, value)'
  <2>1. \A g, h : \A i \in Corrections(g, h) : revisions'[i] = revisions[i]
    BY <1>4 DEF Corrections
  <2>2. QED BY <1>5, <2>1 DEF WasInForce
<1>7. IF draft[r].new = Missing THEN projection' = projection
      ELSE projection' = [projection EXCEPT ![m] = Corrected(r)]
  BY DEF Uncommitted
<1>8. Corrected(r) = [projection[m] EXCEPT ![f] = draft[r].new]
  BY DEF Corrected
<1>9. projection' \in [WithStatistics -> [Field -> Nat]]
  BY <1>2, <1>7, <1>8 DEF Typed
<1>10. \A g \in WithStatistics, h \in Field :
         projection'[g][h] =
           IF g = m /\ h = f /\ draft[r].new # Missing THEN draft[r].new ELSE projection[g][h]
  BY <1>2, <1>7, <1>8 DEF Typed
<1>11. Typed'
  BY <1>1, <1>3, <1>9 DEF Typed
<1>12. RowLocks'
  BY DEF Typed, RowLocks
<1>13. ASSUME NEW q \in Request PROVE Uncommitted(q)'
  <2>1. CASE q = r
    BY <2>1 DEF Typed, Uncommitted
  <2>2. CASE q # r
    <3>1. /\ pc'[q] = pc[q] /\ draft'[q] = draft[q] /\ found'[q] = found[q]
          /\ inserted'[q] = inserted[q] /\ updated'[q] = updated[q]
      BY <2>2 DEF Typed
    <3>2. ASSUME pc[q] = "written", draft[q].new # Missing
          PROVE  Corrected(q)' = Corrected(q) /\ q \in rowLock'[draft[q].match]
      <4>1. q \in rowLock[draft[q].match] /\ draft[q].match \in WithStatistics
        BY <3>2 DEF Uncommitted
      <4>2. draft[r].new # Missing => r \in rowLock[m]
        BY DEF Uncommitted
      <4>3. draft[r].new # Missing => draft[q].match # m
        BY <2>2, <4>1, <4>2 DEF RowLocks
      <4>4. projection'[draft[q].match] = projection[draft[q].match]
        BY <1>2, <1>7, <4>1, <4>3 DEF Typed
      <4>5. QED
        BY <2>2, <3>1, <4>1, <4>4 DEF Corrected
    <3>3. QED
      BY <1>6, <3>1, <3>2 DEF Uncommitted
  <2>3. QED BY <2>1, <2>2
<1>14. ProjectionIsLastCorrection'
  <2>1. ASSUME NEW g \in WithStatistics, NEW h \in Field
        PROVE  IF Corrections(g, h)' = {} THEN projection'[g][h] = Imported[g][h]
               ELSE \E i \in Corrections(g, h)' :
                      /\ \A j \in Corrections(g, h)' : j <= i
                      /\ projection'[g][h] = revisions'[i].new
    <3>1. \A i \in Corrections(g, h) : i \in Nat /\ i < n /\ revisions'[i] = revisions[i]
      BY <1>4 DEF Corrections
    <3>2. CASE g = m /\ h = f /\ draft[r].new # Missing
      <4>1. n \in Corrections(g, h)' /\ \A j \in Corrections(g, h)' : j <= n
        BY <1>3, <1>4, <1>5, <3>1, <3>2
      <4>2. projection'[g][h] = revisions'[n].new
        BY <1>3, <1>4, <1>10, <3>2
      <4>3. QED BY <4>1, <4>2
    <3>3. CASE ~(g = m /\ h = f /\ draft[r].new # Missing)
      <4>1. Corrections(g, h)' = Corrections(g, h)
        BY <1>3, <1>5, <3>3
      <4>2. projection'[g][h] = projection[g][h]
        BY <1>10, <3>3
      <4>3. QED BY <3>1, <4>1, <4>2 DEF ProjectionIsLastCorrection
    <3>4. QED BY <3>2, <3>3
  <2>2. QED BY <2>1 DEF ProjectionIsLastCorrection
<1>15. PreviousWasInForce'
  <2>1. ASSUME NEW i \in 1..n PROVE NamesEarlier(i)'
    <3>1. \A g, h : \A j \in Corrections(g, h) :
            /\ j < n /\ revisions'[j] = revisions[j]
            /\ j \in Corrections(g, h)'
      BY <1>4, <1>5 DEF Corrections
    <3>2. CASE i = n
      <4>1. /\ revisions'[i].match = m /\ revisions'[i].field = f
            /\ revisions'[i].previous = row.previous
        BY <1>3, <1>4, <3>2
      <4>2. CASE row.previous = Imported[m][f]
        BY <4>1, <4>2 DEF NamesEarlier
      <4>3. CASE \E j \in Corrections(m, f) : revisions[j].new = row.previous
        <5>1. PICK j \in Corrections(m, f) : revisions[j].new = row.previous
          BY <4>3
        <5>2. PICK g, h : g = m /\ h = f
          OBVIOUS
        <5>3. /\ j \in Corrections(g, h)' /\ j < i
              /\ revisions'[j].new = revisions'[i].previous
              /\ revisions'[i].match = g /\ revisions'[i].field = h
          BY <3>1, <3>2, <4>1, <5>1, <5>2
        <5>4. QED BY <5>3 DEF NamesEarlier
      <4>4. QED BY <1>3, <4>2, <4>3 DEF WasInForce
    <3>3. CASE i # n
      <4>1. i \in 1..Len(revisions) /\ revisions'[i] = revisions[i]
        BY <1>4, <3>3
      <4>2. NamesEarlier(i)
        BY <4>1 DEF PreviousWasInForce, NamesEarlier
      <4>3. CASE revisions[i].previous = Imported[revisions[i].match][revisions[i].field]
        BY <4>1, <4>3 DEF NamesEarlier
      <4>4. CASE \E j \in Corrections(revisions[i].match, revisions[i].field) :
                   j < i /\ revisions[j].new = revisions[i].previous
        <5>1. PICK j \in Corrections(revisions[i].match, revisions[i].field) :
                j < i /\ revisions[j].new = revisions[i].previous
          BY <4>4
        <5>2. /\ j \in Corrections(revisions[i].match, revisions[i].field)'
              /\ revisions'[j].new = revisions'[i].previous
          BY <3>1, <4>1, <5>1 DEF Corrections
        <5>3. QED BY <5>1, <5>2 DEF NamesEarlier
      <4>5. QED BY <4>2, <4>3, <4>4 DEF NamesEarlier
    <3>4. QED BY <3>2, <3>3
  <2>2. \A i \in 1..Len(revisions') : NamesEarlier(i)'
    BY <1>4, <2>1
  <2>3. QED BY <2>2 DEF PreviousWasInForce, NamesEarlier
<1>16. QED
  BY <1>11, <1>12, <1>13, <1>14, <1>15

LEMMA NextKeepsIInv ==
  ASSUME IInv, [Next]_vars
  PROVE  IInv'
<1>1. ASSUME NEW r \in Request, NEW d \in Drafts, Begin(r, d) PROVE IInv'
  BY <1>1, BeginKeepsIInv
<1>2. ASSUME NEW r \in Request, NotFound(r) PROVE IInv'
  BY <1>2, FinishKeepsIInv DEF NotFound
<1>3. ASSUME NEW r \in Request, ReadPrevious(r) PROVE IInv'
  BY <1>3, ReadPreviousKeepsIInv
<1>4. ASSUME NEW r \in Request, InsertRevision(r) PROVE IInv'
  BY <1>4, InsertRevisionKeepsIInv
<1>5. ASSUME NEW r \in Request, Update(r) PROVE IInv'
  BY <1>5, UpdateKeepsIInv
<1>6. ASSUME NEW r \in Request, Violate(r) PROVE IInv'
  BY <1>6, FinishKeepsIInv DEF Violate
<1>7. ASSUME NEW r \in Request, Commit(r) PROVE IInv'
  BY <1>7, CommitKeepsIInv
<1>8. ASSUME NEW r \in Request, Abort(r) PROVE IInv'
  BY <1>8, FinishKeepsIInv DEF Abort
<1>9. CASE UNCHANGED vars
  <2>1. \A q \in Request : Uncommitted(q)'
    BY <1>9, TablesStay DEF vars, IInv, Uncommitted, Corrected
  <2>2. Typed' /\ RowLocks'
    BY <1>9 DEF vars, IInv, Typed, RowLocks
  <2>3. QED BY <1>9, <2>1, <2>2, TablesStay DEF vars, IInv
<1>10. QED
  BY <1>1, <1>2, <1>3, <1>4, <1>5, <1>6, <1>7, <1>8, <1>9 DEF Next, Quiescent

\* What a request knows of a row, and the lock it has on it, hold in every behaviour.
THEOREM Invariance == Spec => []IInv
BY InitIInv, NextKeepsIInv, PTL DEF Spec

\* No correction is lost, nor undone by a correction of another column: the wide row
\* that Method One reads is the last of them to commit.
THEOREM ProjectionHolds == Spec => []ProjectionIsLastCorrection
<1>1. IInv => ProjectionIsLastCorrection
  BY DEF IInv
<1>2. QED BY <1>1, Invariance, PTL

\* A revision names a previous value that was in force before it, the one imported or
\* that of a correction that had committed.
THEOREM PreviousHolds == Spec => []PreviousWasInForce
<1>1. IInv => PreviousWasInForce
  BY DEF IInv
<1>2. QED BY <1>1, Invariance, PTL
-----------------------------------------------------------------------------
(* The order of created_at.  The rest of the invariant says that it is one, *)
(* and what its transactions are called.                                   *)

\* No two transactions began before each other, and those that have an order are in
\* progress or have committed.
Dates ==
  /\ before \in SUBSET ((Request \cup Nat) \X (Request \cup Nat))
  /\ \A p \in before : <<p[2], p[1]>> \notin before
  /\ \A p \in before : p[1] \in Started /\ p[2] \in Started

\* An identifier is drawn once: that of a row that is to be committed is nobody else's.
Identifiers ==
  /\ \A i \in 1..Len(revisions) : revisions[i].id <= sequence
  /\ \A r \in Request : \A row \in inserted[r] :
       /\ row.id <= sequence
       /\ \A i \in 1..Len(revisions) : revisions[i].id # row.id
       /\ \A q \in Request \ {r} : \A other \in inserted[q] : other.id # row.id

\* A statistic that was corrected has a last revision.
LastRevisions ==
  \A m, f : Revisions(m, f) = {} \/ \E i \in Revisions(m, f) : \A j \in Revisions(m, f) : j <= i

DatedIInv == IInv /\ Dates /\ Identifiers /\ LastRevisions

LEMMA InitDated == Init => Dates /\ Identifiers /\ LastRevisions
BY DEF Init, Dates, Identifiers, LastRevisions, Revisions

\* Requests and the identifiers of revisions are told apart.
LEMMA NamesAreApart ==
  ASSUME Typed
  PROVE  /\ \A i \in 1..Len(revisions) : revisions[i].id \in Nat
         /\ \A r \in Request : \A row \in inserted[r] : row \in Revision /\ row.id \in Nat
         /\ \A r \in Request : \A i \in 1..Len(revisions) : revisions[i].id # r
         /\ \A r \in Request : \A row \in inserted[r] : row.id \notin Request
<1>1. \A i \in 1..Len(revisions) : revisions[i] \in Revision
  BY DEF Typed
<1>2. \A row \in Revision : row.id \in Nat
  BY DEF Revision
<1>3. \A r \in Request : \A row \in inserted[r] : row \in Revision
  BY DEF Typed
<1>4. QED BY <1>1, <1>2, <1>3, StatisticsAssumption

LEMMA LastRevisionsStay ==
  ASSUME LastRevisions, revisions' = revisions
  PROVE  LastRevisions'
<1>1. \A m, f : Revisions(m, f)' = Revisions(m, f)
  BY DEF Revisions
<1>2. QED BY <1>1 DEF LastRevisions

\* A request that ends without a commit takes its dates with it.
LEMMA RollbackKeepsDates ==
  ASSUME NEW r \in Request, DatedIInv, Finish(r), UNCHANGED <<projection, revisions, sequence>>,
         \/ before' = Without(r)
         \/ before' = before /\ pc[r] = "begun"
  PROVE  Dates' /\ Identifiers' /\ LastRevisions'
<1> USE DEF DatedIInv, IInv, Finish
<1>1. Started' = Started \ {r}
  <2>1. \A i \in 1..Len(revisions) : revisions[i].id # r
    BY NamesAreApart
  <2>2. QED BY <2>1 DEF Started, Typed
<1>2. \A p \in before' : p \in before /\ p[1] # r /\ p[2] # r
  <2>1. CASE before' = Without(r)
    BY <2>1 DEF Without
  <2>2. CASE before' = before /\ pc[r] = "begun"
    <3>1. r \notin Started
      BY <2>2, NamesAreApart DEF Started
    <3>2. QED BY <2>2, <3>1 DEF Dates
  <2>3. QED BY <2>1, <2>2
<1>3. Dates'
  BY <1>1, <1>2 DEF Dates
<1>4. \A q \in Request : inserted'[q] \subseteq inserted[q]
  BY DEF Typed
<1>5. Identifiers'
  BY <1>4 DEF Identifiers
<1>6. LastRevisions'
  BY LastRevisionsStay
<1>7. QED BY <1>3, <1>5, <1>6

\* Whoever has begun did so before the request that begins.
LEMMA ReadPreviousKeepsDates ==
  ASSUME NEW r \in Request, DatedIInv, ReadPrevious(r)
  PROVE  Dates' /\ Identifiers' /\ LastRevisions'
<1> USE DEF DatedIInv, IInv, ReadPrevious
<1>1. \A i \in 1..Len(revisions) : revisions[i].id \in Nat /\ revisions[i].id # r
  BY NamesAreApart
<1>2. r \notin Started /\ Started \subseteq Request \cup Nat
  BY <1>1 DEF Started
<1>3. Started' = Started \cup {r}
  BY DEF Started, Typed
<1>4. Dates'
  BY <1>2, <1>3 DEF Dates
<1>5. Identifiers' /\ LastRevisions'
  BY LastRevisionsStay DEF Identifiers
<1>6. QED BY <1>4, <1>5

\* The identifier drawn is new.
LEMMA InsertRevisionKeepsDates ==
  ASSUME NEW r \in Request, DatedIInv, InsertRevision(r)
  PROVE  Dates' /\ Identifiers' /\ LastRevisions'
<1> USE DEF DatedIInv, IInv, InsertRevision
<1>1. Started' = Started
  BY DEF Started, Typed
<1>2. Dates'
  BY <1>1 DEF Dates
<1>3. /\ \A row \in inserted'[r] : row.id = sequence + 1
      /\ \A q \in Request \ {r} : inserted'[q] = inserted[q]
  BY DEF Typed
<1>4. /\ \A i \in 1..Len(revisions) : revisions[i].id \in Nat
      /\ \A q \in Request : \A row \in inserted[q] : row.id \in Nat
      /\ sequence \in Nat
  BY NamesAreApart DEF Typed
<1>5. Identifiers'
  BY <1>3, <1>4 DEF Identifiers
<1>6. LastRevisions'
  BY LastRevisionsStay
<1>7. QED BY <1>2, <1>5, <1>6

\* The transaction takes the name of its revision, which no other has.
LEMMA CommitKeepsDates ==
  ASSUME NEW r \in Request, DatedIInv, Commit(r)
  PROVE  Dates' /\ Identifiers' /\ LastRevisions'
<1> USE DEF DatedIInv, IInv, Commit, Finish
<1>1. PICK row \in inserted[r] : revisions' = Append(revisions, row) /\ before' = Renamed(r, row.id)
  OBVIOUS
<1> DEFINE n == Len(revisions) + 1
<1>2. row \in Revision /\ row.id \in Nat /\ row.id # r /\ r \notin Nat
  BY NamesAreApart, StatisticsAssumption
<1>3. /\ n \in Nat \ {0} /\ Len(revisions') = n /\ revisions'[n] = row /\ n \in 1..n
      /\ \A i \in 1..Len(revisions) : i \in 1..n /\ i # n /\ i < n /\ revisions'[i] = revisions[i]
      /\ \A i \in 1..n : i # n => i \in 1..Len(revisions)
  BY <1>1, <1>2 DEF Typed
<1>4. row.id \notin Started
  BY <1>2, StatisticsAssumption DEF Started, Identifiers
<1>5. (Started \ {r}) \cup {row.id} \subseteq Started'
  <2>1. \A q \in Request : q # r => pc'[q] = pc[q]
    BY DEF Typed
  <2>2. row.id \in Started'
    BY <1>3 DEF Started
  <2>3. ASSUME NEW t \in Started, t # r PROVE t \in Started'
    <3>1. CASE t \in {q \in Request : pc[q] \in {"found", "inserted", "written"}}
      BY <2>1, <2>3, <3>1 DEF Started
    <3>2. CASE t \in {revisions[i].id : i \in 1..Len(revisions)}
      BY <1>3, <3>2 DEF Started
    <3>3. QED BY <3>1, <3>2 DEF Started
  <2>4. QED BY <2>2, <2>3
<1>6. ASSUME NEW p \in before'
      PROVE  \E o \in before : /\ p = <<p[1], p[2]>>
                               /\ p[1] = IF o[1] = r THEN row.id ELSE o[1]
                               /\ p[2] = IF o[2] = r THEN row.id ELSE o[2]
                               /\ o = <<o[1], o[2]>>
                               /\ {o[1], o[2]} \subseteq Started
  <2>1. PICK o \in before : p = <<IF o[1] = r THEN row.id ELSE o[1],
                                   IF o[2] = r THEN row.id ELSE o[2]>>
    BY <1>1, <1>6 DEF Renamed
  <2>2. o = <<o[1], o[2]>> /\ {o[1], o[2]} \subseteq Started
    BY DEF Dates
  <2>3. QED BY <2>1, <2>2
<1>7. before' \in SUBSET ((Request \cup Nat) \X (Request \cup Nat))
  <2>1. ASSUME NEW p \in before' PROVE p \in (Request \cup Nat) \X (Request \cup Nat)
    <3>1. PICK o \in before : /\ p = <<p[1], p[2]>>
                              /\ p[1] = IF o[1] = r THEN row.id ELSE o[1]
                              /\ p[2] = IF o[2] = r THEN row.id ELSE o[2]
      BY <1>6
    <3>2. o[1] \in Request \cup Nat /\ o[2] \in Request \cup Nat
      BY DEF Dates
    <3>3. p[1] \in Request \cup Nat /\ p[2] \in Request \cup Nat
      BY <1>2, <3>1, <3>2
    <3>4. QED BY <3>1, <3>3
  <2>2. QED BY <2>1
<1>8. ASSUME NEW p \in before', <<p[2], p[1]>> \in before' PROVE FALSE
  <2>1. PICK o \in before : /\ p[1] = IF o[1] = r THEN row.id ELSE o[1]
                            /\ p[2] = IF o[2] = r THEN row.id ELSE o[2]
                            /\ {o[1], o[2]} \subseteq Started
    BY <1>6
  <2>2. PICK e \in before : /\ p[2] = IF e[1] = r THEN row.id ELSE e[1]
                            /\ p[1] = IF e[2] = r THEN row.id ELSE e[2]
                            /\ e = <<e[1], e[2]>>
                            /\ {e[1], e[2]} \subseteq Started
    BY <1>6, <1>8
  <2>3. o[1] = e[2] /\ o[2] = e[1]
    BY <1>4, <2>1, <2>2
  <2>4. QED BY <2>2, <2>3 DEF Dates
<1>9. ASSUME NEW p \in before' PROVE p[1] \in Started' /\ p[2] \in Started'
  <2>1. PICK o \in before : /\ p[1] = IF o[1] = r THEN row.id ELSE o[1]
                            /\ p[2] = IF o[2] = r THEN row.id ELSE o[2]
                            /\ {o[1], o[2]} \subseteq Started
    BY <1>6
  <2>2. QED BY <1>5, <2>1
<1>10. Dates'
  BY <1>7, <1>8, <1>9 DEF Dates
<1>11. inserted'[r] = {} /\ \A q \in Request \ {r} : inserted'[q] = inserted[q]
  BY DEF Typed
<1>12. Identifiers'
  <2>1. \A i \in 1..n : revisions'[i].id <= sequence
    BY <1>3 DEF Identifiers
  <2>2. ASSUME NEW q \in Request \ {r}, NEW other \in inserted[q]
        PROVE  \A i \in 1..n : revisions'[i].id # other.id
    BY <1>3 DEF Identifiers
  <2>3. QED BY <1>3, <1>11, <2>1, <2>2 DEF Identifiers
<1>13. LastRevisions'
  <2>1. ASSUME NEW g, NEW h
        PROVE  \/ Revisions(g, h)' = {}
               \/ \E i \in Revisions(g, h)' : \A j \in Revisions(g, h)' : j <= i
    <3>1. CASE row.match = g /\ row.field = h
      <4>1. n \in Revisions(g, h)' /\ \A j \in Revisions(g, h)' : j <= n
        BY <1>3, <3>1 DEF Revisions
      <4>2. QED BY <4>1
    <3>2. CASE ~(row.match = g /\ row.field = h)
      <4>1. Revisions(g, h)' = Revisions(g, h)
        <5>1. \A i : i \in Revisions(g, h)' <=> i \in Revisions(g, h)
          BY <1>3, <3>2 DEF Revisions
        <5>2. QED BY <5>1
      <4>2. QED BY <4>1 DEF LastRevisions
    <3>3. QED BY <3>1, <3>2
  <2>2. QED BY <2>1 DEF LastRevisions
<1>14. QED BY <1>10, <1>12, <1>13

\* A step that neither begins nor ends a transaction nor inserts a revision.
LEMMA OthersKeepDates ==
  ASSUME DatedIInv, UNCHANGED <<revisions, sequence, before, inserted>>, Started' = Started
  PROVE  Dates' /\ Identifiers' /\ LastRevisions'
BY LastRevisionsStay DEF DatedIInv, Dates, Identifiers

LEMMA NextKeepsDates ==
  ASSUME DatedIInv, [Next]_vars
  PROVE  DatedIInv'
<1> DEFINE Kept == Dates' /\ Identifiers' /\ LastRevisions'
<1>1. ASSUME NEW r \in Request, NEW d \in Drafts, Begin(r, d) PROVE Kept
  <2>1. Started' = Started
    BY <1>1 DEF Begin, Started, DatedIInv, IInv, Typed
  <2>2. QED BY <1>1, <2>1, OthersKeepDates DEF Begin
<1>2. ASSUME NEW r \in Request, NotFound(r) PROVE Kept
  BY <1>2, RollbackKeepsDates DEF NotFound
<1>3. ASSUME NEW r \in Request, ReadPrevious(r) PROVE Kept
  BY <1>3, ReadPreviousKeepsDates
<1>4. ASSUME NEW r \in Request, InsertRevision(r) PROVE Kept
  BY <1>4, InsertRevisionKeepsDates
<1>5. ASSUME NEW r \in Request, Update(r) PROVE Kept
  <2>1. Started' = Started
    BY <1>5 DEF Update, Started, DatedIInv, IInv, Typed
  <2>2. QED BY <1>5, <2>1, OthersKeepDates DEF Update
<1>6. ASSUME NEW r \in Request, Violate(r) PROVE Kept
  BY <1>6, RollbackKeepsDates DEF Violate
<1>7. ASSUME NEW r \in Request, Commit(r) PROVE Kept
  BY <1>7, CommitKeepsDates
<1>8. ASSUME NEW r \in Request, Abort(r) PROVE Kept
  BY <1>8, RollbackKeepsDates DEF Abort
<1>9. ASSUME UNCHANGED vars PROVE Kept
  <2>1. UNCHANGED <<revisions, sequence, before, inserted, pc>>
    BY <1>9 DEF vars
  <2>2. Started' = Started
    BY <2>1 DEF Started
  <2>3. QED BY <2>1, <2>2, OthersKeepDates
<1>10. Kept
  BY <1>1, <1>2, <1>3, <1>4, <1>5, <1>6, <1>7, <1>8, <1>9 DEF Next, Quiescent
<1>11. QED
  BY <1>10, NextKeepsIInv DEF DatedIInv, Kept

\* The order of created_at, and the identifiers, hold together with IInv.
THEOREM DatesHold == Spec => []DatedIInv
<1>1. Init => DatedIInv
  BY InitIInv, InitDated DEF DatedIInv
<1>2. QED BY <1>1, NextKeepsDates, PTL DEF Spec

\* Every variable keeps its type, and at most one request holds the lock of a row.
THEOREM TypeCorrect == Spec => []TypeOK
<1>1. ASSUME DatedIInv PROVE TypeOK
  <2>1. \A m \in WithStatistics : rowLock[m] = {} \/ \E r \in Request : rowLock[m] = {r}
    BY <1>1 DEF DatedIInv, IInv, Typed, RowLocks
  <2>2. rowLock \in [WithStatistics -> {{}} \cup {{r} : r \in Request}]
    BY <1>1, <2>1 DEF DatedIInv, IInv, Typed
  <2>3. QED BY <1>1, <2>2 DEF DatedIInv, IInv, Typed, Dates, TypeOK
<1>2. QED BY <1>1, DatesHold, PTL

\* The readers of a statistic agree as long as its corrections committed in the order
\* in which they began: then the newest revision is the last one, and the wide row has
\* its value unless it declares the statistic missing.
THEOREM ReadersStayInAgreement == Spec => []ReadersAgree
<1>1. ASSUME DatedIInv,
             NEW m \in WithStatistics, NEW f \in Field,
             \A i, j \in Revisions(m, f) : i < j => CreatedBefore(i, j)
      PROVE  \/ SampleValue(m, f) = projection[m][f]
             \/ /\ SampleValue(m, f) = Missing
                /\ \E i \in Revisions(m, f) : /\ \A j \in Revisions(m, f) : j <= i
                                              /\ revisions[i].new = Missing
  <2>1. CASE Revisions(m, f) = {}
    BY <2>1 DEF SampleValue
  <2>2. CASE Revisions(m, f) # {}
    <3>1. PICK k \in Revisions(m, f) : \A j \in Revisions(m, f) : j <= k
      BY <1>1, <2>2 DEF DatedIInv, LastRevisions
    <3>2. \A j \in Revisions(m, f) : j \in Nat
      BY DEF Revisions
    <3>3. \A j \in Revisions(m, f) : j = k \/ CreatedBefore(j, k)
      BY <1>1, <3>1, <3>2
    <3>4. ASSUME NEW i \in Revisions(m, f), \A j \in Revisions(m, f) : j = i \/ CreatedBefore(j, i)
          PROVE  i = k
      <4>1. CASE CreatedBefore(k, i) /\ CreatedBefore(i, k)
        <5>1. /\ <<revisions[k].id, revisions[i].id>> \in before
              /\ <<revisions[i].id, revisions[k].id>> \in before
          BY <4>1 DEF CreatedBefore
        <5>2. QED BY <1>1, <5>1 DEF DatedIInv, Dates
      <4>2. QED BY <3>3, <3>4, <4>1
    <3>5. Newest(m, f) = k
      BY <3>3, <3>4 DEF Newest
    <3>6. SampleValue(m, f) = revisions[k].new
      BY <2>2, <3>5 DEF SampleValue
    <3>7. CASE revisions[k].new = Missing
      BY <3>1, <3>6, <3>7
    <3>8. CASE revisions[k].new # Missing
      <4>1. /\ k \in Corrections(m, f)
            /\ \A j \in Corrections(m, f) : j \in Nat /\ j <= k
        BY <3>1, <3>2, <3>8 DEF Corrections, Revisions
      <4>2. PICK i \in Corrections(m, f) : /\ \A j \in Corrections(m, f) : j <= i
                                           /\ projection[m][f] = revisions[i].new
        BY <1>1, <4>1 DEF DatedIInv, IInv, ProjectionIsLastCorrection
      <4>3. i = k
        BY <4>1, <4>2
      <4>4. QED BY <3>6, <4>2, <4>3
    <3>9. QED BY <3>7, <3>8
  <2>3. QED BY <2>1, <2>2
<1>2. DatedIInv => ReadersAgree
  BY <1>1 DEF ReadersAgree
<1>3. QED BY <1>2, DatesHold, PTL
=============================================================================
