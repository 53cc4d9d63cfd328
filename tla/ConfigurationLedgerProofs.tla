--------------------- MODULE ConfigurationLedgerProofs ---------------------
(***************************************************************************)
(* Proofs about ConfigurationLedger, for every number of requests,         *)
(* parameters, matches, competitions and revisions.  The advisory lock on  *)
(* a chain makes the head a request has found the head at its commit; that *)
(* the clock is read under the lock makes the order of the clock, which    *)
(* the readers use, the order of the identifiers.                          *)
(***************************************************************************)
EXTENDS ConfigurationLedger, FiniteSetTheorems, SequenceTheorems, TLAPS

Holding == {"locked", "found", "inserted"}

Exclusion ==
  \A q, r \in Request : pc[q] \in Holding /\ pc[r] \in Holding /\ draft[q] = draft[r] => q = r

IdsAreUnique ==
  /\ \A a \in revisions : a.id <= sequence
  /\ \A a, b \in revisions : a.id = b.id => a = b
  /\ \A r \in Request : \A a \in inserted[r] :
       /\ a.id <= sequence
       /\ \A b \in revisions : b.id # a.id
       /\ \A q \in Request : \A b \in inserted[q] : b.id = a.id => q = r /\ b = a

IsHead(a) == \A b \in Rows(ChainOf(a)) : b.id <= a.id

\* In a chain the clock agrees with the identifiers; the newest row is the head, and
\* every other has been replaced.
ChainsAreOrdered ==
  /\ \A a, b \in revisions : ChainOf(a) = ChainOf(b) /\ a.id < b.id => a.created <= b.created
  /\ \A k \in Chain : Rows(k) # {} => \E a \in Rows(k) : IsHead(a)
  /\ \A a \in revisions : IsHead(a) \/ \E b \in revisions : b.replaces = a.id

\* What a request knows under the lock of its chain.
Knows(r) ==
  /\ pc[r] # "idle" => draft[r] \in Parameter \X Named
  /\ pc[r] \in Holding =>
       /\ draft[r] \in Chain
       /\ created[r] <= clock
       /\ \A a \in Rows(draft[r]) : a.created <= created[r]
  /\ pc[r] \in {"found", "inserted"} =>
       IF Rows(draft[r]) = {} THEN previous[r] = NoRevision
       ELSE \E a \in Rows(draft[r]) : previous[r] = a.id /\ IsHead(a)
  /\ pc[r] = "inserted" =>
       \E a \in inserted[r] :
         /\ inserted[r] = {a}
         /\ ChainOf(a) = draft[r]
         /\ a.created = created[r]
         /\ a.replaces = previous[r]
         /\ \A b \in Rows(draft[r]) : b.id < a.id
  /\ pc[r] # "inserted" => inserted[r] = {}

Older(a) == {b \in Rows(ChainOf(a)) : b.id < a.id}

\* One row of ChainsAreLinear.
Linear(a) ==
  IF Older(a) = {} THEN a.replaces = NoRevision
  ELSE \E b \in Older(a) : /\ a.replaces = b.id
                           /\ \A c \in Older(a) : c.id <= b.id
                           /\ b.created <= a.created

IInv ==
  /\ TypeOK
  /\ Exclusion
  /\ IdsAreUnique
  /\ \A a \in revisions : a.created <= clock
  /\ ChainsAreOrdered
  /\ \A r \in Request : Knows(r)
  /\ \A a \in revisions : Linear(a)
-----------------------------------------------------------------------------
LEMMA InitIInv == Init => IInv
<1> SUFFICES ASSUME Init PROVE IInv
  OBVIOUS
<1> USE ConfigurationAssumption DEF Init
<1>1. TypeOK
  BY DEF TypeOK
<1>2. Exclusion
  BY DEF Exclusion, Holding
<1>3. IdsAreUnique /\ ChainsAreOrdered
  BY DEF IdsAreUnique, ChainsAreOrdered, Rows
<1>4. \A r \in Request : Knows(r)
  BY DEF Knows, Holding
<1>5. QED
  BY <1>1, <1>2, <1>3, <1>4 DEF IInv

\* As long as no row is committed, what holds of the rows goes on to hold.
LEMMA RowsStay ==
  ASSUME IInv, UNCHANGED revisions
  PROVE  /\ \A k : Rows(k)' = Rows(k)
         /\ \A a : IsHead(a)' <=> IsHead(a)
         /\ ChainsAreOrdered'
         /\ \A a \in revisions' : Linear(a)'
<1>1. \A k : Rows(k)' = Rows(k)
  BY DEF Rows
<1>2. \A a : IsHead(a)' <=> IsHead(a)
  BY <1>1 DEF IsHead
<1>3. ChainsAreOrdered'
  BY <1>1, <1>2 DEF IInv, ChainsAreOrdered
<1>4. \A a \in revisions' : Linear(a)'
  BY <1>1 DEF IInv, Linear, Older
<1>5. QED
  BY <1>1, <1>2, <1>3, <1>4

\* The end of a request that commits nothing.
LEMMA FinishKeepsIInv ==
  ASSUME NEW r \in Request, IInv, Finish(r), UNCHANGED <<clock, revisions, sequence>>
  PROVE  IInv'
<1> USE DEF IInv, Finish
<1>1. TypeOK'
  BY DEF TypeOK
<1>2. Exclusion'
  BY DEF TypeOK, Exclusion, Holding
<1>3. IdsAreUnique'
  BY DEF TypeOK, IdsAreUnique
<1>4. ASSUME NEW q \in Request PROVE Knows(q)'
  BY RowsStay DEF TypeOK, Knows, Holding
<1>5. QED
  BY <1>1, <1>2, <1>3, <1>4, RowsStay

LEMMA BeginKeepsIInv ==
  ASSUME NEW r \in Request, NEW parameter \in Parameter, NEW target \in Named, IInv,
         Begin(r, parameter, target)
  PROVE  IInv'
<1> USE DEF IInv, Begin
<1>1. TypeOK'
  BY DEF TypeOK
<1>2. Exclusion'
  BY DEF TypeOK, Exclusion, Holding
<1>3. IdsAreUnique'
  BY DEF IdsAreUnique
<1>4. ASSUME NEW q \in Request PROVE Knows(q)'
  BY RowsStay DEF TypeOK, Knows, Holding
<1>5. QED
  BY <1>1, <1>2, <1>3, <1>4, RowsStay

\* The clock is read under the lock: no row of the chain is from a later instant.
LEMMA LockKeepsIInv ==
  ASSUME NEW r \in Request, IInv, Lock(r)
  PROVE  IInv'
<1> USE DEF IInv, Lock
<1>1. TypeOK'
  BY DEF TypeOK
<1>2. Exclusion'
  BY DEF TypeOK, Exclusion, Holding, LockFree, Holds
<1>3. IdsAreUnique'
  BY DEF IdsAreUnique
<1>4. draft[r] \in Chain
  BY DEF Knows, Exists, Chain
<1>5. ASSUME NEW q \in Request PROVE Knows(q)'
  <2>1. CASE q = r
    BY <1>4, <2>1, RowsStay DEF TypeOK, Knows, Holding, Rows
  <2>2. CASE q # r
    BY <2>2, RowsStay DEF TypeOK, Knows, Holding
  <2>3. QED BY <2>1, <2>2
<1>6. QED
  BY <1>1, <1>2, <1>3, <1>5, RowsStay

\* The newest row by the clock is the head of the chain.
LEMMA FindPreviousKeepsIInv ==
  ASSUME NEW r \in Request, IInv, FindPrevious(r)
  PROVE  IInv'
<1> USE DEF IInv, FindPrevious
<1> DEFINE rows == Rows(draft[r])
<1>1. rows \subseteq revisions /\ (\A a \in rows : ChainOf(a) = draft[r])
  BY DEF Rows
<1>2. draft[r] \in Chain /\ revisions \subseteq Revision
  BY DEF Knows, Holding, TypeOK
<1>3. ASSUME rows # {}
      PROVE  \E a \in rows : previous'[r] = a.id /\ IsHead(a)
  <2>1. PICK head \in rows : IsHead(head)
    BY <1>2, <1>3 DEF ChainsAreOrdered
  <2>2. \A b \in rows : b.id <= head.id /\ (b # head => b.id < head.id)
    BY <1>1, <1>2, <2>1 DEF IsHead, IdsAreUnique, Revision
  <2>3. \A b \in rows : b # head => Newer(head, b)
    BY <1>1, <1>2, <2>2 DEF ChainsAreOrdered, Newer, Revision
  <2>4. Newest(rows) = {head}
    <3>1. \A b \in rows : ~(Newer(head, b) /\ Newer(b, head))
      BY <1>1, <1>2 DEF Newer, Revision
    <3>2. QED
      BY <2>3, <3>1 DEF Newest
  <2>5. previous'[r] = head.id
    <3>1. {row.id : row \in Newest(rows)} = {head.id}
      BY <2>4
    <3>2. previous'[r] = CHOOSE id \in {head.id} : TRUE
      BY <1>3, <3>1 DEF TypeOK
    <3>3. QED BY <3>2
  <2>6. QED
    BY <2>1, <2>5
<1>4. rows = {} => previous'[r] = NoRevision
  BY DEF TypeOK
<1>5. TypeOK'
  <2>1. previous'[r] \in Nat \cup {NoRevision}
    BY <1>1, <1>2, <1>3, <1>4 DEF Revision
  <2>2. QED
    BY <2>1 DEF TypeOK
<1>6. Exclusion'
  BY DEF TypeOK, Exclusion, Holding
<1>7. IdsAreUnique'
  BY DEF IdsAreUnique
<1>8. ASSUME NEW q \in Request PROVE Knows(q)'
  <2>1. CASE q = r
    BY <1>3, <1>4, <2>1, RowsStay DEF TypeOK, Knows, Holding
  <2>2. CASE q # r
    BY <2>2, RowsStay DEF TypeOK, Knows, Holding
  <2>3. QED BY <2>1, <2>2
<1>9. QED
  BY <1>5, <1>6, <1>7, <1>8, RowsStay

LEMMA InsertKeepsIInv ==
  ASSUME NEW r \in Request, IInv, Insert(r)
  PROVE  IInv'
<1> USE DEF IInv, Insert
<1> DEFINE a == [id |-> sequence + 1, parameter |-> draft[r][1], target |-> draft[r][2],
                 created |-> created[r], replaces |-> previous[r]]
<1>1. draft[r] \in Chain
  BY DEF Knows, Holding
<1>2. a \in Revision /\ ChainOf(a) = draft[r]
  BY <1>1 DEF Chain, Revision, ChainOf, TypeOK
<1>3. inserted'[r] = {a} /\ a.id = sequence + 1
  BY DEF TypeOK
<1>4. TypeOK'
  BY <1>2, <1>3 DEF TypeOK
<1>5. Exclusion'
  BY DEF TypeOK, Exclusion, Holding
<1>6. \A q \in Request : q # r => inserted'[q] = inserted[q]
  BY DEF TypeOK
<1>7. IdsAreUnique'
  <2>1. sequence \in Nat /\ sequence' = sequence + 1
    BY DEF TypeOK
  <2>2. \A b \in revisions : b.id \in Nat /\ b.id <= sequence
    BY DEF TypeOK, Revision, IdsAreUnique
  <2>3. \A q \in Request : \A b \in inserted[q] : b.id \in Nat /\ b.id <= sequence
    BY DEF TypeOK, Revision, IdsAreUnique
  <2>4. QED
    BY <1>3, <1>6, <2>1, <2>2, <2>3 DEF IdsAreUnique
<1>8. ASSUME NEW q \in Request PROVE Knows(q)'
  <2>1. CASE q = r
    <3>1. \A b \in Rows(draft[r]) : b.id < a.id
      BY <1>3 DEF TypeOK, Revision, IdsAreUnique, Rows
    <3>2. a.created = created[r] /\ a.replaces = previous[r]
      OBVIOUS
    <3> HIDE DEF a
    <3>3. QED
      BY <1>2, <1>3, <2>1, <3>1, <3>2, RowsStay DEF TypeOK, Knows, Holding
  <2>2. CASE q # r
    BY <1>6, <2>2, RowsStay DEF TypeOK, Knows, Holding
  <2>3. QED BY <2>1, <2>2
<1>9. QED
  BY <1>4, <1>5, <1>7, <1>8, RowsStay

LEMMA TickKeepsIInv ==
  ASSUME IInv, Tick
  PROVE  IInv'
<1> USE DEF IInv, Tick
<1>1. TypeOK'
  BY DEF TypeOK
<1>2. Exclusion' /\ IdsAreUnique'
  BY DEF Exclusion, IdsAreUnique
<1>3. (\A a \in revisions : a.created <= clock)'
  BY DEF TypeOK, Revision
<1>4. ASSUME NEW q \in Request PROVE Knows(q)'
  BY RowsStay DEF TypeOK, Knows
<1>5. QED
  BY <1>1, <1>2, <1>3, <1>4, RowsStay

-----------------------------------------------------------------------------
\* The row that is committed replaces the head its request has found, which is the head
\* still.
LEMMA CommitKeepsIInv ==
  ASSUME NEW r \in Request, IInv, Commit(r)
  PROVE  IInv'
<1> USE DEF IInv, Commit, Finish
<1>0. PICK chain : chain = draft[r]
  OBVIOUS
<1>1. PICK a \in inserted[r] :
        /\ inserted[r] = {a}
        /\ ChainOf(a) = chain
        /\ a.created = created[r]
        /\ a.replaces = previous[r]
        /\ \A b \in Rows(chain) : b.id < a.id
  BY <1>0 DEF Knows
<1>2. /\ chain \in Chain
      /\ created[r] <= clock
      /\ \A b \in Rows(chain) : b.created <= created[r]
      /\ IF Rows(chain) = {} THEN previous[r] = NoRevision
         ELSE \E b \in Rows(chain) : previous[r] = b.id /\ IsHead(b)
  BY <1>0 DEF Knows, Holding
<1>3. revisions' = revisions \cup {a} /\ a \in Revision /\ revisions \subseteq Revision
  BY <1>1 DEF TypeOK
<1>4. \A k : k # chain => Rows(k)' = Rows(k)
  BY <1>1, <1>3 DEF Rows
<1>5. Rows(chain)' = Rows(chain) \cup {a}
  BY <1>1, <1>3 DEF Rows
<1>6. TypeOK'
  BY <1>3 DEF TypeOK
<1>7. Exclusion'
  BY DEF TypeOK, Exclusion, Holding
<1>8. IdsAreUnique'
  BY <1>1, <1>3 DEF TypeOK, IdsAreUnique
<1>9. (\A b \in revisions : b.created <= clock)'
  BY <1>1, <1>2, <1>3
<1>10. IsHead(a)'
  BY <1>1, <1>3, <1>5 DEF IsHead, Revision, Rows
<1>11. \A b \in revisions : ChainOf(b) # chain => (IsHead(b)' <=> IsHead(b))
  BY <1>4 DEF IsHead
<1>12. ChainsAreOrdered'
  <2>1. (\A b, c \in revisions : ChainOf(b) = ChainOf(c) /\ b.id < c.id
           => b.created <= c.created)'
    <3> SUFFICES ASSUME NEW b \in revisions', NEW c \in revisions',
                        ChainOf(b) = ChainOf(c), b.id < c.id
                 PROVE  b.created <= c.created
      OBVIOUS
    <3>1. CASE b \in revisions /\ c \in revisions
      BY <3>1 DEF ChainsAreOrdered
    <3>2. CASE b \in revisions /\ c = a
      BY <1>1, <1>2, <3>2 DEF Rows
    <3>3. CASE b = a /\ c \in revisions
      <4>1. c \in Rows(chain)
        BY <1>1, <3>3 DEF Rows
      <4>2. c.id < a.id /\ a.id < c.id /\ a.id \in Nat /\ c.id \in Nat
        BY <1>1, <1>3, <3>3, <4>1 DEF Revision
      <4>3. QED BY <4>2
    <3>4. CASE b = a /\ c = a
      BY <1>3, <3>4 DEF Revision
    <3>5. QED
      BY <1>3, <3>1, <3>2, <3>3, <3>4
  <2>2. ASSUME NEW k \in Chain, Rows(k)' # {} PROVE \E b \in Rows(k)' : IsHead(b)'
    <3>1. CASE k = chain
      BY <1>5, <1>10, <3>1
    <3>2. CASE k # chain
      <4>1. PICK b \in Rows(k) : IsHead(b)
        BY <1>4, <2>2, <3>2 DEF ChainsAreOrdered
      <4>2. b \in revisions /\ ChainOf(b) = k
        BY DEF Rows
      <4>3. QED
        BY <1>4, <1>11, <3>2, <4>1, <4>2
    <3>3. QED BY <3>1, <3>2
  <2>3. ASSUME NEW b \in revisions'
        PROVE  IsHead(b)' \/ \E c \in revisions' : c.replaces = b.id
    <3>1. CASE b = a
      BY <1>10, <3>1
    <3>2. CASE b \in revisions /\ ChainOf(b) # chain
      BY <1>3, <1>11, <3>2 DEF ChainsAreOrdered
    <3>3. CASE b \in revisions /\ ChainOf(b) = chain /\ IsHead(b)
      <4>1. b \in Rows(chain)
        BY <3>3 DEF Rows
      <4>2. PICK c \in Rows(chain) : previous[r] = c.id /\ IsHead(c)
        BY <1>2, <4>1
      <4>3. c.id = b.id
        <5>1. c \in revisions /\ ChainOf(c) = chain
          BY DEF Rows
        <5>2. c.id <= b.id /\ b.id <= c.id
          BY <3>3, <4>1, <4>2, <5>1 DEF IsHead
        <5>3. QED BY <1>3, <3>3, <5>1, <5>2 DEF Revision
      <4>4. QED
        BY <1>1, <1>3, <4>2, <4>3
    <3>4. CASE b \in revisions /\ ~IsHead(b)
      BY <1>3, <3>4 DEF ChainsAreOrdered
    <3>5. QED
      BY <1>3, <3>1, <3>2, <3>3, <3>4
  <2>4. QED
    BY <2>1, <2>2, <2>3 DEF ChainsAreOrdered
<1>13. ASSUME NEW q \in Request PROVE Knows(q)'
  <2>1. CASE q = r
    BY <2>1 DEF TypeOK, Knows, Holding
  <2>2. CASE q # r /\ pc[q] \in Holding
    <3>1. draft[q] # chain
      BY <1>0, <2>2 DEF Exclusion, Holding
    <3>2. \A b \in Rows(draft[q]) : IsHead(b)' <=> IsHead(b)
      BY <1>11, <3>1 DEF Rows
    <3>3. QED
      BY <1>4, <2>2, <3>1, <3>2 DEF TypeOK, Knows
  <2>3. CASE q # r /\ pc[q] \notin Holding
    BY <2>3 DEF TypeOK, Knows, Holding
  <2>4. QED BY <2>1, <2>2, <2>3
<1>14. ASSUME NEW b \in revisions' PROVE Linear(b)'
  <2>1. CASE b = a
    <3>1. Older(a)' = Rows(chain)
      BY <1>1, <1>3, <1>5 DEF Older, Revision
    <3>2. CASE Rows(chain) = {}
      BY <1>1, <1>2, <2>1, <3>1, <3>2 DEF Linear
    <3>3. CASE Rows(chain) # {}
      <4>1. PICK c \in Rows(chain) : previous[r] = c.id /\ IsHead(c)
        BY <1>2, <3>3
      <4>2. \A d \in Rows(chain) : d.id <= c.id
        BY <4>1 DEF IsHead, Rows
      <4>3. QED
        BY <1>1, <1>2, <2>1, <3>1, <3>3, <4>1, <4>2 DEF Linear
    <3>4. QED BY <3>2, <3>3
  <2>2. CASE b \in revisions
    <3>1. Older(b)' = Older(b)
      <4>1. CASE ChainOf(b) = chain
        <5>1. b \in Rows(chain) /\ ~(a.id < b.id)
          BY <1>1, <1>3, <2>2, <4>1 DEF Rows, Revision
        <5>2. QED BY <1>5, <4>1, <5>1 DEF Older
      <4>2. CASE ChainOf(b) # chain
        BY <1>4, <4>2 DEF Older
      <4>3. QED BY <4>1, <4>2
    <3>2. QED
      BY <2>2, <3>1 DEF Linear
  <2>3. QED BY <1>3, <2>1, <2>2
<1>15. QED
  BY <1>6, <1>7, <1>8, <1>9, <1>12, <1>13, <1>14

LEMMA NextKeepsIInv == IInv /\ [Next]_vars => IInv'
<1> SUFFICES ASSUME IInv, [Next]_vars PROVE IInv'
  OBVIOUS
<1>1. ASSUME NEW r \in Request, NEW parameter \in Parameter, NEW target \in Named,
             Begin(r, parameter, target)
      PROVE  IInv'
  BY <1>1, BeginKeepsIInv
<1>2. ASSUME NEW r \in Request, NotFound(r) \/ Abort(r) PROVE IInv'
  BY <1>2, FinishKeepsIInv DEF NotFound, Abort
<1>3. ASSUME NEW r \in Request, Lock(r) PROVE IInv'
  BY <1>3, LockKeepsIInv
<1>4. ASSUME NEW r \in Request, FindPrevious(r) PROVE IInv'
  BY <1>4, FindPreviousKeepsIInv
<1>5. ASSUME NEW r \in Request, Insert(r) PROVE IInv'
  BY <1>5, InsertKeepsIInv
<1>6. ASSUME NEW r \in Request, Commit(r) PROVE IInv'
  BY <1>6, CommitKeepsIInv
<1>7. CASE Tick
  BY <1>7, TickKeepsIInv
<1>8. CASE UNCHANGED vars
  <2> USE <1>8 DEF vars, IInv
  <2>1. (TypeOK /\ Exclusion /\ IdsAreUnique /\ \A a \in revisions : a.created <= clock)'
    BY DEF TypeOK, Exclusion, IdsAreUnique
  <2>2. ASSUME NEW q \in Request PROVE Knows(q)'
    BY RowsStay DEF Knows
  <2>3. QED
    BY <2>1, <2>2, RowsStay
<1>9. QED
  BY <1>1, <1>2, <1>3, <1>4, <1>5, <1>6, <1>7, <1>8 DEF Next, Quiescent

\* The strengthened invariant holds in every reachable state.
THEOREM Invariance == Spec => []IInv
<1>1. QED
  BY InitIInv, NextKeepsIInv, PTL DEF Spec

\* Every variable keeps its type.
THEOREM TypeCorrect == Spec => []TypeOK
<1>1. IInv => TypeOK
  BY DEF IInv
<1>2. QED
  BY <1>1, Invariance, PTL

\* create_revision builds one line of revisions for each parameter and target.
THEOREM ChainsStayLinear == Spec => []ChainsAreLinear
<1>1. IInv => ChainsAreLinear
  BY DEF IInv, ChainsAreLinear, Linear, Older
<1>2. QED
  BY <1>1, Invariance, PTL

-----------------------------------------------------------------------------
(* What readers select. *)

\* A chain with rows has one row that nobody has replaced: its head.
LEMMA HeadIsUnreplaced ==
  ASSUME NEW k \in Chain, IInv
  PROVE  Unreplaced(k) = {a \in Rows(k) : IsHead(a)}
<1> USE DEF IInv
<1>1. \A a \in Rows(k) : a \in revisions /\ ChainOf(a) = k /\ a \in Revision
  BY DEF Rows, TypeOK
<1>2. ASSUME NEW a \in Rows(k), IsHead(a), NEW b \in revisions PROVE b.replaces # a.id
  <2>1. SUFFICES ASSUME b.replaces = a.id PROVE FALSE
    OBVIOUS
  <2>2. a.id \in Nat /\ b \in Revision
    BY <1>1 DEF Revision, TypeOK
  <2>3. Older(b) # {}
    BY <2>1, <2>2, ConfigurationAssumption DEF Linear
  <2>4. PICK c \in Older(b) : b.replaces = c.id
    BY <2>3 DEF Linear
  <2>5. c \in revisions /\ ChainOf(c) = ChainOf(b) /\ c.id < b.id
    BY DEF Older, Rows
  <2>6. c = a
    BY <1>1, <2>1, <2>4, <2>5 DEF IdsAreUnique
  <2>7. b \in Rows(ChainOf(a)) /\ a.id < b.id
    BY <2>5, <2>6 DEF Rows
  <2>8. b.id <= a.id
    BY <1>2, <2>7 DEF IsHead
  <2>9. QED
    BY <2>2, <2>7, <2>8 DEF Revision
<1>3. ASSUME NEW a \in Rows(k), \A b \in revisions : b.replaces # a.id PROVE IsHead(a)
  BY <1>1, <1>3 DEF ChainsAreOrdered
<1>4. QED
  BY <1>2, <1>3 DEF Unreplaced

\* The head of a chain sorts before the rows it has left behind.
LEMMA HeadIsNewest ==
  ASSUME NEW a \in revisions, NEW b \in revisions, IInv,
         IsHead(a), ChainOf(a) = ChainOf(b), a # b
  PROVE  Newer(a, b) /\ ~Newer(b, a)
<1>1. a \in Revision /\ b \in Revision /\ b.id <= a.id /\ b.id # a.id
  BY DEF IInv, TypeOK, IsHead, Rows, IdsAreUnique
<1>2. b.created <= a.created
  BY <1>1 DEF IInv, ChainsAreOrdered, Revision
<1>3. QED
  BY <1>1, <1>2 DEF Newer, Revision

HeadsAreUnreplaced ==
  \A k \in Chain : /\ Unreplaced(k) = {a \in Rows(k) : IsHead(a)}
                   /\ Unreplaced(k) = {} <=> Rows(k) = {}

LEMMA Heads == IInv => HeadsAreUnreplaced
BY HeadIsUnreplaced DEF IInv, ChainsAreOrdered, HeadsAreUnreplaced

\* Of a chain and rows that are further away, the head of the chain sorts first.
LEMMA HeadSortsFirst ==
  ASSUME IInv, NEW k \in Chain, Rows(k) # {}, NEW far,
         \A b \in far : Priority(b.target) \in Nat /\ Priority(k[2]) < Priority(b.target),
         Priority(k[2]) \in Nat
  PROVE  {a \in Rows(k) \cup far : \A b \in Rows(k) \cup far : a = b \/ SortsFirst(a, b)} =
           {a \in Rows(k) : IsHead(a)}
<1>1. \A a \in Rows(k) : a \in revisions /\ ChainOf(a) = k /\ a.target = k[2]
  BY DEF Rows, ChainOf
<1>2. PICK head \in Rows(k) : IsHead(head)
  BY DEF IInv, ChainsAreOrdered
<1>3. ASSUME NEW a \in Rows(k), IsHead(a), NEW b \in Rows(k) \cup far
      PROVE  a = b \/ SortsFirst(a, b)
  <2>1. CASE b \in Rows(k)
    BY <1>1, <1>3, <2>1, HeadIsNewest DEF SortsFirst
  <2>2. CASE b \in far
    BY <1>1, <2>2 DEF SortsFirst
  <2>3. QED BY <2>1, <2>2
<1>4. ASSUME NEW a \in Rows(k) \cup far, a = head \/ SortsFirst(a, head)
      PROVE  a = head
  <2>1. SUFFICES ASSUME SortsFirst(a, head), a # head PROVE FALSE
    BY <1>4
  <2>2. CASE a \in Rows(k)
    <3>1. ~Newer(a, head)
      BY <1>1, <1>2, <2>1, <2>2, HeadIsNewest
    <3>2. QED BY <1>1, <2>1, <2>2, <3>1 DEF SortsFirst
  <2>3. CASE a \in far
    BY <1>1, <2>1, <2>3 DEF SortsFirst
  <2>4. QED BY <2>2, <2>3
<1>5. QED
  BY <1>2, <1>3, <1>4

\* The selection of effective, as the heads of chains.
LEMMA NearestHead == IInv => EffectiveIsNearestHead
<1> SUFFICES ASSUME IInv, NEW m \in Match, NEW parameter \in Parameter
             PROVE  {a \in Selected(m) : a.parameter = parameter} =
                      IF Unreplaced(<<parameter, <<"match", m>>>>) # {}
                      THEN Unreplaced(<<parameter, <<"match", m>>>>)
                      ELSE IF Unreplaced(<<parameter, <<"competition", CompetitionOf[m]>>>>) # {}
                      THEN Unreplaced(<<parameter, <<"competition", CompetitionOf[m]>>>>)
                      ELSE Unreplaced(<<parameter, <<"global">>>>)
  BY DEF EffectiveIsNearestHead
<1> DEFINE own == <<parameter, <<"match", m>>>>
           shared == <<parameter, <<"competition", CompetitionOf[m]>>>>
           general == <<parameter, <<"global">>>>
           chosen == {a \in Selected(m) : a.parameter = parameter}
<1>1. own \in Chain /\ shared \in Chain /\ general \in Chain
  BY ConfigurationAssumption DEF Chain, Target
<1>2. /\ Priority(<<"match", m>>) = 0
      /\ Priority(<<"competition", CompetitionOf[m]>>) = 1
      /\ Priority(<<"global">>) = 2
  BY DEF Priority, Scope
<1>3. \A a : a \in Candidates(m) /\ a.parameter = parameter <=>
             a \in Rows(own) \cup Rows(shared) \cup Rows(general)
  BY DEF Candidates, Rows, ChainOf
<1>4. chosen =
        LET rows == Rows(own) \cup Rows(shared) \cup Rows(general)
        IN {a \in rows : \A b \in rows : a = b \/ SortsFirst(a, b)}
  BY <1>3 DEF Selected
<1>5. /\ \A b \in Rows(own) : b.target = <<"match", m>>
      /\ \A b \in Rows(shared) : b.target = <<"competition", CompetitionOf[m]>>
      /\ \A b \in Rows(general) : b.target = <<"global">>
  BY DEF Rows, ChainOf
<1>6. /\ own[2] = <<"match", m>>
      /\ shared[2] = <<"competition", CompetitionOf[m]>>
      /\ general[2] = <<"global">>
  OBVIOUS
<1>7. \A k \in Chain : /\ Unreplaced(k) = {a \in Rows(k) : IsHead(a)}
                       /\ Unreplaced(k) = {} <=> Rows(k) = {}
  BY Heads DEF HeadsAreUnreplaced
<1> HIDE DEF own, shared, general, chosen
<1>8. CASE Rows(own) # {}
  <2> DEFINE far == Rows(shared) \cup Rows(general)
  <2>1. \A b \in far : Priority(b.target) \in Nat /\ Priority(own[2]) < Priority(b.target)
    BY <1>2, <1>5, <1>6
  <2>2. Priority(own[2]) \in Nat
    BY <1>2, <1>6
  <2>3. Rows(own) \cup Rows(shared) \cup Rows(general) = Rows(own) \cup far
    OBVIOUS
  <2> HIDE DEF far
  <2>4. {a \in Rows(own) \cup far : \A b \in Rows(own) \cup far : a = b \/ SortsFirst(a, b)}
          = {a \in Rows(own) : IsHead(a)}
    BY <1>1, <1>8, <2>1, <2>2, HeadSortsFirst
  <2>5. chosen = Unreplaced(own)
    BY <1>1, <1>4, <1>7, <2>3, <2>4
  <2>6. QED
    BY <1>1, <1>7, <1>8, <2>5 DEF chosen, own, shared, general
<1>9. CASE Rows(own) = {} /\ Rows(shared) # {}
  <2> DEFINE far == Rows(general)
  <2>1. \A b \in far : Priority(b.target) \in Nat /\ Priority(shared[2]) < Priority(b.target)
    BY <1>2, <1>5, <1>6
  <2>2. Priority(shared[2]) \in Nat
    BY <1>2, <1>6
  <2>3. Rows(own) \cup Rows(shared) \cup Rows(general) = Rows(shared) \cup far
    BY <1>9
  <2> HIDE DEF far
  <2>4. {a \in Rows(shared) \cup far : \A b \in Rows(shared) \cup far : a = b \/ SortsFirst(a, b)}
          = {a \in Rows(shared) : IsHead(a)}
    BY <1>1, <1>9, <2>1, <2>2, HeadSortsFirst
  <2>5. chosen = Unreplaced(shared)
    BY <1>1, <1>4, <1>7, <2>3, <2>4
  <2>6. QED
    BY <1>1, <1>7, <1>9, <2>5 DEF chosen, own, shared, general
<1>10. CASE Rows(own) = {} /\ Rows(shared) = {} /\ Rows(general) # {}
  <2>1. Priority(general[2]) \in Nat
    BY <1>2, <1>6
  <2>2. Rows(own) \cup Rows(shared) \cup Rows(general) = Rows(general) \cup {}
    BY <1>10
  <2>3. chosen = Unreplaced(general)
    BY <1>1, <1>4, <1>7, <1>10, <2>1, <2>2, HeadSortsFirst
  <2>4. QED
    BY <1>1, <1>7, <1>10, <2>3 DEF chosen, own, shared, general
<1>11. CASE Rows(own) = {} /\ Rows(shared) = {} /\ Rows(general) = {}
  <2>1. chosen = {}
    BY <1>4, <1>11
  <2>2. QED
    BY <1>1, <1>7, <1>11, <2>1 DEF chosen, own, shared, general
<1>12. QED
  BY <1>8, <1>9, <1>10, <1>11

\* What effective selects, and a snapshot freezes, is the head of the nearest chain that
\* has revisions: the selection by the order of the clock and the references agree.
THEOREM EffectiveIsHead == Spec => []EffectiveIsNearestHead
<1>1. QED
  BY NearestHead, Invariance, PTL

\* After a commit the same chain has the row that replaces its head, or a nearer chain
\* has its first row.
LEMMA CommitNeverFallsBack ==
  ASSUME NEW r \in Request, NEW m \in Match, IInv, IInv', Commit(r), NEW a \in Selected(m)
  PROVE  \E b \in Selected(m)' :
           /\ a.parameter = b.parameter
           /\ \/ a = b
              \/ a.target = b.target /\ b.replaces = a.id
              \/ Priority(b.target) < Priority(a.target)
<1> DEFINE own == <<a.parameter, <<"match", m>>>>
           shared == <<a.parameter, <<"competition", CompetitionOf[m]>>>>
           general == <<a.parameter, <<"global">>>>
<1>1. a \in revisions /\ a \in Revision
  BY DEF Selected, Candidates, IInv, TypeOK
<1>2. own \in Chain /\ shared \in Chain /\ general \in Chain
  BY <1>1, ConfigurationAssumption DEF Chain, Target, Revision
<1>3. /\ Priority(<<"match", m>>) = 0
      /\ Priority(<<"competition", CompetitionOf[m]>>) = 1
      /\ Priority(<<"global">>) = 2
  BY DEF Priority, Scope
<1>4. \A k : \A b \in Rows(k) : b.parameter = k[1] /\ b.target = k[2] /\ ChainOf(b) = k
  BY DEF Rows, ChainOf
<1>5. \A k : \A b \in Rows(k)' : b.parameter = k[1] /\ b.target = k[2] /\ ChainOf(b) = k
  BY DEF Rows, ChainOf
<1>6. \A k \in Chain : /\ Unreplaced(k) = {b \in Rows(k) : IsHead(b)}
                       /\ Unreplaced(k) = {} <=> Rows(k) = {}
  BY Heads DEF HeadsAreUnreplaced
<1>7. \A k \in Chain : /\ Unreplaced(k)' = {b \in Rows(k)' : IsHead(b)'}
                       /\ Unreplaced(k)' = {} <=> Rows(k)' = {}
  <2>1. HeadsAreUnreplaced'
    BY Heads, PTL
  <2>2. QED
    BY <2>1 DEF HeadsAreUnreplaced
<1>8. \A k : Rows(k) \subseteq Rows(k)'
  BY DEF Rows, Commit
<1>9. {b \in Selected(m) : b.parameter = a.parameter} =
        IF Unreplaced(own) # {} THEN Unreplaced(own)
        ELSE IF Unreplaced(shared) # {} THEN Unreplaced(shared) ELSE Unreplaced(general)
  BY <1>1, NearestHead DEF EffectiveIsNearestHead, Revision
<1>10. {b \in Selected(m)' : b.parameter = a.parameter} =
         IF Unreplaced(own)' # {} THEN Unreplaced(own)'
         ELSE IF Unreplaced(shared)' # {} THEN Unreplaced(shared)' ELSE Unreplaced(general)'
  <2>1. EffectiveIsNearestHead'
    BY NearestHead, PTL
  <2>2. QED
    BY <1>1, <2>1 DEF EffectiveIsNearestHead, Revision
<1> HIDE DEF own, shared, general
\* The head of a chain after the commit is its head before, or the row that replaces it.
<1>11. ASSUME NEW k \in Chain, a \in Unreplaced(k), NEW b \in Unreplaced(k)'
       PROVE  a = b \/ (a.target = b.target /\ b.replaces = a.id)
  <2>1. a \in Rows(k) /\ IsHead(a) /\ b \in Rows(k)' /\ IsHead(b)'
    BY <1>6, <1>7, <1>11
  <2>2. a.target = b.target
    BY <1>4, <1>5, <2>1
  <2>3. CASE b \in revisions
    <3>1. b \in Rows(k)
      BY <2>1, <2>3 DEF Rows
    <3>2. b.id <= a.id
      BY <1>4, <2>1, <3>1 DEF IsHead
    <3>3. a.id <= b.id
      BY <1>5, <1>8, <2>1 DEF IsHead
    <3>4. a.id = b.id
      <4>1. b \in Revision
        BY <2>3 DEF IInv, TypeOK
      <4>2. QED BY <1>1, <3>2, <3>3, <4>1 DEF Revision
    <3>5. QED
      BY <1>1, <2>3, <3>4 DEF IInv, IdsAreUnique
  <2>4. CASE b \notin revisions
    <3>1. b \in inserted[r] /\ b \in revisions'
      BY <2>1, <2>4 DEF Rows, Commit
    <3>2. /\ ChainOf(b) = draft[r] /\ b.replaces = previous[r]
          /\ Rows(draft[r]) # {} =>
               \E c \in Rows(draft[r]) : previous[r] = c.id /\ IsHead(c)
      BY <3>1 DEF IInv, Knows, Commit
    <3>3. draft[r] = k
      BY <1>5, <2>1, <3>2
    <3>4. PICK c \in Rows(k) : previous[r] = c.id /\ IsHead(c)
      BY <2>1, <3>2, <3>3
    <3>5. c.id = a.id
      <4>1. c.id <= a.id /\ a.id <= c.id
        BY <1>4, <2>1, <3>4 DEF IsHead
      <4>2. c \in Revision
        BY DEF Rows, IInv, TypeOK
      <4>3. QED BY <1>1, <4>1, <4>2 DEF Revision
    <3>6. QED
      BY <2>2, <3>2, <3>4, <3>5
  <2>5. QED BY <2>3, <2>4
<1>12. a \in Unreplaced(own) \/ a \in Unreplaced(shared) \/ a \in Unreplaced(general)
  BY <1>9
<1>13. \A k \in {own, shared, general} : Unreplaced(k) # {} => Unreplaced(k)' # {}
  BY <1>2, <1>6, <1>7, <1>8
<1>14. /\ \A b \in Unreplaced(own) \cup Unreplaced(own)' : Priority(b.target) = 0
       /\ \A b \in Unreplaced(shared) \cup Unreplaced(shared)' : Priority(b.target) = 1
       /\ \A b \in Unreplaced(general) \cup Unreplaced(general)' : Priority(b.target) = 2
  BY <1>2, <1>3, <1>4, <1>5, <1>6, <1>7 DEF own, shared, general
<1>15. QED
  BY <1>2, <1>9, <1>10, <1>11, <1>12, <1>13, <1>14

\* A further row never brings back what was discarded.
LEMMA CommitDiscards ==
  ASSUME NEW r \in Request, NEW m \in Match, Commit(r)
  PROVE  Discarded(m) \subseteq Discarded(m)'
<1>1. Candidates(m) \subseteq Candidates(m)'
  BY DEF Candidates, Commit
<1>2. Selected(m)' \cap Candidates(m) \subseteq Selected(m)
  BY <1>1 DEF Selected, SortsFirst, Newer
<1>3. QED
  BY <1>1, <1>2 DEF Discarded

\* The configuration of a match never falls back to one it had left.
THEOREM EffectiveOnlyAdvances == Spec => EffectiveNeverFallsBack
<1>1. ASSUME IInv, IInv', [Next]_vars
      PROVE  [\A m \in Match :
                /\ \A a \in Selected(m) : \E b \in Selected(m)' :
                     /\ a.parameter = b.parameter
                     /\ \/ a = b
                        \/ a.target = b.target /\ b.replaces = a.id
                        \/ Priority(b.target) < Priority(a.target)
                /\ Discarded(m) \subseteq Discarded(m)']_revisions
  <2>1. CASE UNCHANGED revisions
    BY <2>1
  <2>2. ASSUME NEW r \in Request, Commit(r)
        PROVE  \A m \in Match :
                 /\ \A a \in Selected(m) : \E b \in Selected(m)' :
                      /\ a.parameter = b.parameter
                      /\ \/ a = b
                         \/ a.target = b.target /\ b.replaces = a.id
                         \/ Priority(b.target) < Priority(a.target)
                 /\ Discarded(m) \subseteq Discarded(m)'
    BY <1>1, <2>2, CommitNeverFallsBack, CommitDiscards
  <2>3. UNCHANGED revisions \/ \E r \in Request : Commit(r)
    BY <1>1 DEF Next, vars, Begin, NotFound, Lock, FindPrevious, Insert, Abort, Tick, Quiescent
  <2>4. QED
    BY <2>1, <2>2, <2>3
<1>2. QED
  BY <1>1, Invariance, PTL DEF Spec, EffectiveNeverFallsBack
-----------------------------------------------------------------------------
(* The chains as ConfigurationChains promises them.                        *)

\* The rows can be counted, and every place of a history has its row.
Counted ==
  /\ IsFiniteSet(revisions)
  /\ \A k : \A i \in 1..Cardinality(Rows(k)) : Place(k, i) # {}

LEMMA InitCounted == Init => Counted
BY FS_EmptySet DEF Init, Counted, Rows

LEMMA PlaceStays ==
  ASSUME NEW k, NEW i, Rows(k)' = Rows(k)
  PROVE  Place(k, i)' = Place(k, i)
BY DEF Place, Below, Newer

\* The step in which a row goes to the end of the history of its chain, and no other
\* row moves.
Appends(k, a) ==
  /\ k \in Chain
  /\ revisions' = revisions \cup {a}
  /\ \A b \in revisions : b.id # a.id
  /\ \A c : c # k => Rows(c)' = Rows(c)
  /\ Cardinality(Rows(k)') = Cardinality(Rows(k)) + 1
  /\ \A i \in 1..Cardinality(Rows(k)) : Place(k, i)' = Place(k, i)
  /\ \A i : i = Cardinality(Rows(k)) + 1 => Place(k, i)' = {a}

\* What is committed is newer than its chain.
LEMMA CommitAppends ==
  ASSUME NEW r \in Request, IInv, Counted, Commit(r)
  PROVE  \E k, a : Appends(k, a)
<1>0. PICK chain : chain = draft[r]
  OBVIOUS
<1>1. PICK a \in inserted[r] :
        /\ inserted[r] = {a}
        /\ ChainOf(a) = chain
        /\ a.created = created[r]
        /\ \A b \in Rows(chain) : b.id < a.id
  BY <1>0 DEF IInv, Knows, Commit
<1>2. chain \in Chain /\ \A b \in Rows(chain) : b.created <= a.created
  BY <1>0, <1>1 DEF IInv, Knows, Holding, Commit
<1>3. revisions' = revisions \cup {a} /\ a \in Revision /\ revisions \subseteq Revision
  BY <1>1 DEF IInv, TypeOK, Commit
<1>4. \A b \in revisions : b.id # a.id
  BY <1>1 DEF IInv, IdsAreUnique
<1>5. \A k : k # chain => Rows(k)' = Rows(k)
  BY <1>1, <1>3 DEF Rows
<1>6. Rows(chain)' = Rows(chain) \cup {a} /\ Rows(chain) \subseteq revisions
  BY <1>1, <1>3 DEF Rows
<1>7. PICK rows : rows = Rows(chain)
  OBVIOUS
<1>8. PICK n : n = Cardinality(rows)
  OBVIOUS
<1>9. IsFiniteSet(rows) /\ n \in Nat
  BY <1>6, <1>7, <1>8, FS_Subset, FS_CardinalityType DEF Counted
<1>10. a \notin rows
  BY <1>4, <1>6, <1>7
<1>11. Cardinality(rows \cup {a}) = n + 1
  BY <1>8, <1>9, <1>10, FS_AddElement
\* The row is newer than all others, and none is newer than itself.
<1>12. /\ \A b \in rows : Newer(a, b) /\ ~Newer(b, a) /\ ~Newer(b, b)
       /\ ~Newer(a, a)
  BY <1>1, <1>2, <1>3, <1>6, <1>7 DEF Newer, Revision
<1>13. \A b \in rows : Below(rows \cup {a}, b) = Below(rows, b)
  BY <1>12 DEF Below
<1>14. Below(rows \cup {a}, a) = rows
  BY <1>12 DEF Below
<1>15. ASSUME NEW b \in rows PROVE Cardinality(Below(rows, b)) # n
  <2>1. Below(rows, b) \subseteq rows /\ Below(rows, b) # rows
    BY <1>12 DEF Below
  <2>2. QED BY <1>8, <1>9, <2>1, FS_Subset
<1>16. \A i, b : b \in Place(chain, i)' <=>
                   b \in rows \cup {a} /\ Cardinality(Below(rows \cup {a}, b)) = i - 1
  BY <1>6, <1>7 DEF Place, Below, Newer
<1>17. \A i, b : b \in Place(chain, i) <=> b \in rows /\ Cardinality(Below(rows, b)) = i - 1
  BY <1>7 DEF Place
<1>18. ASSUME NEW i \in 1..n PROVE Place(chain, i)' = Place(chain, i)
  <2>1. n # i - 1
    BY <1>9
  <2>2. ASSUME NEW b PROVE b \in Place(chain, i)' <=> b \in Place(chain, i)
    <3>1. CASE b = a
      BY <1>8, <1>10, <1>14, <1>16, <1>17, <2>1, <3>1
    <3>2. CASE b # a
      BY <1>13, <1>16, <1>17, <3>2
    <3>3. QED BY <3>1, <3>2
  <2>3. QED BY <2>2
<1>19. ASSUME NEW last, last = n + 1 PROVE Place(chain, last)' = {a}
  <2>1. last - 1 = n
    BY <1>9, <1>19
  <2>2. ASSUME NEW b PROVE b \in Place(chain, last)' <=> b = a
    <3>1. CASE b = a
      BY <1>8, <1>14, <1>16, <2>1, <3>1
    <3>2. CASE b # a
      BY <1>13, <1>15, <1>16, <2>1, <3>2
    <3>3. QED BY <3>1, <3>2
  <2>3. QED BY <2>2
<1>20. Cardinality(Rows(chain)') = n + 1 /\ n = Cardinality(Rows(chain))
  BY <1>6, <1>7, <1>8, <1>11
<1>21. Appends(chain, a)
  BY <1>2, <1>3, <1>4, <1>5, <1>18, <1>19, <1>20 DEF Appends
<1>22. QED BY <1>21

\* As long as no row is committed, the histories stay.
LEMMA HistoriesStay ==
  ASSUME UNCHANGED revisions
  PROVE  /\ Counted => Counted'
         /\ \A k : Shown(k)' = Shown(k)
<1>1. \A k : Rows(k)' = Rows(k)
  BY DEF Rows
<1>2. \A k, i : Place(k, i)' = Place(k, i)
  BY <1>1, PlaceStays
<1>3. QED BY <1>1, <1>2 DEF Counted, Shown

LEMMA CommitKeepsCounted ==
  ASSUME NEW r \in Request, IInv, Counted, Commit(r)
  PROVE  Counted'
<1>1. PICK chain, a : Appends(chain, a)
  BY CommitAppends
<1>2. /\ revisions' = revisions \cup {a}
      /\ \A k : k # chain => Rows(k)' = Rows(k)
      /\ Cardinality(Rows(chain)') = Cardinality(Rows(chain)) + 1
      /\ \A i \in 1..Cardinality(Rows(chain)) : Place(chain, i)' = Place(chain, i)
      /\ \A i : i = Cardinality(Rows(chain)) + 1 => Place(chain, i)' = {a}
  BY <1>1 DEF Appends
<1>3. IsFiniteSet(revisions')
  BY <1>2, FS_AddElement DEF Counted
<1>4. Cardinality(Rows(chain)) \in Nat
  BY FS_Subset, FS_CardinalityType DEF Counted, Rows
<1>5. ASSUME NEW k, NEW i \in 1..Cardinality(Rows(k)') PROVE Place(k, i)' # {}
  <2>1. CASE k # chain
    <3>1. Place(k, i)' = Place(k, i)
      BY <1>2, <2>1, PlaceStays
    <3>2. QED BY <1>2, <1>5, <2>1, <3>1 DEF Counted
  <2>2. CASE k = chain
    <3>1. CASE i \in 1..Cardinality(Rows(chain))
      BY <1>2, <2>2, <3>1 DEF Counted
    <3>2. CASE i = Cardinality(Rows(chain)) + 1
      BY <1>2, <2>2, <3>2
    <3>3. QED BY <1>2, <1>4, <1>5, <2>2, <3>1, <3>2
  <2>3. QED BY <2>1, <2>2
<1>6. QED BY <1>3, <1>5 DEF Counted

\* The step of a chain: a commit is one Revise.
LEMMA CommitRevises ==
  ASSUME NEW r \in Request, IInv, Counted, Commit(r)
  PROVE  Chains!Next
<1>1. PICK chain, a : Appends(chain, a)
  BY CommitAppends
<1>2. /\ chain \in Chain
      /\ \A b \in revisions : b.id # a.id
      /\ \A k : k # chain => Rows(k)' = Rows(k)
      /\ Cardinality(Rows(chain)') = Cardinality(Rows(chain)) + 1
      /\ \A i \in 1..Cardinality(Rows(chain)) : Place(chain, i)' = Place(chain, i)
      /\ \A i : i = Cardinality(Rows(chain)) + 1 => Place(chain, i)' = {a}
  BY <1>1 DEF Appends
<1>3. PICK n : n = Cardinality(Rows(chain))
  OBVIOUS
<1>4. \A k : Cardinality(Rows(k)) \in Nat
  BY FS_Subset, FS_CardinalityType DEF Counted, Rows
<1>5. \A k : k # chain => Shown(k)' = Shown(k)
  <2>1. ASSUME NEW k, k # chain PROVE Shown(k)' = Shown(k)
    <3>1. \A i : Place(k, i)' = Place(k, i)
      BY <1>2, <2>1, PlaceStays
    <3>2. QED BY <1>2, <2>1, <3>1 DEF Shown
  <2>2. QED BY <2>1
<1>6. The({a}) = a
  BY DEF The
<1>7. /\ Shown(chain) = [i \in 1..n |-> The(Place(chain, i)).id]
      /\ Shown(chain)' = [i \in 1..(n + 1) |-> IF i = n + 1 THEN a.id
                                               ELSE The(Place(chain, i)).id]
  <2>1. Shown(chain) = [i \in 1..n |-> The(Place(chain, i)).id]
    BY <1>3 DEF Shown
  <2>2. Shown(chain)' = [i \in 1..(n + 1) |-> The(Place(chain, i)').id]
    BY <1>2, <1>3 DEF Shown, The
  <2>3. \A i \in 1..(n + 1) : i # n + 1 => i \in 1..n
    BY <1>3, <1>4
  <2>4. ASSUME NEW i \in 1..(n + 1)
        PROVE  The(Place(chain, i)').id = IF i = n + 1 THEN a.id ELSE The(Place(chain, i)).id
    <3>1. CASE i = n + 1
      <4>1. Place(chain, i)' = {a}
        BY <1>2, <1>3, <3>1
      <4>2. QED BY <1>6, <3>1, <4>1
    <3>2. CASE i # n + 1
      <4>1. Place(chain, i)' = Place(chain, i)
        BY <1>2, <1>3, <2>3, <3>2
      <4>2. QED BY <3>2, <4>1
    <3>3. QED BY <3>1, <3>2
  <2>5. QED BY <2>1, <2>2, <2>4
<1>8. Shown(chain)' = Append(Shown(chain), a.id)
  <2> DEFINE S == {The(Place(chain, i)).id : i \in 1..n} \cup {a.id}
  <2>1. Shown(chain) \in Seq(S) /\ a.id \in S /\ Len(Shown(chain)) = n
    BY <1>3, <1>4, <1>7
  <2>2. QED BY <1>3, <1>4, <1>7, <2>1
<1>9. Len(Shown(chain)') = n + 1 /\ Shown(chain)'[n + 1] = a.id /\ n + 1 \in 1..(n + 1)
  BY <1>3, <1>4, <1>7
<1>10. ASSUME NEW k, NEW i \in 1..Len(Shown(k)) PROVE Shown(k)[i] # a.id
  <2>1. Len(Shown(k)) = Cardinality(Rows(k))
    BY <1>4 DEF Shown
  <2>2. Place(k, i) # {} /\ Shown(k)[i] = The(Place(k, i)).id
    BY <1>10, <2>1 DEF Counted, Shown
  <2>3. The(Place(k, i)) \in revisions
    BY <2>2 DEF The, Place, Rows
  <2>4. QED BY <1>2, <2>2, <2>3
<1> DEFINE h == [k \in Chain |-> Shown(k)]
<1>11. h' = [h EXCEPT ![chain] = Append(@, a.id)]
  BY <1>2, <1>5, <1>8
<1>12. a.id \in Chains!Entries(h'[chain])
  BY <1>2, <1>9 DEF Chains!Entries
<1>13. \A k \in Chain : a.id \notin Chains!Entries(h[k])
  BY <1>10 DEF Chains!Entries
<1>14. Chains!Revise(chain)
  BY <1>11, <1>12, <1>13 DEF Chains!Revise
<1>15. QED BY <1>2, <1>14 DEF Chains!Next

\* The ledger implements the chains: a commit appends its revision to the history of one
\* chain, and no other step shows.
THEOREM LedgerImplementsChains == Spec => ChainsSpec
<1>1. Init => Chains!Init
  <2>1. ASSUME Init, NEW k PROVE Shown(k) = <<>>
    <3>1. Rows(k) = {}
      BY <2>1 DEF Init, Rows
    <3>2. QED BY <3>1, FS_EmptySet DEF Shown
  <2>2. QED BY <2>1 DEF Chains!Init
<1>2. ASSUME IInv, Counted, [Next]_vars
      PROVE  Counted' /\ [Chains!Next]_([k \in Chain |-> Shown(k)])
  <2>1. CASE UNCHANGED revisions
    BY <1>2, <2>1, HistoriesStay
  <2>2. ASSUME NEW r \in Request, Commit(r)
        PROVE  Counted' /\ Chains!Next
    BY <1>2, <2>2, CommitKeepsCounted, CommitRevises
  <2>3. UNCHANGED revisions \/ \E r \in Request : Commit(r)
    BY <1>2 DEF Next, vars, Begin, NotFound, Lock, FindPrevious, Insert, Abort, Tick, Quiescent
  <2>4. QED BY <2>1, <2>2, <2>3
<1>3. QED
  BY <1>1, <1>2, InitCounted, Invariance, PTL DEF Spec, ChainsSpec, Chains!Spec
=============================================================================
