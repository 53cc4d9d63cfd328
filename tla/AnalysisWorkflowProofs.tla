----------------------- MODULE AnalysisWorkflowProofs -----------------------
(***************************************************************************)
(* Proofs about AnalysisWorkflow, for every number of requests, analyses,  *)
(* matches and executions.  The inductive invariant adds to the properties *)
(* what makes them stable: the locks exclude one another, what a request   *)
(* read under its lock is still what is committed, and a row that is not   *)
(* committed yet extends exactly that history.  The last part shows that   *)
(* the workflow implements AnalysisLedger.                                 *)
(***************************************************************************)
EXTENDS AnalysisWorkflow, TLAPS

Exclusion ==
  \A q, r \in Request :
    /\ pc[q] \in InCriticalSection
    /\ pc[r] \in InCriticalSection
    /\ Analysis(q) = Analysis(r)
    => q = r

ReadUnderLock ==
  \A r \in Request :
    /\ pc[r] # "idle" => request[r] \in Ask
    /\ begunAt[r] <= clock
    /\ pc[r] \in InCriticalSection =>
         /\ matchOf[Analysis(r)] # NoMatch
         /\ seen[r] = Of(events, Analysis(r))

CommittedRow(e) ==
  /\ matchOf[e.analysis] # NoMatch
  /\ e.id <= sequence
  /\ e.created <= clock
  /\ e.type = "calculated" =>
       e.execution \in Completed /\ ExecutionMatch[e.execution] = matchOf[e.analysis]

\* The row of a request that wrote one: it continues the history it has read.
PendingRow(r, e) ==
  /\ e.analysis = Analysis(r)
  /\ CommittedRow(e)
  /\ \A f \in seen[r] : f.id < e.id
  /\ e.type = "calculated" => Status(seen[r]) = "draft"
  /\ e.type = "reviewed" => Status(seen[r]) = "calculated"
  /\ e.type = "approved" => /\ Status(seen[r]) = "calculated"
                            /\ Has(seen[r], "reviewed")
                            /\ \A f \in seen[r] : f.created <= e.created

PendingSnapshot(r, e, s) ==
  /\ s.analysis = Analysis(r)
  /\ s.match = matchOf[Analysis(r)]
  /\ s.events = seen[r] \cup {e}
  /\ \E c \in seen[r] : c.type = "calculated" /\ c.execution = s.execution

Uncommitted(r) ==
  /\ pc[r] \in {"idle", "waiting", "locked"} => inserted[r] = {} /\ captured[r] = {}
  /\ pc[r] = "approving" =>
       /\ captured[r] = {}
       /\ \E e \in inserted[r] : /\ inserted[r] = {e}
                                 /\ PendingRow(r, e)
                                 /\ e.type = "approved"
  /\ pc[r] = "inserted" =>
       \E e \in inserted[r] :
         /\ inserted[r] = {e}
         /\ PendingRow(r, e)
         /\ e.type # "approved" => captured[r] = {}
         /\ e.type = "approved" => \E s \in captured[r] : /\ captured[r] = {s}
                                                          /\ PendingSnapshot(r, e, s)

IInv ==
  /\ TypeOK
  /\ Exclusion
  /\ ReadUnderLock
  /\ \A e \in events : CommittedRow(e)
  /\ \A r \in Request : Uncommitted(r)
  /\ LegalHistory
  /\ SnapshotCertifiesHistory
  /\ ApprovalShownLast
-----------------------------------------------------------------------------
\* The invariant holds in the initial states, where nothing is stored.
LEMMA InitIInv == Init => IInv
<1> SUFFICES ASSUME Init PROVE IInv
  OBVIOUS
<1> USE ConstantsAssumption DEF Init, ledger
<1>1. TypeOK
  BY DEF TypeOK, InCriticalSection, Ask, Idle
<1>2. Exclusion
  BY DEF Exclusion, InCriticalSection
<1>3. ReadUnderLock
  BY DEF ReadUnderLock, InCriticalSection
<1>4. \A r \in Request : Uncommitted(r)
  BY DEF Uncommitted
<1>5. LegalHistory /\ SnapshotCertifiesHistory /\ ApprovalShownLast
  BY DEF LegalHistory, SnapshotCertifiesHistory, ApprovalShownLast
<1>6. QED
  BY <1>1, <1>2, <1>3, <1>4, <1>5 DEF IInv

\* A transaction that ends without a commit leaves the ledger as it is.
LEMMA FinishKeepsIInv ==
  ASSUME NEW r \in Request, IInv, Finish(r), UNCHANGED <<clock, ledger, sequence>>
  PROVE  IInv'
<1> USE ConstantsAssumption DEF IInv, Finish, ledger
<1>1. TypeOK'
  BY DEF TypeOK, InCriticalSection, Idle
<1>2. Exclusion'
  BY DEF Exclusion, InCriticalSection, Analysis, TypeOK
<1>3. ReadUnderLock'
  BY DEF ReadUnderLock, InCriticalSection, Analysis, Of, TypeOK
<1>4. (\A e \in events : CommittedRow(e))'
  BY DEF CommittedRow
<1>5. ASSUME NEW q \in Request PROVE Uncommitted(q)'
  BY DEF Uncommitted, PendingRow, PendingSnapshot, CommittedRow, Analysis, TypeOK
<1>6. (LegalHistory /\ SnapshotCertifiesHistory /\ ApprovalShownLast)'
  BY DEF LegalHistory, SnapshotCertifiesHistory, ApprovalShownLast, Of, Has, Before
<1>7. QED
  BY <1>1, <1>2, <1>3, <1>4, <1>5, <1>6 DEF IInv

\* Steps that only start a transaction, create a draft or let time pass.
LEMMA CreateDraftKeepsIInv ==
  ASSUME NEW a \in AnalysisId, NEW m \in Match, IInv, CreateDraft(a, m)
  PROVE  IInv'
<1> USE ConstantsAssumption DEF IInv, CreateDraft
<1>1. TypeOK'
  BY DEF TypeOK
<1>2. Exclusion'
  BY DEF Exclusion, Analysis
<1>3. ReadUnderLock'
  BY DEF ReadUnderLock, Analysis, Of, TypeOK, InCriticalSection, Ask
<1>4. (\A e \in events : CommittedRow(e))'
  BY DEF CommittedRow, TypeOK, Event
<1>5. ASSUME NEW q \in Request PROVE Uncommitted(q)'
  <2>1. pc[q] \in InCriticalSection => Analysis(q) \in AnalysisId /\ Analysis(q) # a
    BY DEF ReadUnderLock, Analysis, TypeOK, InCriticalSection, Ask
  <2>2. \A e : PendingRow(q, e) /\ pc[q] \in InCriticalSection => PendingRow(q, e)'
    BY <2>1 DEF PendingRow, CommittedRow, Analysis, TypeOK
  <2>3. \A e, x : PendingSnapshot(q, e, x) /\ pc[q] \in InCriticalSection
                   => PendingSnapshot(q, e, x)'
    BY <2>1 DEF PendingSnapshot, Analysis, TypeOK
  <2>4. QED
    BY <2>2, <2>3 DEF Uncommitted, InCriticalSection
<1>6. (LegalHistory /\ ApprovalShownLast)'
  BY DEF LegalHistory, ApprovalShownLast, Of, Has, Before
<1>7. SnapshotCertifiesHistory'
  BY DEF SnapshotCertifiesHistory, Of, Has, TypeOK, Snapshot
<1>8. QED
  BY <1>1, <1>2, <1>3, <1>4, <1>5, <1>6, <1>7 DEF IInv

\* A request that begins holds no lock and has written nothing.
LEMMA BeginKeepsIInv ==
  ASSUME NEW r \in Request, NEW operation \in Operation, NEW a \in AnalysisId,
         NEW x \in Execution \cup {NoExecution}, IInv, Begin(r, operation, a, x)
  PROVE  IInv'
<1> USE ConstantsAssumption DEF IInv, Begin, ledger
<1>1. TypeOK'
  BY DEF TypeOK, Ask
<1>2. Exclusion'
  BY DEF Exclusion, Analysis, InCriticalSection, TypeOK
<1>3. ReadUnderLock'
  BY DEF ReadUnderLock, Analysis, Of, TypeOK, InCriticalSection, Ask
<1>4. (\A e \in events : CommittedRow(e))'
  BY DEF CommittedRow
<1>5. ASSUME NEW q \in Request PROVE Uncommitted(q)'
  BY DEF Uncommitted, PendingRow, PendingSnapshot, CommittedRow, Analysis, TypeOK
<1>6. (LegalHistory /\ SnapshotCertifiesHistory /\ ApprovalShownLast)'
  BY DEF LegalHistory, SnapshotCertifiesHistory, ApprovalShownLast, Of, Has, Before
<1>7. QED
  BY <1>1, <1>2, <1>3, <1>4, <1>5, <1>6 DEF IInv

\* The clock only moves forward, so the instants that are stored stay in the past.
LEMMA TickKeepsIInv ==
  ASSUME IInv, Tick
  PROVE  IInv'
<1> USE ConstantsAssumption DEF IInv, Tick, ledger
<1>1. TypeOK'
  BY DEF TypeOK
<1>2. Exclusion'
  BY DEF Exclusion, Analysis
<1>3. ReadUnderLock'
  BY DEF ReadUnderLock, Analysis, Of, TypeOK
<1>4. \A e \in Event : CommittedRow(e) => CommittedRow(e)'
  BY DEF CommittedRow, TypeOK, Event
<1>5. ASSUME NEW q \in Request PROVE Uncommitted(q)'
  <2>1. \A e \in inserted[q] : PendingRow(q, e) => PendingRow(q, e)'
    BY <1>4 DEF PendingRow, Analysis, TypeOK
  <2>2. QED
    BY <2>1 DEF Uncommitted, PendingSnapshot, Analysis
<1>6. (LegalHistory /\ SnapshotCertifiesHistory /\ ApprovalShownLast)'
  BY DEF LegalHistory, SnapshotCertifiesHistory, ApprovalShownLast, Of, Has, Before
<1>7. QED
  BY <1>1, <1>2, <1>3, <1>4, <1>5, <1>6 DEF IInv, TypeOK

\* The lock is free, so the request that takes it is alone in its analysis.
LEMMA LockKeepsIInv ==
  ASSUME NEW r \in Request, IInv, Lock(r)
  PROVE  IInv'
<1> USE ConstantsAssumption DEF IInv, Lock, ledger
<1>1. TypeOK'
  BY DEF TypeOK, Of, InCriticalSection
<1>2. Exclusion'
  BY DEF Exclusion, Analysis, InCriticalSection, LockFree, Holds, TypeOK
<1>3. ReadUnderLock'
  BY DEF ReadUnderLock, Analysis, Of, TypeOK, InCriticalSection
<1>4. (\A e \in events : CommittedRow(e))'
  BY DEF CommittedRow
<1>5. ASSUME NEW q \in Request PROVE Uncommitted(q)'
  BY DEF Uncommitted, PendingRow, PendingSnapshot, CommittedRow, Analysis, TypeOK
<1>6. (LegalHistory /\ SnapshotCertifiesHistory /\ ApprovalShownLast)'
  BY DEF LegalHistory, SnapshotCertifiesHistory, ApprovalShownLast, Of, Has, Before
<1>7. QED
  BY <1>1, <1>2, <1>3, <1>4, <1>5, <1>6 DEF IInv

\* What the three handlers that insert an event have in common.
LEMMA InsertKeepsIInv ==
  ASSUME NEW r \in Request, NEW type \in EventType,
         NEW x \in Execution \cup {NoExecution}, NEW created \in Nat,
         IInv, pc[r] = "locked", created <= clock,
         InsertEvent(r, type, x, created),
         type = "calculated" => /\ Status(seen[r]) = "draft"
                                /\ x \in Completed
                                /\ ExecutionMatch[x] = matchOf[Analysis(r)],
         type = "reviewed" => ReviewAllowed(r),
         type = "approved" => ApprovalAllowed(r) /\ created = clock,
         pc' = [pc EXCEPT ![r] = IF type = "approved" THEN "approving" ELSE "inserted"],
         UNCHANGED <<clock, ledger, request, begunAt, seen, captured>>
  PROVE  IInv'
<1> USE ConstantsAssumption DEF IInv, InsertEvent, ledger
<1>1. /\ request[r] \in Ask /\ sequence \in Nat
      /\ seen[r] = Of(events, Analysis(r))
      /\ captured[r] = {}
  BY DEF ReadUnderLock, InCriticalSection, TypeOK, Uncommitted
<1>2. [id |-> sequence + 1, analysis |-> Analysis(r), type |-> type,
       execution |-> x, created |-> created] \in Event
  BY <1>1 DEF Event, Ask, Analysis
<1>3. PICK row \in Event :
        row = [id |-> sequence + 1, analysis |-> Analysis(r), type |-> type,
               execution |-> x, created |-> created]
  BY <1>2
<1>4. inserted' = [inserted EXCEPT ![r] = {row}]
  BY <1>3
<1>5. TypeOK'
  BY <1>1, <1>4 DEF TypeOK, InCriticalSection
<1>6. Exclusion'
  BY DEF Exclusion, Analysis, InCriticalSection, TypeOK
<1>7. ReadUnderLock'
  BY DEF ReadUnderLock, Analysis, Of, TypeOK, InCriticalSection
<1>8. \A e \in Event : CommittedRow(e) => CommittedRow(e)'
  BY <1>1 DEF CommittedRow, TypeOK, Event
<1>9. PendingRow(r, row)'
  <2>1. \A f \in seen[r] : f.id <= sequence /\ f.created <= clock /\ f.id \in Nat
    BY <1>1 DEF Of, CommittedRow, TypeOK, Event
  <2>2. matchOf[Analysis(r)] # NoMatch
    BY DEF ReadUnderLock, InCriticalSection
  <2>3. CommittedRow(row)'
    BY <1>1, <1>3, <2>2 DEF CommittedRow, Analysis, TypeOK
  <2>4. \A f \in seen[r] : f.id < row.id
    BY <1>1, <1>3, <2>1
  <2>5. QED
    BY <1>3, <2>1, <2>3, <2>4
    DEF PendingRow, CalculationAllowed, ReviewAllowed, ApprovalAllowed, Analysis, TypeOK
<1>10. ASSUME NEW q \in Request PROVE Uncommitted(q)'
  <2>1. CASE q = r
    <3>1. pc'[r] = "approving" <=> type = "approved"
      BY DEF TypeOK
    <3>2. pc'[r] \in {"approving", "inserted"} /\ inserted'[r] = {row} /\ captured'[r] = {}
      BY <1>1, <1>4 DEF TypeOK
    <3>3. QED
      BY <2>1, <3>1, <3>2, <1>9 DEF Uncommitted
  <2>2. CASE q # r
    <3>1. \A e \in inserted[q] : PendingRow(q, e) => PendingRow(q, e)'
      BY <1>8 DEF PendingRow, Analysis, TypeOK
    <3>2. QED
      BY <2>2, <3>1, <1>4 DEF Uncommitted, PendingSnapshot, Analysis, TypeOK
  <2>3. QED
    BY <2>1, <2>2
<1>11. (LegalHistory /\ SnapshotCertifiesHistory /\ ApprovalShownLast)'
  BY DEF LegalHistory, SnapshotCertifiesHistory, ApprovalShownLast, Of, Has, Before
<1>12. QED
  BY <1>5, <1>6, <1>7, <1>8, <1>10, <1>11 DEF IInv, TypeOK

\* calculate inserts its event only into an empty history.
LEMMA CalculateKeepsIInv ==
  ASSUME NEW r \in Request, IInv, Calculate(r)
  PROVE  IInv'
<1>1. /\ begunAt[r] \in Nat /\ begunAt[r] <= clock
      /\ request[r].execution \in Execution \cup {NoExecution}
  BY DEF IInv, TypeOK, ReadUnderLock, Calculate, Ask
<1>2. QED
  BY <1>1, InsertKeepsIInv DEF Calculate, CalculationAllowed, EventType

\* review inserts its event only into a history that is calculated.
LEMMA ReviewKeepsIInv ==
  ASSUME NEW r \in Request, IInv, Review(r)
  PROVE  IInv'
<1>1. begunAt[r] \in Nat /\ begunAt[r] <= clock
  BY DEF IInv, TypeOK, ReadUnderLock
<1>2. QED
  BY <1>1, InsertKeepsIInv DEF Review, EventType

\* approve dates its event by the clock, which no event it has read is ahead of.
LEMMA ApproveKeepsIInv ==
  ASSUME NEW r \in Request, IInv, Approve(r)
  PROVE  IInv'
<1>1. clock \in Nat /\ clock <= clock
  BY DEF IInv, TypeOK
<1>2. QED
  BY <1>1, InsertKeepsIInv DEF Approve, EventType

\* The snapshot is built from what the request read and the approval it wrote.
LEMMA CaptureKeepsIInv ==
  ASSUME NEW r \in Request, IInv, CaptureSnapshot(r)
  PROVE  IInv'
<1> USE ConstantsAssumption DEF IInv, CaptureSnapshot, ledger
<1>1. PICK calculated \in seen[r], approved \in inserted[r] :
        /\ calculated.type = "calculated"
        /\ captured' = [captured EXCEPT ![r] =
             {[analysis  |-> Analysis(r),
               match     |-> matchOf[Analysis(r)],
               execution |-> calculated.execution,
               events    |-> Of(events \cup inserted[r], Analysis(r)),
               created   |-> approved.created]}]
  OBVIOUS
<1>2. /\ request[r] \in Ask
      /\ Analysis(r) \in AnalysisId
      /\ matchOf[Analysis(r)] \in Match
      /\ seen[r] = Of(events, Analysis(r))
      /\ inserted[r] = {approved}
      /\ PendingRow(r, approved)
      /\ approved.type = "approved"
  BY DEF ReadUnderLock, InCriticalSection, TypeOK, Ask, Analysis, Uncommitted
<1>3. calculated \in events /\ calculated.execution \in Completed
  BY <1>1, <1>2 DEF Of, CommittedRow
<1>4. Of(events \cup inserted[r], Analysis(r)) = seen[r] \cup {approved}
  BY <1>2 DEF Of, PendingRow
<1>5. [analysis  |-> Analysis(r),
       match     |-> matchOf[Analysis(r)],
       execution |-> calculated.execution,
       events    |-> seen[r] \cup {approved},
       created   |-> approved.created] \in Snapshot
  BY <1>2, <1>3 DEF Snapshot, TypeOK, Event
<1>6. PICK new \in Snapshot :
        new = [analysis  |-> Analysis(r),
               match     |-> matchOf[Analysis(r)],
               execution |-> calculated.execution,
               events    |-> seen[r] \cup {approved},
               created   |-> approved.created]
  BY <1>5
<1>7. captured' = [captured EXCEPT ![r] = {new}]
  BY <1>1, <1>4, <1>6
<1>8. TypeOK'
  BY <1>7 DEF TypeOK, InCriticalSection
<1>9. Exclusion'
  BY DEF Exclusion, Analysis, InCriticalSection, TypeOK
<1>10. ReadUnderLock'
  BY DEF ReadUnderLock, Analysis, Of, TypeOK, InCriticalSection
<1>11. \A e : CommittedRow(e) => CommittedRow(e)'
  BY DEF CommittedRow
<1>12. \A q \in Request : \A e : PendingRow(q, e) => PendingRow(q, e)'
  BY <1>11 DEF PendingRow, Analysis
<1>13. PendingSnapshot(r, approved, new)'
  BY <1>1, <1>6 DEF PendingSnapshot, Analysis
<1>14. ASSUME NEW q \in Request PROVE Uncommitted(q)'
  <2>1. CASE q = r
    <3>1. pc'[r] = "inserted" /\ inserted'[r] = {approved} /\ captured'[r] = {new}
      BY <1>2, <1>7 DEF TypeOK
    <3>2. QED
      BY <2>1, <3>1, <1>2, <1>12, <1>13 DEF Uncommitted
  <2>2. CASE q # r
    BY <2>2, <1>7, <1>12 DEF Uncommitted, PendingSnapshot, Analysis, TypeOK
  <2>3. QED
    BY <2>1, <2>2
<1>15. (LegalHistory /\ SnapshotCertifiesHistory /\ ApprovalShownLast)'
  BY DEF LegalHistory, SnapshotCertifiesHistory, ApprovalShownLast, Of, Has, Before
<1>16. QED
  BY <1>8, <1>9, <1>10, <1>11, <1>14, <1>15 DEF IInv

\* The commit is the one step that changes the ledger: the row extends the
\* history its request has read, and nobody else holds the analysis.
LEMMA CommitKeepsIInv ==
  ASSUME NEW r \in Request, IInv, Commit(r)
  PROVE  IInv'
<1> USE ConstantsAssumption DEF IInv, Commit, Finish
<1> DEFINE a == Analysis(r)
<1>1. PICK row \in inserted[r] :
        /\ inserted[r] = {row}
        /\ PendingRow(r, row)
        /\ row.type # "approved" => captured[r] = {}
        /\ row.type = "approved" => \E s \in captured[r] : /\ captured[r] = {s}
                                                           /\ PendingSnapshot(r, row, s)
  BY DEF Uncommitted
<1>2. /\ row \in Event /\ row.analysis = a /\ a \in AnalysisId
      /\ seen[r] = Of(events, a)
      /\ CommittedRow(row)
      /\ events' = events \cup {row}
  BY <1>1 DEF ReadUnderLock, InCriticalSection, TypeOK, Ask, Analysis, PendingRow
<1>3. TypeOK'
  BY <1>2 DEF TypeOK, InCriticalSection, Idle
<1>4. Exclusion'
  BY DEF Exclusion, InCriticalSection, Analysis, TypeOK
<1>5. \A q \in Request : q # r /\ pc[q] \in InCriticalSection =>
        Of(events', Analysis(q)) = Of(events, Analysis(q))
  BY <1>2 DEF Exclusion, InCriticalSection, Of
<1>6. ReadUnderLock'
  <2>1. SUFFICES ASSUME NEW q \in Request
        PROVE  /\ pc'[q] # "idle" => request'[q] \in Ask
               /\ begunAt'[q] <= clock
               /\ pc'[q] \in InCriticalSection =>
                    /\ matchOf[Analysis(q)'] # NoMatch
                    /\ seen'[q] = Of(events', Analysis(q)')
    BY DEF ReadUnderLock, Of
  <2>2. CASE q = r
    BY <2>2 DEF InCriticalSection, TypeOK
  <2>3. CASE q # r
    BY <2>3, <1>5 DEF ReadUnderLock, Analysis, TypeOK
  <2>4. QED
    BY <2>2, <2>3
<1>7. (\A e \in events : CommittedRow(e))'
  BY <1>2 DEF CommittedRow
<1>8. ASSUME NEW q \in Request PROVE Uncommitted(q)'
  BY DEF Uncommitted, PendingRow, PendingSnapshot, CommittedRow, Analysis, TypeOK
<1>9. \A b : b # a => Of(events', b) = Of(events, b)
  BY <1>2 DEF Of
<1>10. Of(events', a) = seen[r] \cup {row}
  BY <1>2 DEF Of
<1>11. /\ row.type = "calculated" => seen[r] = {}
       /\ row.type # "calculated" => /\ Has(seen[r], "calculated")
                                     /\ ~Has(seen[r], "approved")
       /\ row.type = "approved" => Has(seen[r], "reviewed")
       /\ \A f \in seen[r] : f \in Event /\ f.id < row.id
  <2>1. \A f \in seen[r] : f.type # "calculated" => Has(seen[r], "calculated")
    BY <1>2 DEF LegalHistory, Of, Has
  <2>2. \A f \in seen[r] : f \in Event
    BY <1>2 DEF Of, TypeOK
  <2>3. row.type \in EventType
    BY <1>2 DEF Event
  <2>4. QED
    BY <1>1, <2>1, <2>2, <2>3 DEF PendingRow, Status, Has, EventType
<1>12. LegalHistory'
  <2>1. SUFFICES ASSUME NEW e \in events', NEW f \in events', e.analysis = f.analysis
        PROVE  /\ e.type # "calculated" =>
                    Has({g \in Of(events', e.analysis) : g.id < e.id}, "calculated")
               /\ e.type = "approved" =>
                    Has({g \in Of(events', e.analysis) : g.id < e.id}, "reviewed")
               /\ e.type = f.type /\ e.type # "reviewed" => e = f
               /\ e.type = "approved" => f.id <= e.id
    BY DEF LegalHistory
  <2>2. CASE e.analysis # a
    <3>1. e \in events /\ f \in events /\ Of(events', e.analysis) = Of(events, e.analysis)
      BY <2>1, <2>2, <1>2, <1>9
    <3>2. /\ e.type # "calculated" =>
               Has({g \in Of(events, e.analysis) : g.id < e.id}, "calculated")
          /\ e.type = "approved" =>
               Has({g \in Of(events, e.analysis) : g.id < e.id}, "reviewed")
          /\ e.type = f.type /\ e.type # "reviewed" => e = f
          /\ e.type = "approved" => f.id <= e.id
      BY <2>1, <3>1 DEF LegalHistory
    <3>3. \A type : Has({g \in Of(events, e.analysis) : g.id < e.id}, type)
                     => Has({g \in Of(events', e.analysis) : g.id < e.id}, type)
      BY <3>1 DEF Has
    <3>4. QED
      BY <3>2, <3>3
  <2>3. CASE e.analysis = a
    <3>1. e \in seen[r] \cup {row} /\ f \in seen[r] \cup {row}
      BY <2>1, <2>3, <1>2, <1>10 DEF Of
    <3>2. CASE e = row
      <4>1. \A type : Has(seen[r], type)
                       => Has({g \in Of(events', e.analysis) : g.id < e.id}, type)
        BY <3>2, <1>2, <1>10, <1>11 DEF Has
      <4>2. row.type \in EventType /\ row.id \in Nat
        BY <1>2 DEF Event
      <4>3. f # row => f.id < row.id /\ f.id \in Nat
        BY <3>1, <1>11 DEF Event
      <4>4. f # row /\ row.type = f.type => row.type = "reviewed"
        BY <3>1, <4>2, <1>11 DEF Has, EventType
      <4>5. f.id <= row.id
        BY <4>2, <4>3
      <4>6. QED
        BY <3>2, <4>1, <4>4, <4>5, <1>11
    <3>3. CASE e # row
      <4>1. e \in events /\ e \in seen[r] /\ Of(events, e.analysis) \subseteq Of(events', e.analysis)
        BY <3>1, <3>3, <2>3, <1>2, <1>10 DEF Of
      <4>2. e.type = "approved" => f # row
        BY <4>1, <1>11, <1>2 DEF Has, EventType, Event
      <4>3. f = row => ~(e.type = f.type /\ e.type # "reviewed")
        BY <4>1, <1>11, <1>2 DEF Has, EventType, Event
      <4>4. f \in events \/ f = row
        BY <1>2
      <4>5. /\ e.type # "calculated" =>
                  Has({g \in Of(events, e.analysis) : g.id < e.id}, "calculated")
            /\ e.type = "approved" =>
                  Has({g \in Of(events, e.analysis) : g.id < e.id}, "reviewed")
        BY <4>1 DEF LegalHistory
      <4>6. \A type : Has({g \in Of(events, e.analysis) : g.id < e.id}, type)
                       => Has({g \in Of(events', e.analysis) : g.id < e.id}, type)
        BY <4>1 DEF Has
      <4>7. f \in events => /\ e.type = f.type /\ e.type # "reviewed" => e = f
                            /\ e.type = "approved" => f.id <= e.id
        BY <2>1, <4>1 DEF LegalHistory
      <4>8. QED
        BY <4>2, <4>3, <4>4, <4>5, <4>6, <4>7
    <3>4. QED
      BY <3>2, <3>3
  <2>4. QED
    BY <2>2, <2>3
<1>13. ApprovalShownLast'
  <2>1. SUFFICES ASSUME NEW e \in events', NEW f \in events',
                        e.analysis = f.analysis, e.type = "approved", f # e
        PROVE  Before(f, e)
    BY DEF ApprovalShownLast, Before
  <2>2. CASE e = row
    <3>1. f \in seen[r]
      BY <2>1, <2>2, <1>2 DEF Of
    <3>2. QED
      BY <2>1, <2>2, <3>1, <1>1, <1>2, <1>11 DEF PendingRow, Before, Event
  <2>3. CASE e # row
    <3>1. f # row
      BY <2>1, <2>3, <1>2, <1>11 DEF Has, Of
    <3>2. QED
      BY <2>1, <2>3, <3>1, <1>2 DEF ApprovalShownLast
  <2>4. QED
    BY <2>2, <2>3
<1>14. SnapshotCertifiesHistory'
  <2>1. ~Has(seen[r], "approved")
    BY <1>11 DEF Has
  <2>2. \A s \in snapshots : s.analysis # a
    BY <2>1, <1>2 DEF SnapshotCertifiesHistory
  <2>3. CASE row.type # "approved"
    <3>1. snapshots' = snapshots
      BY <2>3, <1>1
    <3>2. \A s \in snapshots : Of(events', s.analysis) = Of(events, s.analysis)
      BY <2>2, <1>9
    <3>3. \A e \in events' : e.type = "approved" => e \in events
      BY <2>3, <1>2
    <3>4. QED
      BY <3>1, <3>2, <3>3 DEF SnapshotCertifiesHistory, Has, Of
  <2>4. CASE row.type = "approved"
    <3>1. PICK s \in captured[r] : captured[r] = {s} /\ PendingSnapshot(r, row, s)
      BY <2>4, <1>1
    <3>2. snapshots' = snapshots \cup {s}
      BY <3>1
    <3>3. /\ s.analysis = a /\ s.match = matchOf[a]
          /\ s.events = Of(events', a)
          /\ Has(s.events, "approved")
      BY <2>4, <3>1, <1>10 DEF PendingSnapshot, Has
    <3>4. PICK c \in seen[r] : c.type = "calculated" /\ c.execution = s.execution
      BY <3>1 DEF PendingSnapshot
    <3>5. /\ c \in events /\ c.analysis = a /\ CommittedRow(c)
      BY <1>2 DEF Of
    <3>6. \A t \in snapshots : Of(events', t.analysis) = Of(events, t.analysis)
      BY <2>2, <1>9
    <3>7. \A e \in events' : e.type = "approved" =>
            \E t \in snapshots' : t.analysis = e.analysis
      BY <3>2, <3>3, <1>2 DEF SnapshotCertifiesHistory
    <3>8. \A t, u \in snapshots' : t.analysis = u.analysis => t = u
      BY <2>2, <3>2, <3>3 DEF SnapshotCertifiesHistory
    <3>9. /\ s.execution \in Completed
          /\ ExecutionMatch[s.execution] = s.match
          /\ c \in s.events
      BY <3>3, <3>4, <3>5, <1>10 DEF CommittedRow
    <3>10. \A t \in snapshots :
             /\ t.events = Of(events', t.analysis)
             /\ Has(t.events, "approved")
             /\ t.match = matchOf[t.analysis]
             /\ t.execution \in Completed
             /\ ExecutionMatch[t.execution] = t.match
             /\ \E e \in t.events : e.type = "calculated" /\ e.execution = t.execution
      BY <3>6 DEF SnapshotCertifiesHistory
    <3>11. \A t \in snapshots' :
             /\ t.events = Of(events', t.analysis)
             /\ Has(t.events, "approved")
             /\ t.match = matchOf[t.analysis]
             /\ t.execution \in Completed
             /\ ExecutionMatch[t.execution] = t.match
             /\ \E e \in t.events : e.type = "calculated" /\ e.execution = t.execution
      BY <3>2, <3>3, <3>4, <3>9, <3>10
    <3>12. QED
      BY <3>7, <3>8, <3>11 DEF SnapshotCertifiesHistory, Of, Has
  <2>5. QED
    BY <2>3, <2>4
<1>15. QED
  BY <1>3, <1>4, <1>6, <1>7, <1>8, <1>12, <1>13, <1>14 DEF IInv

\* Every step of every request keeps the invariant.
LEMMA NextKeepsIInv == IInv /\ [Next]_vars => IInv'
<1> SUFFICES ASSUME IInv, [Next]_vars PROVE IInv'
  OBVIOUS
<1>1. ASSUME NEW a \in AnalysisId, NEW m \in Match, CreateDraft(a, m) PROVE IInv'
  BY <1>1, CreateDraftKeepsIInv
<1>2. ASSUME NEW r \in Request, NEW a \in AnalysisId, NEW x \in Execution,
             Begin(r, "calculate", a, x)
      PROVE  IInv'
  BY <1>2, BeginKeepsIInv DEF Operation
<1>3. ASSUME NEW r \in Request, NEW a \in AnalysisId,
             NEW operation \in {"review", "approve"},
             Begin(r, operation, a, NoExecution)
      PROVE  IInv'
  BY <1>3, BeginKeepsIInv DEF Operation
<1>4. ASSUME NEW r \in Request, Lock(r) PROVE IInv'
  BY <1>4, LockKeepsIInv
<1>5. ASSUME NEW r \in Request, NotFound(r) \/ Refuse(r) \/ Abort(r) PROVE IInv'
  BY <1>5, FinishKeepsIInv DEF NotFound, Refuse, Abort
<1>6. ASSUME NEW r \in Request, Calculate(r) PROVE IInv'
  BY <1>6, CalculateKeepsIInv
<1>7. ASSUME NEW r \in Request, Review(r) PROVE IInv'
  BY <1>7, ReviewKeepsIInv
<1>8. ASSUME NEW r \in Request, Approve(r) PROVE IInv'
  BY <1>8, ApproveKeepsIInv
<1>9. ASSUME NEW r \in Request, CaptureSnapshot(r) PROVE IInv'
  BY <1>9, CaptureKeepsIInv
<1>10. ASSUME NEW r \in Request, Commit(r) PROVE IInv'
  BY <1>10, CommitKeepsIInv
<1>11. ASSUME Tick PROVE IInv'
  BY <1>11, TickKeepsIInv
<1>12. ASSUME UNCHANGED vars PROVE IInv'
  <2> USE <1>12 DEF vars, ledger, IInv
  <2>1. TypeOK'
    BY DEF TypeOK
  <2>2. Exclusion' /\ ReadUnderLock'
    BY DEF Exclusion, ReadUnderLock, Analysis, Of
  <2>3. \A e : CommittedRow(e) => CommittedRow(e)'
    BY DEF CommittedRow
  <2>4. \A r \in Request : Uncommitted(r)'
    BY <2>3 DEF Uncommitted, PendingRow, PendingSnapshot, Analysis
  <2>5. (LegalHistory /\ SnapshotCertifiesHistory /\ ApprovalShownLast)'
    BY DEF LegalHistory, SnapshotCertifiesHistory, ApprovalShownLast, Of, Has, Before
  <2>6. QED
    BY <2>1, <2>2, <2>3, <2>4, <2>5
<1>13. QED
  BY <1>1, <1>2, <1>3, <1>4, <1>5, <1>6, <1>7, <1>8, <1>9, <1>10, <1>11, <1>12
  DEF Next, Quiescent

\* The strengthened invariant holds in every reachable state.
THEOREM Invariance == Spec => []IInv
<1>1. QED
  BY InitIInv, NextKeepsIInv, PTL DEF Spec

\* Every variable keeps its type, in every interleaving of any number of requests.
THEOREM TypeCorrect == Spec => []TypeOK
<1>1. IInv => TypeOK
  BY DEF IInv
<1>2. QED
  BY <1>1, Invariance, PTL

\* The ledger the handlers of calculate, review and approve build is a legal
\* history of every analysis.
THEOREM HistoryIsLegal == Spec => []LegalHistory
<1>1. IInv => LegalHistory
  BY DEF IInv
<1>2. QED
  BY <1>1, Invariance, PTL

\* approve writes the approval and a complete snapshot together or not at all.
THEOREM SnapshotIsComplete == Spec => []SnapshotCertifiesHistory
<1>1. IInv => SnapshotCertifiesHistory
  BY DEF IInv
<1>2. QED
  BY <1>1, Invariance, PTL

\* Under a clock that does not step back, the approval closes what is shown.
THEOREM ApprovalClosesHistory == Spec => []ApprovalShownLast
<1>1. IInv => ApprovalShownLast
  BY DEF IInv
<1>2. QED
  BY <1>1, Invariance, PTL

-----------------------------------------------------------------------------
(* AnalysisWorkflow implements AnalysisLedger: its statements interleave, and yet
   readers of the committed rows see each operation happen at once.  Only
   create_draft and the commit move the ledger; every other step stutters. *)

\* The ledger seen by a reader follows from the committed rows.
LEMMA SameRowsSameLedger ==
  ASSUME UNCHANGED ledger
  PROVE  UNCHANGED Ledger!vars
<1>1. \A a \in AnalysisId : /\ Stage(a)' = Stage(a)
                           /\ Source(a)' = Source(a)
                           /\ Reviews(a)' = Reviews(a)
                           /\ Frozen(a)' = Frozen(a)
  BY DEF ledger, Stage, Source, Reviews, Frozen, Rows, Of
<1>2. QED
  BY <1>1 DEF Ledger!vars

\* Nothing is stored: every analysis is absent.
LEMMA InitRefines == Init => Ledger!Init
<1>1. SUFFICES ASSUME Init PROVE Ledger!Init
  OBVIOUS
<1>2. \A a \in AnalysisId : /\ Stage(a) = "absent"
                           /\ Source(a) = {}
                           /\ Reviews(a) = {}
                           /\ Frozen(a) = {}
  BY <1>1 DEF Init, Stage, Source, Reviews, Frozen, Rows, Of
<1>3. QED
  BY <1>2 DEF Ledger!Init

\* A draft appears with no event: the rows of an analysis follow its draft.
LEMMA CreateDraftRefines ==
  ASSUME NEW a \in AnalysisId, NEW m \in Match, IInv, CreateDraft(a, m)
  PROVE  Ledger!Draft(a)
<1> USE ConstantsAssumption DEF CreateDraft
<1>1. Of(events, a) = {}
  BY DEF IInv, CommittedRow, Of
<1>2. Stage(a) = "absent" /\ Stage(a)' = "draft"
  BY <1>1 DEF IInv, TypeOK, Stage, Status, Has, Of
<1>3. \A b \in AnalysisId : b # a => Stage(b)' = Stage(b)
  BY DEF IInv, TypeOK, Stage, Of
<1>4. \A b \in AnalysisId : /\ Source(b)' = Source(b)
                           /\ Reviews(b)' = Reviews(b)
                           /\ Frozen(b)' = Frozen(b)
  BY DEF Source, Reviews, Frozen, Rows, Of
<1>5. QED
  BY <1>2, <1>3, <1>4 DEF Ledger!Draft

\* What a commit does: one row goes to the end of the history the request has read.
LEMMA CommitExtends ==
  ASSUME NEW r \in Request, IInv, Commit(r)
  PROVE  \E row \in Event :
           /\ row.analysis = Analysis(r)
           /\ Analysis(r) \in AnalysisId
           /\ matchOf[Analysis(r)] # NoMatch
           /\ PendingRow(r, row)
           /\ seen[r] = Of(events, Analysis(r))
           /\ Of(events', Analysis(r)) = seen[r] \cup {row}
           /\ \A b : b # Analysis(r) => Of(events', b) = Of(events, b)
           /\ row.type # "approved" => snapshots' = snapshots
           /\ row.type = "approved" => \E s \in Snapshot :
                /\ PendingSnapshot(r, row, s)
                /\ snapshots' = snapshots \cup {s}
<1> USE DEF IInv, Commit
<1>1. PICK row \in inserted[r] :
        /\ inserted[r] = {row}
        /\ PendingRow(r, row)
        /\ row.type # "approved" => captured[r] = {}
        /\ row.type = "approved" => \E s \in captured[r] : /\ captured[r] = {s}
                                                           /\ PendingSnapshot(r, row, s)
  BY DEF Uncommitted
<1>2. /\ row \in Event
      /\ row.analysis = Analysis(r)
      /\ Analysis(r) \in AnalysisId
      /\ matchOf[Analysis(r)] # NoMatch
      /\ seen[r] = Of(events, Analysis(r))
      /\ events' = events \cup {row}
  BY <1>1 DEF ReadUnderLock, InCriticalSection, TypeOK, Ask, Analysis, PendingRow
<1>3. /\ Of(events', Analysis(r)) = seen[r] \cup {row}
      /\ \A b : b # Analysis(r) => Of(events', b) = Of(events, b)
  BY <1>2 DEF Of
<1>4. captured[r] \subseteq Snapshot
  BY DEF TypeOK
<1>5. QED
  BY <1>1, <1>2, <1>3, <1>4

\* Whatever the row is, the ledger of the other analyses stays as it was.
LEMMA CommitKeepsOthers ==
  ASSUME NEW r \in Request, IInv, Commit(r), NEW b \in AnalysisId, b # Analysis(r)
  PROVE  /\ Stage(b)' = Stage(b)
         /\ Source(b)' = Source(b)
         /\ Reviews(b)' = Reviews(b)
         /\ Frozen(b)' = Frozen(b)
<1>1. Of(events', b) = Of(events, b) /\ matchOf' = matchOf
  BY CommitExtends DEF Commit
<1>2. {t \in snapshots' : t.analysis = b} = {t \in snapshots : t.analysis = b}
  BY CommitExtends DEF PendingSnapshot
<1>3. QED
  BY <1>1, <1>2 DEF Stage, Source, Reviews, Frozen, Rows

\* A commit is the abstract Calculate, Review or Approve of its analysis.
LEMMA CommitRefines ==
  ASSUME NEW r \in Request, IInv, Commit(r)
  PROVE  Ledger!Next
<1>1. PICK a \in AnalysisId, row \in Event :
        /\ a = Analysis(r)
        /\ row.analysis = a
        /\ matchOf[a] # NoMatch
        /\ PendingRow(r, row)
        /\ seen[r] = Of(events, a)
        /\ Of(events', a) = seen[r] \cup {row}
        /\ row.type # "approved" => snapshots' = snapshots
        /\ row.type = "approved" => \E s \in Snapshot :
             /\ PendingSnapshot(r, row, s)
             /\ snapshots' = snapshots \cup {s}
  BY CommitExtends
<1>2. matchOf' = matchOf
  BY DEF Commit
<1>3. \A b \in AnalysisId : b # a => /\ Stage(b)' = Stage(b)
                                   /\ Source(b)' = Source(b)
                                   /\ Reviews(b)' = Reviews(b)
                                   /\ Frozen(b)' = Frozen(b)
  BY <1>1, CommitKeepsOthers
<1>4. Stage(a) = Status(seen[r]) /\ Stage(a)' = Status(seen[r] \cup {row})
  BY <1>1, <1>2 DEF Stage
<1>5. row.type \in EventType /\ \A f \in seen[r] : f.type \in EventType
  BY <1>1 DEF Event, IInv, TypeOK, Of
<1>6. CASE row.type = "calculated"
  <2>1. seen[r] = {}
    <3>1. \A f \in seen[r] : f.type # "calculated" => Has(seen[r], "calculated")
      BY <1>1 DEF IInv, LegalHistory, Of, Has
    <3>2. QED
      BY <1>1, <1>6, <3>1 DEF PendingRow, Status, Has
  <2>2. Stage(a) = "draft" /\ Stage(a)' = "calculated"
    BY <1>4, <1>6, <2>1 DEF Status, Has
  <2>3. row.execution \in Execution
    BY <1>1, <1>6, ConstantsAssumption DEF PendingRow, CommittedRow
  <2>4. Source(a)' = {row.execution}
    BY <1>1, <1>6, <2>1 DEF Source, Rows
  <2>5. Reviews(a)' = Reviews(a)
    BY <1>1, <1>6, <2>1 DEF Reviews, Rows
  <2>6. Frozen(a)' = Frozen(a)
    BY <1>1, <1>6 DEF Frozen
  <2>7. Ledger!Calculate(a)
    BY <1>1, <1>3, <2>2, <2>3, <2>4, <2>5, <2>6 DEF Ledger!Calculate
  <2>8. QED
    BY <1>1, <2>7 DEF Ledger!Next
<1>7. CASE row.type = "reviewed"
  <2>1. Stage(a) = "calculated" /\ Stage(a)' = "calculated"
    BY <1>1, <1>4, <1>7 DEF PendingRow, Status, Has
  <2>2. Source(a)' = Source(a)
    BY <1>1, <1>7 DEF Source, Rows
  <2>3. Reviews(a)' = Reviews(a) \cup {row.id}
    BY <1>1, <1>7 DEF Reviews, Rows
  <2>4. row.id \notin Reviews(a)
    BY <1>1, <1>7 DEF Reviews, Rows, PendingRow, Event
  <2>5. Frozen(a)' = Frozen(a)
    BY <1>1, <1>7 DEF Frozen
  <2>6. Ledger!Review(a)
    BY <1>1, <1>3, <2>1, <2>2, <2>3, <2>4, <2>5 DEF Ledger!Review
  <2>7. QED
    BY <1>1, <2>6 DEF Ledger!Next
<1>8. CASE row.type = "approved"
  <2>1. /\ Stage(a) = "calculated" /\ Stage(a)' = "approved"
        /\ ~Has(seen[r], "approved")
    BY <1>1, <1>4, <1>8 DEF PendingRow, Status, Has
  <2>2. Reviews(a) # {}
    BY <1>1, <1>8 DEF PendingRow, Has, Reviews, Rows
  <2>3. Source(a)' = Source(a) /\ Reviews(a)' = Reviews(a)
    BY <1>1, <1>8 DEF Source, Reviews, Rows
  <2>4. PICK s \in Snapshot : PendingSnapshot(r, row, s) /\ snapshots' = snapshots \cup {s}
    BY <1>1, <1>8
  <2>5. {t \in snapshots' : t.analysis = a} = {s}
    <3>1. \A t \in snapshots : t.analysis # a
      BY <1>1, <2>1 DEF IInv, SnapshotCertifiesHistory
    <3>2. QED
      BY <1>1, <2>4, <3>1 DEF PendingSnapshot
  <2>6. Frozen(a)' = {<<s.execution, Reviews(a)>>}
    <3>1. {e.id : e \in {f \in s.events : f.type = "reviewed"}} = Reviews(a)
      BY <1>1, <1>8, <2>4 DEF PendingSnapshot, Reviews, Rows
    <3>2. QED
      BY <2>5, <3>1 DEF Frozen
  <2>7. Source(a) = {s.execution}
    <3>1. PICK c \in seen[r] : c.type = "calculated" /\ c.execution = s.execution
      BY <2>4 DEF PendingSnapshot
    <3>2. \A e \in seen[r] : e.type = "calculated" => e = c
      BY <1>1, <3>1 DEF IInv, LegalHistory, Of
    <3>3. QED
      BY <1>1, <3>1, <3>2 DEF Source, Rows
  <2>8. Ledger!Approve(a)
    <3>1. {<<x, Reviews(a)>> : x \in Source(a)} = {<<s.execution, Reviews(a)>>}
      BY <2>7
    <3>2. Frozen(a)' = {<<x, Reviews(a)>> : x \in Source(a)}
      BY <2>6, <3>1
    <3>3. QED
      BY <1>1, <1>3, <2>1, <2>2, <2>3, <3>2 DEF Ledger!Approve
  <2>9. QED
    BY <1>1, <2>8 DEF Ledger!Next
<1>9. QED
  BY <1>5, <1>6, <1>7, <1>8 DEF EventType

\* Every step of the workflow is a step of the ledger or leaves it alone.
LEMMA NextRefines == IInv /\ [Next]_vars => [Ledger!Next]_(Ledger!vars)
<1> SUFFICES ASSUME IInv, [Next]_vars PROVE [Ledger!Next]_(Ledger!vars)
  OBVIOUS
<1>1. ASSUME NEW a \in AnalysisId, NEW m \in Match, CreateDraft(a, m) PROVE Ledger!Next
  BY <1>1, CreateDraftRefines DEF Ledger!Next
<1>2. ASSUME NEW r \in Request, Commit(r) PROVE Ledger!Next
  BY <1>2, CommitRefines
<1>3. ASSUME UNCHANGED ledger PROVE UNCHANGED Ledger!vars
  BY <1>3, SameRowsSameLedger
<1>4. ASSUME NEW r \in Request,
             \/ \E a \in AnalysisId, x \in Execution : Begin(r, "calculate", a, x)
             \/ \E a \in AnalysisId, operation \in {"review", "approve"} :
                  Begin(r, operation, a, NoExecution)
             \/ Lock(r) \/ NotFound(r) \/ Refuse(r)
             \/ Calculate(r) \/ Review(r) \/ Approve(r) \/ CaptureSnapshot(r) \/ Abort(r)
      PROVE  UNCHANGED ledger
  BY <1>4 DEF Begin, Lock, NotFound, Refuse, Calculate, Review, Approve, CaptureSnapshot,
              Abort, ledger
<1>5. ASSUME Tick \/ UNCHANGED vars PROVE UNCHANGED ledger
  BY <1>5 DEF Tick, vars, ledger
<1>6. QED
  BY <1>1, <1>2, <1>3, <1>4, <1>5 DEF Next, Quiescent

\* For any number of requests, analyses and executions, the workflow implements the
\* ledger its readers rely on.
THEOREM WorkflowImplementsLedger == Spec => LedgerSpec
<1>1. Init => Ledger!Init
  BY InitRefines
<1>2. IInv /\ [Next]_vars => [Ledger!Next]_(Ledger!vars)
  BY NextRefines
<1>3. Spec => []IInv
  BY Invariance
<1>4. QED
  BY <1>1, <1>2, <1>3, PTL DEF Spec, LedgerSpec, Ledger!Spec
=============================================================================
