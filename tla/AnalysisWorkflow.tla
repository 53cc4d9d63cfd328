-------------------------- MODULE AnalysisWorkflow --------------------------
(***************************************************************************)
(* The analysis workflow of persistence/analysis_workflow.py: drafts, an   *)
(* append-only ledger of calculated / reviewed / approved events, and one  *)
(* snapshot per approved analysis.  Every HTTP request runs in one         *)
(* PostgreSQL READ COMMITTED transaction; the transactions that change an  *)
(* analysis first take an advisory lock and the row lock of its draft.     *)
(* A transaction is modelled statement by statement, so that the           *)
(* statements of concurrent requests interleave, and any of them may be    *)
(* rolled back at any point.                                               *)
(***************************************************************************)
EXTENDS Integers, FiniteSets

CONSTANTS
  Request,          \* slots for requests in progress, one transaction each
  AnalysisId,       \* identifiers create_draft can hand out
  Match,            \* persisted matches
  Execution,        \* execution identifiers a client may name
  ExecutionMatch,   \* match of each execution, NoMatch when it is not stored
  Completed,        \* the executions stored with status "completed"
  NoMatch,
  NoExecution,
  MaxClock,         \* bound: ticks of the clock
  MaxEventId        \* bound: identifiers drawn from the event sequence

ASSUME ConstantsAssumption ==
  /\ NoMatch \notin Match
  /\ NoExecution \notin Execution
  /\ ExecutionMatch \in [Execution -> Match \cup {NoMatch}]
  /\ Completed \subseteq {x \in Execution : ExecutionMatch[x] # NoMatch}
  /\ MaxClock \in Nat
  /\ MaxEventId \in Nat

VARIABLES
  clock,       \* the clock of the host the API and PostgreSQL run on
  matchOf,     \* analysis_workflow_analyses: match of each draft, or NoMatch
  events,      \* committed rows of analysis_workflow_events
  snapshots,   \* committed rows of analysis_workflow_snapshots
  sequence,    \* last identifier drawn for an event
  pc,          \* where each request is
  request,     \* what it asks for
  begunAt,     \* when its transaction began: the now() of its inserts
  seen,        \* the events it read under the lock
  inserted,    \* event rows it inserted and has not committed
  captured     \* snapshot rows it inserted and has not committed

ledger == <<matchOf, events, snapshots>>
vars == <<clock, ledger, sequence, pc, request, begunAt, seen, inserted, captured>>

EventType == {"calculated", "reviewed", "approved"}
Operation == {"calculate", "review", "approve"}

Event == [id        : Nat,
          analysis  : AnalysisId,
          type      : EventType,
          execution : Execution \cup {NoExecution},
          created   : Nat]

Snapshot == [analysis  : AnalysisId,
             match     : Match,
             execution : Execution,
             events    : SUBSET Event,
             created   : Nat]

Ask == [operation : Operation,
        analysis  : AnalysisId,
        execution : Execution \cup {NoExecution}]

Idle == [operation |-> "none"]

-----------------------------------------------------------------------------
(* What the code derives from rows. *)

Of(rows, a) == {e \in rows : e.analysis = a}
Has(rows, type) == \E e \in rows : e.type = type

\* _status: the status is derived from the kinds of the events, not stored.
Status(rows) ==
  IF Has(rows, "approved") THEN "approved"
  ELSE IF Has(rows, "calculated") THEN "calculated" ELSE "draft"

\* The ORDER BY of _events: created_at, then id.
Before(e, f) == \/ e.created < f.created
                \/ e.created = f.created /\ e.id < f.id

(* The locks of _locked_analysis, held to the end of the transaction. *)

InCriticalSection == {"locked", "approving", "inserted"}
Analysis(r) == request[r].analysis
Holds(r, a) == pc[r] \in InCriticalSection /\ Analysis(r) = a
\* Mutant: the advisory lock and FOR UPDATE are left out.
LockFreeNotTaken(a) == a = a
LockFree(a) == \A r \in Request : ~Holds(r, a)

(* The guards the migration installs below the application. *)

\* validate_analysis_workflow_event, a BEFORE INSERT trigger.
TriggerAccepts(r, type, x) ==
  LET a    == Analysis(r)
      rows == Of(events \cup inserted[r], a)
  IN \/ type = "calculated" /\ x \in Completed /\ ExecutionMatch[x] = matchOf[a]
     \/ type = "reviewed" /\ Status(rows) = "calculated"
     \/ type = "approved" /\ Status(rows) = "calculated" /\ Has(rows, "reviewed")

\* ux_analysis_workflow_calculated and ux_analysis_workflow_approved: a second
\* row, committed or still uncommitted elsewhere, keeps the insert out.
UniqueIndexAccepts(r, type) ==
  \/ type = "reviewed"
  \/ ~Has(Of(events \cup UNION {inserted[q] : q \in Request}, Analysis(r)), type)

-----------------------------------------------------------------------------
Init ==
  /\ clock = 0
  /\ matchOf = [a \in AnalysisId |-> NoMatch]
  /\ events = {}
  /\ snapshots = {}
  /\ sequence = 0
  /\ pc = [r \in Request |-> "idle"]
  /\ request = [r \in Request |-> Idle]
  /\ begunAt = [r \in Request |-> 0]
  /\ seen = [r \in Request |-> {}]
  /\ inserted = [r \in Request |-> {}]
  /\ captured = [r \in Request |-> {}]

\* create_draft: the identifier is a fresh UUID that no other request can name
\* before the commit, so the whole transaction is one step.
CreateDraft(a, m) ==
  /\ matchOf[a] = NoMatch
  /\ matchOf' = [matchOf EXCEPT ![a] = m]
  /\ UNCHANGED <<clock, events, snapshots, sequence, pc, request, begunAt, seen,
                 inserted, captured>>

\* BEGIN.  PostgreSQL's now() is this instant for the whole transaction.
Begin(r, operation, a, x) ==
  /\ pc[r] = "idle"
  /\ sequence + Cardinality({q \in Request : pc[q] # "idle"}) < MaxEventId
  /\ pc' = [pc EXCEPT ![r] = "waiting"]
  /\ request' = [request EXCEPT ![r] =
                   [operation |-> operation, analysis |-> a, execution |-> x]]
  /\ begunAt' = [begunAt EXCEPT ![r] = clock]
  /\ UNCHANGED <<clock, ledger, sequence, seen, inserted, captured>>

\* The end of Database.session(): the locks go with the transaction.
Finish(r) ==
  /\ pc' = [pc EXCEPT ![r] = "idle"]
  /\ request' = [request EXCEPT ![r] = Idle]
  /\ begunAt' = [begunAt EXCEPT ![r] = 0]
  /\ seen' = [seen EXCEPT ![r] = {}]
  /\ inserted' = [inserted EXCEPT ![r] = {}]
  /\ captured' = [captured EXCEPT ![r] = {}]

\* _locked_analysis: wait for the lock, then read the draft and its events.
Lock(r) ==
  /\ pc[r] = "waiting"
  /\ LockFree(Analysis(r))
  /\ matchOf[Analysis(r)] # NoMatch
  /\ pc' = [pc EXCEPT ![r] = "locked"]
  /\ seen' = [seen EXCEPT ![r] = Of(events, Analysis(r))]
  /\ UNCHANGED <<clock, ledger, sequence, request, begunAt, inserted, captured>>

\* _locked_analysis finds no draft: the handler returns None (404).
NotFound(r) ==
  /\ pc[r] = "waiting"
  /\ LockFree(Analysis(r))
  /\ matchOf[Analysis(r)] = NoMatch
  /\ Finish(r)
  /\ UNCHANGED <<clock, ledger, sequence>>

\* The checks of calculate, review and approve on what they read.
CalculationAllowed(r) ==
  /\ Status(seen[r]) = "draft"
  /\ request[r].execution \in Completed
  /\ ExecutionMatch[request[r].execution] = matchOf[Analysis(r)]

ReviewAllowed(r) == Status(seen[r]) = "calculated"

ApprovalAllowed(r) == /\ Status(seen[r]) = "calculated"
                      /\ Has(seen[r], "reviewed")

Allowed(r) == \/ request[r].operation = "calculate" /\ CalculationAllowed(r)
              \/ request[r].operation = "review" /\ ReviewAllowed(r)
              \/ request[r].operation = "approve" /\ ApprovalAllowed(r)

\* Mutant: the refused transaction is never ended and keeps its lock.
RefuseKeepsLock(r) ==
  /\ pc[r] = "locked"
  /\ ~Allowed(r)
  /\ UNCHANGED vars

\* InvalidQueryError, or a None result: nothing was written.
Refuse(r) ==
  /\ pc[r] = "locked"
  /\ ~Allowed(r)
  /\ Finish(r)
  /\ UNCHANGED <<clock, ledger, sequence>>

\* INSERT INTO analysis_workflow_events.
InsertEvent(r, type, x, created) ==
  /\ TriggerAccepts(r, type, x)
  /\ UniqueIndexAccepts(r, type)
  /\ sequence' = sequence + 1
  /\ inserted' = [inserted EXCEPT ![r] =
       {[id |-> sequence + 1, analysis |-> Analysis(r), type |-> type,
         execution |-> x, created |-> created]}]

\* calculate and review leave created_at to the server default now().
Calculate(r) ==
  /\ pc[r] = "locked" /\ request[r].operation = "calculate"
  /\ CalculationAllowed(r)
  /\ InsertEvent(r, "calculated", request[r].execution, begunAt[r])
  /\ pc' = [pc EXCEPT ![r] = "inserted"]
  /\ UNCHANGED <<clock, ledger, request, begunAt, seen, captured>>

Review(r) ==
  /\ pc[r] = "locked" /\ request[r].operation = "review"
  /\ ReviewAllowed(r)
  /\ InsertEvent(r, "reviewed", NoExecution, begunAt[r])
  /\ pc' = [pc EXCEPT ![r] = "inserted"]
  /\ UNCHANGED <<clock, ledger, request, begunAt, seen, captured>>

\* Mutant: the approval takes the server default now() like the other events.
ApproveAtBegin(r) ==
  /\ pc[r] = "locked" /\ request[r].operation = "approve"
  /\ ApprovalAllowed(r)
  /\ InsertEvent(r, "approved", NoExecution, begunAt[r])
  /\ pc' = [pc EXCEPT ![r] = "approving"]
  /\ UNCHANGED <<clock, ledger, request, begunAt, seen, captured>>

\* approve reads the clock itself, after the lock: approved_at.
Approve(r) ==
  /\ pc[r] = "locked" /\ request[r].operation = "approve"
  /\ ApprovalAllowed(r)
  /\ InsertEvent(r, "approved", NoExecution, clock)
  /\ pc' = [pc EXCEPT ![r] = "approving"]
  /\ UNCHANGED <<clock, ledger, request, begunAt, seen, captured>>

\* Mutant: the payload takes the events read before the approval was inserted.
CaptureBeforeApproval(r) ==
  /\ pc[r] = "approving"
  /\ \E calculated \in seen[r], approved \in inserted[r] :
       /\ calculated.type = "calculated"
       /\ captured' = [captured EXCEPT ![r] =
            {[analysis  |-> Analysis(r),
              match     |-> matchOf[Analysis(r)],
              execution |-> calculated.execution,
              events    |-> seen[r],
              created   |-> approved.created]}]
  /\ pc' = [pc EXCEPT ![r] = "inserted"]
  /\ UNCHANGED <<clock, ledger, sequence, request, begunAt, seen, inserted>>

\* Mutant: the execution is taken from any event, not from the calculated one.
CaptureAnyEvent(r) ==
  /\ pc[r] = "approving"
  /\ \E event \in seen[r], approved \in inserted[r] :
       captured' = [captured EXCEPT ![r] =
            {[analysis  |-> Analysis(r),
              match     |-> matchOf[Analysis(r)],
              execution |-> event.execution,
              events    |-> Of(events \cup inserted[r], Analysis(r)),
              created   |-> approved.created]}]
  /\ pc' = [pc EXCEPT ![r] = "inserted"]
  /\ UNCHANGED <<clock, ledger, sequence, request, begunAt, seen, inserted>>

\* _snapshot_payload and the INSERT of the snapshot: the events are read again
\* in the same transaction, so they include the approval just inserted; the
\* execution is the one of the calculated event read under the lock.  The match
\* projection and the effective configuration of the payload are not modelled
\* here.
CaptureSnapshot(r) ==
  /\ pc[r] = "approving"
  /\ \A s \in snapshots : s.analysis # Analysis(r)
  /\ \E calculated \in seen[r], approved \in inserted[r] :
       /\ calculated.type = "calculated"
       /\ captured' = [captured EXCEPT ![r] =
            {[analysis  |-> Analysis(r),
              match     |-> matchOf[Analysis(r)],
              execution |-> calculated.execution,
              events    |-> Of(events \cup inserted[r], Analysis(r)),
              created   |-> approved.created]}]
  /\ pc' = [pc EXCEPT ![r] = "inserted"]
  /\ UNCHANGED <<clock, ledger, sequence, request, begunAt, seen, inserted>>

\* Mutant: the approval is committed first, the snapshot in a later transaction.
CommitEventsOnly(r) ==
  /\ pc[r] = "inserted"
  /\ events' = events \cup inserted[r]
  /\ snapshots' = snapshots
  /\ Finish(r)
  /\ UNCHANGED <<clock, matchOf, sequence>>

Commit(r) ==
  /\ pc[r] = "inserted"
  /\ events' = events \cup inserted[r]
  /\ snapshots' = snapshots \cup captured[r]
  /\ Finish(r)
  /\ UNCHANGED <<clock, matchOf, sequence>>

\* SQLAlchemyError, a lost connection or a crash of the process: PostgreSQL
\* rolls the transaction back whatever statement it had reached.
Abort(r) ==
  /\ pc[r] # "idle"
  /\ Finish(r)
  /\ UNCHANGED <<clock, ledger, sequence>>

Tick ==
  /\ clock < MaxClock
  /\ clock' = clock + 1
  /\ UNCHANGED <<ledger, sequence, pc, request, begunAt, seen, inserted, captured>>

\* No request in progress; the bounds may leave nothing else to do.
Quiescent == (\A r \in Request : pc[r] = "idle") /\ UNCHANGED vars

Next ==
  \/ \E a \in AnalysisId, m \in Match : CreateDraft(a, m)
  \/ \E r \in Request, a \in AnalysisId, x \in Execution : Begin(r, "calculate", a, x)
  \/ \E r \in Request, a \in AnalysisId, operation \in {"review", "approve"} :
       Begin(r, operation, a, NoExecution)
  \/ \E r \in Request : Lock(r)
  \/ \E r \in Request : NotFound(r)
  \/ \E r \in Request : Refuse(r)
  \/ \E r \in Request : Calculate(r)
  \/ \E r \in Request : Review(r)
  \/ \E r \in Request : Approve(r)
  \/ \E r \in Request : CaptureSnapshot(r)
  \/ \E r \in Request : Commit(r)
  \/ \E r \in Request : Abort(r)
  \/ Tick
  \/ Quiescent

Spec == Init /\ [][Next]_vars

\* A handler that can run does run, and PostgreSQL grants a contended lock in
\* the order of the waiters.  Nothing makes a rollback, the clock or a new
\* request happen.
Fairness ==
  \A r \in Request :
    /\ SF_vars(Lock(r)) /\ SF_vars(NotFound(r))
    /\ WF_vars(Refuse(r) \/ Calculate(r) \/ Review(r) \/ Approve(r)
               \/ CaptureSnapshot(r) \/ Commit(r))

FairSpec == Spec /\ Fairness

-----------------------------------------------------------------------------
(* Properties. *)

TypeOK ==
  /\ clock \in Nat
  /\ matchOf \in [AnalysisId -> Match \cup {NoMatch}]
  /\ events \subseteq Event
  /\ snapshots \subseteq Snapshot
  /\ sequence \in Nat
  /\ pc \in [Request -> {"idle", "waiting"} \cup InCriticalSection]
  /\ request \in [Request -> Ask \cup {Idle}]
  /\ begunAt \in [Request -> Nat]
  /\ seen \in [Request -> SUBSET Event]
  /\ inserted \in [Request -> SUBSET Event]
  /\ captured \in [Request -> SUBSET Snapshot]

\* The committed ledger of every analysis is a legal history, in the order of
\* the identifiers: one calculation opens it, reviews follow, one approval ends
\* it and has a review before it.
LegalHistory ==
  \A e, f \in events : e.analysis = f.analysis =>
    /\ e.type # "calculated" => Has({g \in Of(events, e.analysis) : g.id < e.id},
                                    "calculated")
    /\ e.type = "approved" => Has({g \in Of(events, e.analysis) : g.id < e.id},
                                  "reviewed")
    /\ e.type = f.type /\ e.type # "reviewed" => e = f
    /\ e.type = "approved" => f.id <= e.id

\* An analysis has a snapshot exactly when its approval is committed, it has only
\* one, and the snapshot holds the whole history of the analysis and the
\* completed execution, of the match of the draft, that was calculated.
SnapshotCertifiesHistory ==
  /\ \A e \in events : e.type = "approved" =>
       \E s \in snapshots : s.analysis = e.analysis
  /\ \A s, t \in snapshots : s.analysis = t.analysis => s = t
  /\ \A s \in snapshots :
       /\ s.events = Of(events, s.analysis)
       /\ Has(s.events, "approved")
       /\ s.match = matchOf[s.analysis]
       /\ s.execution \in Completed
       /\ ExecutionMatch[s.execution] = s.match
       /\ \E e \in s.events : e.type = "calculated" /\ e.execution = s.execution

\* In the order the history is shown in, created_at and then id, the approval of
\* an analysis comes last: approve reads the clock after it holds the lock.
ApprovalShownLast ==
  \A e, f \in events :
    e.analysis = f.analysis /\ e.type = "approved" /\ f # e => Before(f, e)

\* The history that is shown starts with the calculation.  It does not hold: the
\* created_at of a review is the instant its transaction began, which may lie
\* before the calculation it waited for.
HistoryStartsWithCalculation ==
  \A e, f \in events :
    e.analysis = f.analysis /\ e.type = "calculated" /\ f # e => Before(e, f)

\* No request waits for ever, whatever the others do with the lock.
RequestsEnd == \A r \in Request : pc[r] # "idle" ~> pc[r] = "idle"

-----------------------------------------------------------------------------
(* The ledger a reader relies on: AnalysisLedger, over the committed rows. *)

Rows(a, type) == {e \in Of(events, a) : e.type = type}

Stage(a) == IF matchOf[a] = NoMatch THEN "absent" ELSE Status(Of(events, a))
Source(a) == {e.execution : e \in Rows(a, "calculated")}
Reviews(a) == {e.id : e \in Rows(a, "reviewed")}
Frozen(a) == {<<s.execution, {e.id : e \in {f \in s.events : f.type = "reviewed"}}>> :
                s \in {t \in snapshots : t.analysis = a}}

Ledger == INSTANCE AnalysisLedger WITH
  stage   <- [a \in AnalysisId |-> Stage(a)],
  source  <- [a \in AnalysisId |-> Source(a)],
  reviews <- [a \in AnalysisId |-> Reviews(a)],
  frozen  <- [a \in AnalysisId |-> Frozen(a)]

LedgerSpec == Ledger!Spec
=============================================================================
