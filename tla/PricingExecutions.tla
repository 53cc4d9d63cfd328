-------------------------- MODULE PricingExecutions --------------------------
(***************************************************************************)
(* The recorded executions of Method One and their reproductions.          *)
(* POST .../pricing-executions looks for its idempotency key, reads the    *)
(* two series of the sample, prices them outside any transaction, and      *)
(* inserts one row ON CONFLICT DO NOTHING; POST .../reproductions reads an *)
(* execution and appends an attempt.  Each step is a statement of a READ   *)
(* COMMITTED transaction, or a calculation that reads nothing shared.      *)
(* Fingerprints are the values they identify.                              *)
(***************************************************************************)
EXTENDS Integers, Sequences, FiniteSets, Functions

CONSTANTS
  Request,        \* slots for POST requests in progress
  Target,         \* matches that are priced
  Match,          \* matches of their season
  HomeSeries,     \* for a target, the eligible matches of each venue before it,
  AwaySeries,     \*   by played_on DESC, match_id ASC
  SampleSize,     \* _REQUESTED_COUNT
  Key, NoKey,     \* values of Idempotency-Key, and its absence
  Imported,       \* the statistics there are at the start
  Goals,          \* the goals a match can have
  MaxExecution,   \* bound: executions priced
  MaxAnswer,      \* bound: calls answered
  MaxReproduction,\* bound: attempts recorded
  MaxVersion      \* bound: versions of the software

ASSUME PricingAssumption ==
  /\ HomeSeries \in [Target -> Seq(Match)]
  /\ AwaySeries \in [Target -> Seq(Match)]
  /\ \A t \in Target : IsInjective(HomeSeries[t]) /\ IsInjective(AwaySeries[t])
  /\ SampleSize \in Nat \ {0}
  /\ NoKey \notin Key
  /\ DOMAIN Imported \subseteq Match
  /\ \A m \in DOMAIN Imported : Imported[m] \in Goals

Status == {"completed", "blocked_sample_incomplete", "technical_failure"}
Outcome == {"exact_match", "mismatch", "incompatible_version", "blocked", "technical_failure"}

VARIABLES
  statistics,    \* committed rows of match_statistics: goals by match
  executions,    \* committed rows of pricing_executions
  reproductions, \* committed rows of pricing_execution_reproductions, in order
  version,       \* version of the software that runs: engine, distribution, method, schema
  drawn,         \* identifiers drawn for executions
  pc,            \* where each request is
  call,          \* what it asks for: a match and a key
  series,        \* the series it has read, home first
  draft,         \* the execution it has prepared, or the one it reproduces, in a set
  ready,         \* whether the sample was complete when it arrived
  answers        \* the executions calls were answered with, in order

requestVars == <<pc, call, series, draft, ready>>
tables == <<statistics, executions, reproductions>>
vars == <<tables, version, drawn, requestVars, answers>>

NoCall == [match |-> "none"]

Init ==
  /\ statistics = Imported
  /\ executions = {}
  /\ reproductions = <<>>
  /\ version = 1
  /\ drawn = 0
  /\ pc = [r \in Request |-> "idle"]
  /\ call = [r \in Request |-> NoCall]
  /\ series = [r \in Request |-> <<>>]
  /\ draft = [r \in Request |-> {}]
  /\ ready = [r \in Request |-> FALSE]
  /\ answers = <<>>

-----------------------------------------------------------------------------
(* Executions. *)

\* A match takes part once it has statistics: the places of those that have.
Found(eligible) == {i \in DOMAIN eligible : eligible[i] \in DOMAIN statistics}

\* The latest SampleSize of them, with what they were read with.  The order of the
\* rows is that of the matches: a set of them says the same.
First(found) == {i \in found : Cardinality({j \in found : j < i}) < SampleSize}
Latest(eligible) ==
  {<<eligible[i], statistics[eligible[i]]>> : i \in First(Found(eligible))}

\* Mutant: complete is taken as strictly more than what was asked for.
MoreThanComplete(matches) == Cardinality(matches) > SampleSize
Complete(matches) == Cardinality(matches) = SampleSize

\* Ghost: both series of the target have the matches that a sample needs.
Ready(t) ==
  \A eligible \in {HomeSeries[t], AwaySeries[t]} :
    Cardinality(Found(eligible)) >= SampleSize

\* Bounds: calls that could still be answered or draw an identifier.
Working == {r \in Request : pc[r] \notin {"idle", "reproducing"}}

Post(r, t, k) ==
  /\ pc[r] = "idle"
  /\ drawn + Cardinality(Working) < MaxExecution
  /\ Len(answers) + Cardinality(Working) < MaxAnswer
  /\ pc' = [pc EXCEPT ![r] = IF k = NoKey THEN "sampling" ELSE "looking"]
  /\ call' = [call EXCEPT ![r] = [match |-> t, key |-> k]]
  /\ ready' = [ready EXCEPT ![r] = Ready(t)]
  /\ UNCHANGED <<tables, version, drawn, series, draft, answers>>

\* The end of a request: its transaction and its session are gone.
End(r) ==
  /\ pc' = [pc EXCEPT ![r] = "idle"]
  /\ call' = [call EXCEPT ![r] = NoCall]
  /\ series' = [series EXCEPT ![r] = <<>>]
  /\ draft' = [draft EXCEPT ![r] = {}]
  /\ ready' = [ready EXCEPT ![r] = FALSE]

\* The rows the unique constraint compares with: NULL keys are all distinct.
SameKey(c) == {e \in executions : c.key # NoKey /\ e.match = c.match /\ e.key = c.key}

LookUp(r) ==
  /\ pc[r] = "looking"
  /\ IF SameKey(call[r]) = {}
     THEN /\ pc' = [pc EXCEPT ![r] = "sampling"]
          /\ UNCHANGED <<call, series, draft, ready, answers>>
     ELSE \E e \in SameKey(call[r]) : answers' = Append(answers, e) /\ End(r)
  /\ UNCHANGED <<tables, version, drawn>>

ReadHome(r) ==
  /\ pc[r] = "sampling"
  /\ series' = [series EXCEPT ![r] = <<Latest(HomeSeries[call[r].match])>>]
  /\ pc' = [pc EXCEPT ![r] = "home read"]
  /\ UNCHANGED <<tables, version, drawn, call, draft, ready, answers>>

ReadAway(r) ==
  /\ pc[r] = "home read"
  /\ series' = [series EXCEPT ![r] = Append(@, Latest(AwaySeries[call[r].match]))]
  /\ pc' = [pc EXCEPT ![r] = "sampled"]
  /\ UNCHANGED <<tables, version, drawn, call, draft, ready, answers>>

\* The engine is a function of its version and the request; it may also fail.
Engine(v, request) == <<v, request>>

Prepared(r, status, input, result) ==
  [id |-> drawn + 1, match |-> call[r].match, key |-> call[r].key, status |-> status,
   sample |-> series[r], version |-> version, input |-> input, result |-> result]

\* Mutant: a failure after the calculation keeps its result.
DraftsWithResult(r) ==
  IF \A s \in Range(series[r]) : Complete(s)
  THEN {Prepared(r, "completed", {series[r]}, {Engine(version, series[r])}),
        Prepared(r, "technical_failure", {series[r]}, {Engine(version, series[r])}),
        Prepared(r, "technical_failure", {}, {})}
  ELSE {Prepared(r, "blocked_sample_incomplete", {}, {})}

\* A failure before the input is canonical is MethodOneSampleInvalidError, after it one
\* of the engine.
Drafts(r) ==
  IF \A s \in Range(series[r]) : Complete(s)
  THEN {Prepared(r, "completed", {series[r]}, {Engine(version, series[r])}),
        Prepared(r, "technical_failure", {series[r]}, {}),
        Prepared(r, "technical_failure", {}, {})}
  ELSE {Prepared(r, "blocked_sample_incomplete", {}, {})}

Price(r) ==
  /\ pc[r] = "sampled"
  /\ drawn' = drawn + 1
  /\ \E e \in Drafts(r) : draft' = [draft EXCEPT ![r] = {e}]
  /\ pc' = [pc EXCEPT ![r] = "priced"]
  /\ UNCHANGED <<tables, version, call, series, ready, answers>>

\* Requests that hold the entry of a call in the unique index, not committed.
Holding(c) ==
  {q \in Request : pc[q] = "inserted" /\ c.key # NoKey /\ call[q] = c}

\* Mutant: an INSERT without the unique constraint.
InsertUnconstrained(r) ==
  /\ pc[r] = "priced"
  /\ pc' = [pc EXCEPT ![r] = "inserted"]
  /\ UNCHANGED <<tables, version, drawn, call, series, draft, ready, answers>>

\* Mutant: the INSERT waits for a conflicting row to go away.
InsertUnlessConflict(r) ==
  /\ pc[r] = "priced"
  /\ Holding(call[r]) = {}
  /\ SameKey(call[r]) = {}
  /\ pc' = [pc EXCEPT ![r] = "inserted"]
  /\ UNCHANGED <<tables, version, drawn, call, series, draft, ready, answers>>

\* ON CONFLICT DO NOTHING waits for a conflicting row that is not committed.
Insert(r) ==
  /\ pc[r] = "priced"
  /\ Holding(call[r]) = {}
  /\ pc' = [pc EXCEPT ![r] = IF SameKey(call[r]) = {} THEN "inserted" ELSE "conflict"]
  /\ UNCHANGED <<tables, version, drawn, call, series, draft, ready, answers>>

ReadBack(r) ==
  /\ pc[r] = "conflict"
  /\ \E e \in SameKey(call[r]) : answers' = Append(answers, e)
  /\ End(r)
  /\ UNCHANGED <<tables, version, drawn>>

\* The answer may be lost after the commit.
Commit(r) ==
  /\ pc[r] = "inserted"
  /\ \E e \in draft[r] :
       /\ executions' = executions \cup {e}
       /\ answers' \in {answers, Append(answers, e)}
  /\ End(r)
  /\ UNCHANGED <<statistics, reproductions, version, drawn>>

\* PersistenceUnavailableError (503), or the client goes away: a rollback.
Fail(r) ==
  /\ pc[r] # "idle"
  /\ End(r)
  /\ UNCHANGED <<tables, version, drawn, answers>>

-----------------------------------------------------------------------------
(* Reproductions. *)

ReadOriginal(r) ==
  /\ pc[r] = "idle"
  /\ Len(reproductions) + Cardinality({q \in Request : pc[q] = "reproducing"})
       < MaxReproduction
  /\ \E e \in executions : draft' = [draft EXCEPT ![r] = {e}]
  /\ pc' = [pc EXCEPT ![r] = "reproducing"]
  /\ UNCHANGED <<tables, version, drawn, call, series, ready, answers>>

\* Mutant: the request is built again from the sample there is now.
Rebuilt(original) ==
  <<Latest(HomeSeries[original.match]), Latest(AwaySeries[original.match])>>
\* The request decoded from the canonical input.
Decoded(original) == CHOOSE request \in original.input : TRUE

\* The outcomes, in the order of the checks.  The engine may fail when it makes the
\* decoded input canonical, which blocks the reproduction, and when it runs.
Outcomes(original) ==
  IF original.status # "completed" THEN {"blocked"}
  ELSE IF original.version # version THEN {"incompatible_version"}
  ELSE {"blocked"} \cup
    (IF Decoded(original) \notin original.input THEN {"mismatch"}
     ELSE {"technical_failure",
           IF Engine(version, Decoded(original)) \in original.result THEN "exact_match"
           ELSE "mismatch"})

AppendReproduction(r) ==
  /\ pc[r] = "reproducing"
  /\ \E original \in draft[r] : \E outcome \in Outcomes(original) :
       reproductions' = Append(reproductions,
         [execution |-> original.id, outcome |-> outcome, version |-> version])
  /\ End(r)
  /\ UNCHANGED <<statistics, executions, version, drawn, answers>>

-----------------------------------------------------------------------------
(* What else changes: statistics and the software. *)

\* An import gives a match statistics, a correction changes them.
Publish(m, g) ==
  /\ m \in DOMAIN statistics => statistics[m] # g
  /\ statistics' = [n \in DOMAIN statistics \cup {m} |-> IF n = m THEN g ELSE statistics[n]]
  /\ UNCHANGED <<executions, reproductions, version, drawn, requestVars, answers>>

\* The application is stopped, updated and started: no request survives.
Upgrade ==
  /\ version < MaxVersion
  /\ version' = version + 1
  /\ pc' = [r \in Request |-> "idle"]
  /\ call' = [r \in Request |-> NoCall]
  /\ series' = [r \in Request |-> <<>>]
  /\ draft' = [r \in Request |-> {}]
  /\ ready' = [r \in Request |-> FALSE]
  /\ UNCHANGED <<tables, drawn, answers>>

\* No request in progress; the bounds may leave nothing else to do.
Quiescent == (\A r \in Request : pc[r] = "idle") /\ UNCHANGED vars

Step(r) ==
  \/ LookUp(r)
  \/ ReadHome(r)
  \/ ReadAway(r)
  \/ Price(r)
  \/ Insert(r)
  \/ ReadBack(r)
  \/ Commit(r)
  \/ AppendReproduction(r)

Next ==
  \/ \E r \in Request, t \in Target, k \in Key \cup {NoKey} : Post(r, t, k)
  \/ \E r \in Request : ReadOriginal(r)
  \/ \E r \in Request : Step(r)
  \/ \E r \in Request : Fail(r)
  \/ \E m \in Match, g \in Goals : Publish(m, g)
  \/ Upgrade
  \/ Quiescent

Spec == Init /\ [][Next]_vars

\* A statement of the database is answered in the end, the engine returns, and no
\* writer waits for two things.
FairSpec == Spec /\ \A r \in Request : WF_vars(Step(r))

-----------------------------------------------------------------------------
(* Properties. *)

Sample == Seq(SUBSET (Match \X Goals))

Execution == [id : Nat, match : Target, key : Key \cup {NoKey}, status : Status,
              sample : Sample, version : Nat, input : SUBSET Sample,
              result : SUBSET (Nat \X Sample)]

\* The CHECK constraint on the shape of a status.
Shaped(e) ==
  /\ e.status = "completed" <=> e.result # {}
  /\ e.status = "completed" => e.input # {}

TypeOK ==
  /\ DOMAIN statistics \subseteq Match
  /\ \A m \in DOMAIN statistics : statistics[m] \in Goals
  /\ \A e \in executions : e \in Execution /\ Shaped(e)
  /\ reproductions \in Seq([execution : Nat, outcome : Outcome, version : Nat])
  /\ version \in Nat
  /\ drawn \in Nat
  /\ pc \in [Request -> {"idle", "looking", "sampling", "home read", "sampled", "priced",
                         "inserted", "conflict", "reproducing"}]
  /\ call \in [Request -> [match : Target, key : Key \cup {NoKey}] \cup {NoCall}]
  /\ series \in [Request -> Sample]
  /\ draft \in [Request -> SUBSET Execution]
  /\ \A r \in Request : \A e \in draft[r] : Shaped(e)
  /\ ready \in [Request -> BOOLEAN]
  /\ answers \in Seq(executions)

Store == INSTANCE ExecutionStore WITH stored <- executions

\* The promise of the executions resource, doc 34: one record for a match and a key
\* whatever the requests, retries and lost answers, and without a key a new record for
\* every POST.
StoreSpec == Store!Spec

\* A reproduction never disagrees with what was recorded, whatever was corrected or
\* imported since, and it runs the engine only on a completed execution of the version
\* that runs: what a newer version would calculate is never passed off as a mismatch.
ReproductionsAgree ==
  \A i \in 1..Len(reproductions) : \E e \in executions :
    /\ e.id = reproductions[i].execution
    /\ reproductions[i].outcome # "mismatch"
    /\ reproductions[i].outcome \in {"exact_match", "technical_failure"} =>
         e.status = "completed" /\ e.version = reproductions[i].version
    /\ reproductions[i].outcome = "incompatible_version" =>
         e.version # reproductions[i].version

\* A request that finds a complete sample when it arrives is not blocked for an
\* incomplete one, whatever is imported or corrected while it reads the two series.
CompleteSampleIsNotBlocked ==
  \A r \in Request : pc[r] \in {"priced", "inserted"} /\ ready[r] =>
    \A e \in draft[r] : e.status # "blocked_sample_incomplete"

\* Every POST ends: it waits for a conflicting one only as long as that one runs.
RequestsEnd == \A r \in Request : pc[r] # "idle" ~> pc[r] = "idle"
=============================================================================
