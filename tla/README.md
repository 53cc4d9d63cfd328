# Formal models of Linha de Valor Football Intelligence (LVFI)

TLA+ modules, TLC configurations and TLAPS proofs for the application in this
repository: a FastAPI service (`apps/api`) over PostgreSQL, a pricing package
(`packages/pricing-engine`), a Next.js front end (`apps/web`) and the
PowerShell scripts that run, back up and restore it (`scripts/local`).

The product is a set of append-only ledgers with a few mutable projections,
written by requests that run concurrently in one asyncio process (and by CLI
commands next to it), each in PostgreSQL READ COMMITTED transactions. What is
hard here is not the single handler but the order in which statements of
several handlers reach the database. The models therefore split a transaction
into its statements, keep uncommitted rows apart, take locks where the code and
PostgreSQL take them, and let any transaction be rolled back at any point.

## Inventory

`lvfi_api/` stands for `apps/api/src/lvfi_api/`.

| Component | State it keeps | Operations | What makes it correct |
| --- | --- | --- | --- |
| Analysis workflow (`persistence/analysis_workflow.py`, migration `20260910_09`) | drafts, events, snapshots, all append-only | `create_draft`, `calculate`, `review`, `approve`; reads | legal histories; approval and snapshot are one; the snapshot holds the whole history; the order shown is the order it happened in |
| Configuration ledger (`persistence/configuration.py`) | revisions with `replaces_revision_id` | `create_revision`, `get_history`, `effective` | one line per chain; the resolution by scope and clock selects the unreplaced head of the nearest scope |
| Local administrator (`application/local_admin_authentication.py`) | one credential with failure counter and lock; sessions; audit rows | `bootstrap`, `login`, `actor_for_token`, `logout`, `change_password`, `reset_password` | no session outlives its password; guesses are limited; a checked session is live; invalidation is final |
| Operational data (`persistence/operational_data.py`) | statistic revisions (append-only), `match_statistics` (mutable), matches | `revise_statistic`, `create_future_match` | the projection is the last correction; revisions name values that were in force; one match per natural key |
| Historical import (`historical_import.py`) | batches, source records, issues, matches, statistics | dry run, import | idempotent by file hash and sheet; conflicts recorded, never merged |
| Pricing executions (`application/pricing_execution_persistence.py`) | append-only executions, unique per match and idempotency key | `execute`, `get`, lists | one execution per key, the same answer to every retry; status agrees with what is stored |
| Reproductions, comparison | append-only reproductions | `reproduce`, `compare` | outcome determined by the stored execution and the current versions |
| Market pricings, market references | append-only snapshots and observations | persist, observe, compare | an observation refers to a stored snapshot and a market in it |
| PDF reports (`application/pdf_reports.py`) | files, artifact rows, in-process locks | `generate`, `get`, download | a row's hash is the hash of its file |
| Backup and restore (`scripts/local`) | bundles with manifest and retention classes | backup, prune, restore, test | a bundle is whole; what is restored is consistent; retention keeps enough |
| Start and stop (`scripts/local`) | state file, processes | start, stop, health | every process started is in the state file or stopped; no foreign process is stopped |
| Statistics layer, Methods One, Two, Three | none (reads) | samples, averages, frequencies, execution | strict cutoff, window order and sizes, missing is not zero |
| Pricing engine | none | Asian settlement, markets, main line, distributions, orchestration | settlement of quarter lines; conservation; choice of the main line |
| Database, HTTP layer, configuration, observability | session pool, settings | sessions, routes, middleware | commit on success, rollback on every exception |
| Web application | view state | pages, proxy | shows the API's answers |

Interactions: every business route runs `require_authenticated_admin` first, in
a transaction of its own that ends before the handler's; the workflow reads
executions, the configuration ledger and the match projection inside the
approval; Method One reads the `match_statistics` that `revise_statistic`
mutates; a PDF is rendered from an approved snapshot; a backup dumps the
database and then copies the PDF directory. All of them share
`Database.session()`, which commits at the end of its block and rolls back on
any exception (`infrastructure/database.py:58-70`).

The hazards, each at its line, are listed in `PROJECT.json`.

## Modules

| Module | Models | State ↔ code |
| --- | --- | --- |
| `AnalysisLedger` | what the workflow promises its readers | per analysis: stage, source execution, reviews, frozen snapshot; atomic `Draft`, `Calculate`, `Review`, `Approve` |
| `AnalysisWorkflow` | the transactions of `SqlAlchemyAnalysisWorkflowRepository` | `matchOf`, `events`, `snapshots` are the three tables; `seen` what `_locked_analysis` returned; `inserted`, `captured` uncommitted rows; `begunAt` is `now()` |
| `MCAnalysisWorkflow` | constants of its runs | |
| `AnalysisWorkflowProofs` | theorems about both | |
| `AdminAuthentication` | `LocalAdminAuthenticationService` and the routes that call it | `credential`, `sessions` are rows; `credentialLock`, `sessionLock` row locks; `write` the uncommitted row versions; `keeper`, `guesses` are history variables |
| `MCAdminAuthentication` | symmetry of its safety run | |
| `AdminAuthenticationProofs` | theorems about it | |
| `ConfigurationChains` | what the configuration ledger promises: lists that only grow at the end | |
| `ConfigurationLedger` | `create_revision`, the order of `get_history`, the selection of `effective` and of `_effective_configuration` | `revisions` is the table; `created`, `previous`, `inserted` the locals of a request |
| `MCConfigurationLedger` | constants of its run | |
| `ConfigurationLedgerProofs` | theorems about it | |
| `StatisticRevisions` | `revise_statistic` | `projection` is `match_statistics`, `revisions` is `statistic_revisions` in commit order, `before` the order of `created_at`, `rowLock` the row lock of the UPDATE |
| `MCStatisticRevisions` | constants of its runs | |
| `StatisticRevisionsProofs` | theorems about it | |
| `ExecutionStore` | what the recording of executions promises its callers | records, and the answers that were given |
| `PricingExecutions` | `PricingExecutionPersistenceService.execute` with the sample and the repository below it, `PricingExecutionReproductionService.reproduce` | `statistics`, `executions`, `reproductions` are tables; `series` the two reads of a sample; `draft` the row prepared, or the original that is reproduced; `version` the software that runs; `answers`, `ready` are history variables |
| `MCPricingExecutions` | constants of its runs | |
| `PricingExecutionsProofs` | theorems about it | |
| `PdfReports` | `PdfReportService.generate`, its repository and the download | `snapshots`, `rows` are tables, `files` the PDF directory, `pc` and `content` the requests; bytes are told apart by the renderer that made them, `Torn` is a truncated file |
| `BackupRetention` | the retention classes and `Remove-ExpiredLvfiBackups` | operators over a set of bundles |
| `LocalOperation` | the scripts of `scripts/local` around `PdfReports`: Start, Stop, Backup, Restore | `processes` is `lvfi-processes.json`; `stage`, `draft` the backup in progress, `disk` the directories with a manifest, `restore` the restore in progress; `orphaned`, `sound` are history variables |
| `MCLocalOperation` | constants and symmetry of its run | |
| `LocalOperationProofs` | theorems about it | |
| `MatchRegistration` | `create_future_match` and `HistoricalImporter.execute` | `keys` stands for competitions, seasons and teams, `matches`, `batches`, `records` are tables; `own` the uncommitted rows of a request, `line` and `step` where it is in its file |
| `MCMatchRegistration` | constants of its run | |
| `MatchRegistrationProofs` | theorems about it | |
| `StatisticsSamples` | the selectors, samples and references of `persistence/statistics.py` and `method_one_samples.py`, Methods Two and Three | `matches` is the table with its statistics, in the order of the identifiers; `request` the calculation in progress, with the evidence it has read |
| `AsianSettlement`, `AsianMarkets`, `BasicMarkets` | settlement, prices and main lines of Asian markets; the other markets; `run_pricing_engine` | operators over an integer-weighted score matrix |
| `MethodOneRates` | quality of samples, averages, base rates, multipliers, publication | operators over four series |
| `Calculations` | composes `StatisticsSamples`, `BasicMarkets` and `MethodOneRates` | `calculation` the last call of the engine or of Method One |
| `MCCalculations` | constants of its run | |
| `CalculationsProofs` | theorems about it and the modules it composes | |

How PostgreSQL is modelled, in every module: a statement sees what is committed
when it starts (READ COMMITTED) and the transaction's own rows; an advisory or
row lock is kept until the transaction ends; an UPDATE that waited for a row
looks at the row again; `now()` is the begin of the transaction while
`datetime.now(UTC)` is the instant of the call; a sequence gives an identifier
at the insert and never takes it back; unique indexes and triggers are guards
of the insert. `Commit` and `Abort` are the two ends of `Database.session()`;
`Abort` also stands for a lost connection or a crash of the process, after
which PostgreSQL keeps nothing of the transaction.

Modelling choices worth knowing:

- `AnalysisWorkflow`: `create_draft` is one step, since its identifier is a fresh
  UUID nobody else can name before the commit. The snapshot payload keeps match,
  execution and events; match projection and configuration are data no property
  reads. The trigger of the snapshot table asks for an approval event, which the
  same transaction has just inserted.
- `AdminAuthentication`: a session's token is the session. `hash` counts stored
  password hashes, since a salted hash is never stored twice. An acceptable
  password is a member of `Password`; the length check refuses everything else
  before any statement. The UPDATE over all sessions starts from the rows that
  are live when it starts and takes their locks one by one, in any order.
- `ConfigurationLedger`: values and hashes are left out; `_chain_key` and
  `_scope_predicate` both become the pair of parameter and target. The snapshot
  of an approval re-implements the selection of `effective`
  (`analysis_workflow.py:463-482`); the sort key and the loop are the same, so
  one operator `Selected` stands for both.
- `StatisticRevisions`: twenty columns become the members of `Field`, the CHECK
  constraints pairs in `AtMost`. `availability = "missing"` inserts a revision
  and leaves the projection alone, as the code does. `created_at` is the begin of
  the transaction; only its order is read, so the model keeps the pairs of
  transactions of which one began before the other. A transaction is named by its
  request, and by the identifier of its revision once it has committed.
- `PricingExecutions`: a fingerprint or a canonical payload is the value it
  identifies, so decoding a canonical input (floats travel as hexadecimal, so
  nothing is rounded) gives the request that was stored; the branch of
  `reproduce` for an input that decodes to another fingerprint is there but
  cannot be taken. The engine may raise wherever it is called: an execution ends
  as `technical_failure` with its input or, if the request could not be built
  (`MethodOneSampleInvalidError`), without; a reproduction is `blocked` if the
  decoded input cannot be made canonical, and a `technical_failure` if the
  calculation raises. The checks of `build_method_one_request` that repeat the
  query (venue, season, cutoff) cannot fail on its rows, so the code takes fewer
  of these branches than the model. The statistics of a match become its goals,
  which is what the request and both fingerprints are made of. The calculation reads nothing shared and is one step. `Upgrade`
  replaces the process, and with it every request in progress. `version` stands
  for the tuple of four; its engine part is a literal in two files, which have to
  be changed together. The rows of a series are in the order of the matches, so
  that a set of them says the same as the sequence.
- `PdfReports`: one API process, as the documentation of the local operation
  asks for; the lock is a lock of the process. From the start of the render to
  the end of `write_bytes` the event loop is blocked, so no other request moves
  (`Blocked`). Opening the file truncates it, in a step of its own. One template.
- `LocalOperation`: one operator, at most one instance of each script at a time;
  launcher, API and web process are one, so that a Stop that kills some of them
  and then fails is not modelled. Every script can be cut short between any two
  steps. A Stop that finds a recorded identifier in use by another process
  refuses (`Stop-Lvfi.ps1:18`): with one process it has changed nothing by then,
  and is a Stop that does not take its steps. A Restore whose bundle is pruned,
  published or removed by a backup before `pg_restore` opens the dump, or before
  the last file is copied, cannot go on and fails (`BundleIsThere`). Restoring with the application up, without its files, or half-way is
  what the documentation tells the operator not to do, or to repeat; the history
  variable `sound` keeps those states apart instead of excluding them, and
  becomes true again with the next restore that goes through. An error and a
  kill of the backup differ: the first removes the staging directory.
- `MatchRegistration`: a name is what `normalized_key` makes of it; the twenty
  columns are the members of `Field`. One file is one sheet, identified by its
  bytes. Issues of a row are the codes of `normalize_row`: a cell may hold no
  integer, and the comparisons between statistics are made only when all of them
  are integers and none is negative. `incomplete_row` cannot be reported, see
  below. An INSERT waits for the transaction that holds the same key, as
  PostgreSQL's unique indexes do.
- `StatisticsSamples`: the eight metrics are of three kinds (own value, other
  value, comparison of both) and one statistic stands for each; a mean is a sum
  and a count, a rate a fraction. The season of a request is validated in the
  same step as the query after it: seasons are never deleted. A correction is one
  step, the commit of its transaction, and `revised` is the revision that ranks
  first by `created_at`, the begin: one that commits later than another may rank
  behind it, while the wide row has the value of the last UPDATE.
- The engine: the common factor exp(-rate) and the factorial of the support are
  left out of every probability, which makes the weights integers and every
  comparison exact; the support, where the tail gets below the tolerance, is an
  input. `is_close`, by which main-line candidates tie, is exact equality. The
  engine and Method One read no table: `Calculations` calls them while the table
  is empty, which multiplies no states.
- `MethodOneRates`: a series is its count, sum and exclusions; a rate is a
  fraction with the number of low and high multipliers it took. The code takes
  numbers from 0.9 to 1.1; three values stand for them.
- Clocks: the API and PostgreSQL run on one host, and the clock does not step
  back. With a clock that does, `ConfigurationLedger` forks: the code trusts it.

## Runs

| Run | Question | Properties | Bounds and why they are enough |
| --- | --- | --- | --- |
| `AnalysisWorkflow` | is every committed history legal, and atomic for a reader? | `TypeOK`, `LegalHistory`, `SnapshotCertifiesHistory`, `ApprovalShownLast`, `LedgerSpec`, `RequestsEnd` | two requests at once, two drafts, two matches, four events: enough for a full history with a lost race at each step; a completed, a failed and an unknown execution |
| `AnalysisHistoryOrder` | does the history that is shown start with the calculation? (no) | `HistoryStartsWithCalculation` | one draft, two requests, one tick |
| `AdminAuthentication` | sessions, password and lock under concurrency | `TypeOK`, `NoSessionOutlivesItsPassword`, `GuessesAreLimited`, `AcceptedSessionIsLive`, `InvalidationIsFinal` | two requests, sessions and passwords; limit 2, lock 2, idle 2, absolute 3 ticks, so that each limit can run out before another; two hashes, i.e. one change or reset; requests, sessions and passwords are interchangeable |
| `AdminAuthenticationLiveness` | can two requests wait for each other? | `RequestsEnd` | as above with every duration one tick; no symmetry |
| `ConfigurationLedger` | do chains fork, and is the right revision in force? | `TypeOK`, `ChainsAreLinear`, `EffectiveIsNearestHead`, `EffectiveNeverFallsBack`, `ChainsSpec` | two requests, two parameters, two matches of one competition, all scopes, three revisions, three instants |
| `StatisticRevisions` | is a correction ever lost, and do its two readers agree? | `TypeOK`, `ProjectionIsLastCorrection`, `PreviousWasInForce`, `ReadersAgree` | two requests, two columns with a constraint between them, one match with and one without statistics, three revisions |
| `StatisticPreviousValue` | does a revision name the value it replaced? (no) | `PreviousIsReplaced` | one match, two revisions |
| `PricingExecutions` | one record per match and key, and faithful reproductions? | `TypeOK`, `ReproductionsAgree`, `CompleteSampleIsNotBlocked`, `StoreSpec` | two requests with one key or none, two executions and two answers: enough for a lost race, a retry after a lost answer, and a waiter whose holder fails; a target whose sample becomes complete by import, is corrected and displaced by a later match; two versions; one reproduction, since an attempt depends on no other; sample size 1 |
| `PricingExecutionsLiveness` | does a waiting insert ever stay behind? | `RequestsEnd` | as above with one version and one value of goals; no symmetry |
| `LocalOperation` | can an artifact lose its file, a bundle its consistency, Stop its process? | `ArtifactsCanBeDownloaded`, `BundlesAreConsistent`, `ServingIsKnown`, `AnswerIsStored` | two requests, one snapshot (locks and paths are per snapshot), two renderers, so that bytes can differ once, one backup and any number of restores, starts, stops and crashes; the requests are interchangeable. The proofs have no bound |
| `MatchRegistration` | is each match registered once, each file imported once, and each line of it accounted for? | `BatchAccountsForItsRows`, `MatchesAreTraceable`, `ImportIsIdempotent`, `RequestsEnd` | two requests, both of which may import one file at once or again; an empty file, one with a repeated line, a row with several issues and a row whose statistics contradict each other, and one with teams in both orders and a match of the other file; two drafts that meet them. Two competitions, which one file and one draft insert in opposite orders: the two wait for each other and PostgreSQL ends one |
| `Calculations` | do the three selectors, the markets and the two sides agree with each other? | `MainLineIsFair`, `MarketsAgree`, `SidesAreTreatedAlike`, `PairsShareOneSelection`, `MethodsAgree`, `SamplesLookBack` | every table of up to four matches on two days in two seasons and two competitions, sample size 2, four matches and corrections together (no correction of four matches, one of three, two of two), so that two corrections of one statistic can rank otherwise than they were committed, and three matches can stand before a target, targets 2 and 3; matches may arrive and change between two reads; seven scorers on each side (rates 0 to 2, and one with equally near lines), every market, requests with none and with one twice; four kinds of series in each role (empty, insufficient, blocking, adequate), two weightings, six sets of multipliers |

Two requests are enough to see every race of two statements: the locks are per
analysis, per chain or per row, each held by one request at a time, and what a
third request could add is what one of the two did earlier. Bounds on clocks,
identifiers and hashes are guards of `Tick`, `Begin` and the `Begin...` actions,
and named `Max...`. `Quiescent` only says that a system with no request in
progress may stay so when the bounds leave nothing to do; a request that cannot
go on is still reported as a deadlock.

The two runs that end in a violation are disagreements between the code and
what it says of itself:

- A review carries the instant its transaction began. When it waited for the
  calculation, it is listed before it, although the history is documented (doc
  45) as the order of the transitions and the persistence test expects the
  calculation first. `approve` does not have the problem: it reads the clock
  under the lock, and `ApprovalShownLast` holds and is proved.
- `revise_statistic` reads the previous value without a lock. Of two concurrent
  corrections the later one records a previous value it did not replace, and
  the value it did replace appears in no revision as previous. The projection is
  right, and the value recorded had been in force.

Modelling showed more that a reader of the code may want to know. None of it
contradicts a property above; some properties say so in their wording.

- The readers of a statistic differ after two corrections that commit in the
  other order than they began: the statistics layer takes the revision with the
  newest `created_at`, the wide row keeps the last UPDATE (`ReadersAgree` has
  the condition). They also differ after a correction to "missing": the wide
  row, and Method One, keep the old value.
- A preview, and the answer to a file imported before, report what the parse
  says: a line that meets a stored match, or repeats a line of its own file, is
  counted as accepted (`historical_import.py:443-463`). Doc 40 (lines 11-13)
  promises that accepted, rejected, duplicated and conflicting rows are
  identified before the confirmation. No property is about what these two
  answer; `ImportIsIdempotent` is about what is stored.
- A row with other than 25 columns raises from `zip(..., strict=True)`
  (`historical_import.py:431`) before `normalize_row` can report
  `incomplete_row`. A season label is normalised by the import and only
  stripped by `create_future_match`.
- A backup that is killed after its manifest leaves a staging directory that
  pruning counts like a bundle and Restore accepts; `BundlesAreConsistent` holds
  for it too.
- The quality of Method One is that of the first worst series
  (`base_rates.py:362`). A blocking exclusion in another series is dropped with
  its errors, while docs 15 to 18 have any blocking exclusion block; the web route
  builds series without exclusions.
- With both rates zero no total wins anything, so that the main line has no odds
  and the whole request fails, the other markets included.

### Fairness

`RequestsEnd` assumes that a handler that can take its next statement takes it
(weak fairness; asyncio runs every ready task) and that PostgreSQL grants a
contended lock to its waiters in order, so that a request to which the lock
becomes free again and again gets it (strong fairness). Nothing is assumed of
rollbacks, of the clock, or of new requests. `PricingExecutions` needs weak
fairness only: what an insert waits for ends in a row with its key, after which
it never waits again, or in a rollback, of which the bound on executions allows
finitely many. In `MatchRegistration` every step of a request is weakly fair, and the INSERTs
that may wait are strongly fair: PostgreSQL wakes a waiter when the holder ends,
before a later request gets as far as the same key. The detector of deadlocks is
part of the step. The safety runs assume no fairness.

## Proofs

`AnalysisWorkflowProofs` proves for every number of requests, analyses,
matches, executions, and for every bound:

- `TypeCorrect`, `HistoryIsLegal`, `SnapshotIsComplete`, `ApprovalClosesHistory`:
  the four invariants of the run. None is inductive as it stands. The inductive
  invariant `IInv` adds `Exclusion` (two requests in the critical section work
  on different analyses), `ReadUnderLock` (what a request read under its lock is
  still what is committed, which is what makes its check still good at the
  commit), `CommittedRow` (identifiers and instants of the ledger are in the
  past, a calculated execution is completed and of the match) and `Uncommitted`
  (the row a request has not committed continues exactly the history it read,
  and its snapshot is that history with the row). There is one lemma per action;
  the commit is the one in which everything is used.

Its last section proves `WorkflowImplementsLedger`, i.e. `Spec =>
LedgerSpec`: the initial state maps to the initial state, `CreateDraft` and
`Commit` map to one step of the ledger (the commit to `Calculate`, `Review` or
`Approve` by the kind of the row that becomes visible), and every other action
leaves the ledger alone.

Assumptions: only `ConstantsAssumption` of `AnalysisWorkflow`. The proofs do not
use `TriggerAccepts` or `UniqueIndexAccepts`: the lock alone makes the histories
legal, and the triggers are a second line of defence.

`LocalOperationProofs` proves, for every number of requests, snapshots, renderers
and backups and every value of the retention constants, the four properties of
the `LocalOperation` run: `ArtifactsStay` (no row of an artifact loses its file),
`BundlesHold`, `ServingStaysKnown` and the action property `AnswersAreStored`. The
inductive invariant `IInv` says why:

- `OneHolder` (one request holds the lock of a snapshot), `Rendered` and `NoneYet`
  (a request that is making an artifact has found no row, there still is none,
  and once it has written the file the file is what its row will say) make
  `RowsAreFiled` stable; `DownIsIdle` ends all of that with the process;
- `DraftFollows`: rows never change, so what the dump of a backup has is still in
  the table, with its file, when the files are copied after it. Copying first
  breaks this (it is the mutant of `BundlesAreConsistent`). A restore that clears the
  tables meanwhile takes the draft's claim away;
- `RestoreHolds`: a restore that was begun with the application down, and that no
  application has been started against, finds the rows it has loaded when it
  ends; with a consistent bundle, the state it leaves is sound;
- `StartFindsNoFile`: while a Start is in progress there is no file, so that what it
  writes names what it has started.

There is a lemma per kind of step: the requests of `PdfReports`
(`RequestKeepsIInv` collects what any of them may do), Start and Stop, Backup,
Restore. Assumptions: `PdfAssumption` and `BackupAssumption`.

`CalculationsProofs` has four parts.

- The settlement, for every score and every line in quarters: `SettlementIsTotal` (the
  two halves of a stake are never a win beside a loss: they lie half a goal apart and are
  even numbers of quarters, so that zero is one of them or they have one sign) and
  `SidesAreOpposite` (HOME at a line against AWAY at its opposite, OVER against UNDER:
  whatever one side wins the other loses, half for half).
- The engine, for every two distributions: `MainLinesAreFair` and `EngineAgrees`. A mass is
  a sum over scores, which the model takes from the folds of the community modules. The
  induction theorems of the library take an operator for the predicate, so induction is
  stated with sets instead (`NumbersFollow`, `FiniteSetsFollow`, both from a least
  number); by it a fold is defined (`FoldExists`), and a sum splits over disjoint sets
  (`TotalUnion`), over the values of a key (`TotalByKey`) and over a product
  (`TotalOfProducts`). From these: a distribution has natural weights
  (`DistributionIsNatural`), a matrix has the product of its totals (`MatrixIsWhole`), and a
  price is the mass of the scores that settle so (`PriceShares`): the cache that `_price`
  keeps by margin is faithful, since the key decides the settlement (`KeyDecides`).
  For the main line, `Better` is a strict order on prices that have odds (`BetterOrders`),
  which cross-multiplied ratios do not give for nothing; what the pass has found is better
  than every line before it (`Leads`, kept by `ScanLeads`), and a line beyond the catalogue
  has no odds, or has the odds of the last line in it and is longer
  (`BeyondTheCatalogue`). For the markets: the result is what handicaps of half a
  goal say (`ThreeWayIsOfScores`, `ShortHandicaps`), the totals are Asian totals
  (`TotalGoalsIsAsian`), and a quarter line is the mean of its neighbours, score by score
  (`SplitIsTheMean`). That a result belongs to one of the requests is `CanonicalPlaces`: the
  canonical order numbers them. The invariant `EngineRan` only says that the
  outcome kept is that of two distributions and a request of the model.
- Method One, for all series, weights and multipliers: `MethodOneIsEven`. Exchanging the
  sides is an involution on candidates (`MirrorCandidate`) that keeps their scope, so the
  nearest scope that has a multiplier decides the same on the other side; blends and
  errors follow line by line. The invariant is only that the outcome kept is that of
  the input kept.
- The samples, for every table of matches, every request and every sample size:
  `SelectionsAreShared`, `SelectorsAgree` and the action property `CalculationsLookBack`.
  A row of a query is numbered by how many matches of the selection are newer
  (`AheadNumbers`: these numbers are 0 up to the size, by counting), so that LIMIT finds
  exactly one match for each place (`LatestRows`). Two selectors that select the same
  matches therefore give the same rows, and the completed ones among the candidates of
  Method Three are the first of Method Two's (`CompletedAreNewest`). A write that is not
  of the past of a match leaves the order, the selection and the values of that past
  (`KeepsPast`), hence every row and every result. The inductive invariant `SamplesIInv` is
  the type of the table, that a request in progress is one of `Requests` with the part of its
  evidence it has read, and `PairsShareOneSelection` itself.

Assumptions: `FixturesAssumption` (fixtures are rows of the table without revisions, and no team has the name
that stands for every team), `RequestsAssumption` (a request comes in with nothing read),
`MethodOneAssumption` (series and candidates have the shape their contracts check) and
`EngineAssumption` (a scoring rate is not negative; a request has the code of a market, and
a line and a selection of that market).

`ConfigurationLedgerProofs` proves, for every number of requests, parameters,
matches and competitions and for every bound, `TypeCorrect`, `ChainsStayLinear`,
`EffectiveIsHead`, the action property `EffectiveOnlyAdvances` and
`LedgerImplementsChains`, i.e. `Spec => ChainsSpec`. The inductive invariant `IInv`:

- `Exclusion`: two requests past the advisory lock work on different chains;
- `IdsAreUnique`: a drawn identifier is on one row, committed or not;
- `ChainsAreOrdered`: in a chain the clock agrees with the identifiers, since it
  is read under the lock; the newest row is the head, and every other has been
  replaced. That a chain has a head is kept as an invariant, which a commit
  re-establishes with the row it adds, instead of being derived from finiteness;
- `Knows`: what a request has found under the lock of its chain is still the
  head when it commits, and its row is newer than the whole chain;
- `Linear`: the property, row by row.

`EffectiveIsHead` follows from it without the steps: the order of the selection
is by the clock, the clock agrees with the identifiers, the newest is the one row
nobody has replaced. `EffectiveOnlyAdvances` compares two states of `IInv`. For
`LedgerImplementsChains` the place of a row in the history that is shown is the number
of rows it is newer than; a row that is committed is newer than its whole chain
(`CommitAppends`), so it gets the last place and no other row moves. That every place
has its row is an invariant (`Counted`) instead of an induction over the chain.
Assumption: `ConfigurationAssumption`.

`StatisticRevisionsProofs` proves `ProjectionHolds`, `PreviousHolds`, `TypeCorrect` and
`ReadersStayInAgreement` for every
number of requests, matches, statistics and values. `RowLocks` says that the lock of
a row belongs to the one request that has updated it, and `Uncommitted` what a
request carries: what it read was in force (perhaps no longer), its revision names
that value, and the row it has updated is the committed one with its own column
changed. The last is what other commits could break, and the lock is why they do
not: the UPDATE takes the row after waiting for it. Nothing of the kind holds of
the value that was read, which is why `PreviousIsReplaced` fails. The second
invariant, `DatedIInv`, is about `created_at`: its order is asymmetric and relates only
transactions that began and were not rolled back (`Dates`), a commit gives its
transaction a name nobody has (`Identifiers`), and a statistic that was corrected has a
last revision (`LastRevisions`). If the corrections of a statistic committed as they
began, the revision that all others are before is therefore the last one, and no other
is: the statistics layer reads what `ProjectionHolds` says the wide row has. Assumption:
`StatisticsAssumption`.

`AdminAuthenticationProofs` proves, for every number of requests, sessions and
passwords, every `FailureLimit` and every duration, the type invariant, the three
safety invariants and the action property of the run. A transaction sees what is
committed and its own row versions, so the inductive invariant `IInv` says of every
kind of pending write how it relates to the committed rows:

- `CredentialIsLocked`: one request at a time is between the lock of the credential
  row and its commit;
- `NewRows`, `OwnSession`: the session a request has checked and every session it is
  about to write are live and locked by it, or new;
- `Counted`: what the counter and the lock of the credential say about the wrong
  passwords so far. Those of the current series are the last `failed` ones, all
  earlier ones are a lock away from them, and a running lock ends a lock after each.
  `OneMoreGuess` is the arithmetic of one more failure. A login that read the counter
  without the lock of the row would not preserve it (the mutant of
  `GuessesAreLimited`);
- `Swept`: the bulk UPDATE of a change or a reset still has every live session before
  it or holds an invalidated version of it, but for the request's own: a login would
  need the lock of the credential, which the request keeps. This gives
  `PasswordsEndTheirSessions` at the commit.

Assumptions: `DurationsAssumption` (limit and durations are positive) and
`NullAssumption` (the value standing for SQL's NULL is none of the others).

`PricingExecutionsProofs` proves, for every number of requests, targets and keys,
every pair of series and every size of the sample, the type invariant,
`ReproductionsNeverDisagree`, `CompleteSamplesArePriced` and
`ExecutionsImplementStore`, i.e. `Spec => StoreSpec`. The inductive invariant:

- `Fresh` and `Apart`: an identifier is drawn once, an uncommitted execution belongs
  to the call that made it, and of two inserted rows only one holds an entry of the
  unique index. Together they make a commit one `Create` of the store, and every
  answer to a repeated key one `Repeat`; without `Holding` in the INSERT exactly the
  step that proves `Apart` fails;
- `Recorded`: a completed execution is what its version of the engine makes of its
  stored input, which is all a reproduction reads. A fresh sample is not part of it;
- `Ripe`: a sample that was complete when the call arrived stays complete, since
  statistics are corrected and added but never deleted. `FirstIsFull` counts: the
  first n elements of a finite set that has n are n, by the bijection that gives
  each the number of those before it.

Assumption: `PricingAssumption`, in which a series names a match once.

`MatchRegistrationProofs` proves, for every number of requests, every set of files and
every draft, `BatchesAreAccounts`, `MatchesStayTraceable` and `ImportsAreIdempotent`. The
inductive invariant is a running account:

- `Importer` with `Accounted` and `Itemised`: the records, the matches and the counts an
  import has not committed agree about the lines it has passed, one record for each. A
  line makes at most one match, so counting matches, records or lines gives the same
  number, by a bijection (`ImageCounts`). At the last line the account is the batch;
- `Apart`: two transactions in progress write neither the same file nor the same match.
  It is what waiting for `Holders` before an INSERT is worth; without it exactly the
  step that inserts a match fails. `Distinct` says the same of a transaction and what is
  committed, so that a commit keeps keys unique;
- `Referring`: the references of a match are committed or the transaction's own, up to
  the step it is at;
- `Batches` and the last part of `Importer`: what has a file's records or matches has
  its batch, and nobody who writes a file finds its batch committed. A commit therefore
  adds nothing to a file that has its batch (`BatchIsKept`), which is the action property
  of `ImportsAreIdempotent`; `Answering` gives its second half.

The proof needed the empty file to be told from the one a match registered by hand would
have: `MatchesOf` has to leave those out, and the run has an empty file since.
Assumption: `RegistrationAssumption`.

Model-checked only: liveness. `RequestsEnd` and everything under fairness or with ENABLED is
beyond the proof system. Every other property of a passing run is a theorem.

## Not modelled

- Formatting and validation of requests and responses, canonical JSON, hashing
  of payloads, logging, correlation identifiers, cookies.
- The audit rows of the authentication: inserted in the transactions that are
  modelled, read by nothing.
- Floating point: rounding, the tolerance of the numeric policy and the count at
  which a Poisson tail ends. Weights and fractions are exact in the models. The
  Poisson table of Method Two.
- Read-only queries over committed rows, except the orders, resolutions and
  selections that properties are about; the pages of lists.
- The reading of CSV and XLSX cells. `read_source` refuses a file before
  anything is written.
- Market pricings and reference observations: one INSERT each, of what one
  request computed; nothing depends on their order.
- The operational configuration in a bundle, which is copied as the files are,
  and `Test-LvfiRecovery`, which restores into directories of its own. The
  pruning rule is in `BackupRetention` and its step in `LocalOperation`; no
  property is about it.
- The clock stepping back, and a guard that has passed while its session is
  invalidated: every business call has that window, and changes no session.
- The web application, the HTTP layer and the development scripts.

## Plan

1. *Done:* analysis workflow, authentication, configuration ledger, statistic
   corrections, executions and reproductions; registration of matches; PDF
   reports with the local scripts; samples, Methods One to Three and the pricing
   engine; proofs of the workflow, of the local operation, of the settlement, of
   the configuration ledger, of the statistic corrections, of the authentication,
   of the executions, of the registration, of the samples, of Method One and of the
   pricing engine.
2. Proofs: shorter ones, where a lemma serves several modules (counting by bijection,
   rows of a table in order), and retention as a function of the dates.
3. A reference definition of what retention keeps, with the dates of a year; the
   pages of the lists of executions.
