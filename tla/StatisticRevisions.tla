------------------------- MODULE StatisticRevisions -------------------------
(***************************************************************************)
(* Corrections of match statistics, persistence/operational_data.py: each  *)
(* one reads the value in force, appends a row to statistic_revisions with *)
(* the value it found, and updates the wide row of match_statistics, all   *)
(* in one READ COMMITTED transaction that locks nothing before the UPDATE. *)
(* Method One reads the wide row; the statistics layer, of                 *)
(* persistence/statistics.py, reads the newest revision by created_at, the *)
(* time at which its transaction began.                                    *)
(***************************************************************************)
EXTENDS Integers, Sequences, FiniteSets

CONSTANTS
  Request,        \* slots for POST requests in progress, one transaction each
  Match,          \* stored matches
  WithStatistics, \* those that have a row of match_statistics
  Field,          \* STATISTIC_FIELDS
  AtMost,         \* pairs <<f, g>> of the CHECK constraints f <= g
  Imported,       \* the values the import wrote
  Missing,        \* availability "missing": there is no new value
  MaxValue,       \* bound: values a client sends
  MaxRevision     \* bound: identifiers drawn for revisions

ASSUME StatisticsAssumption ==
  /\ WithStatistics \subseteq Match
  /\ AtMost \subseteq Field \X Field
  /\ Imported \in [WithStatistics -> [Field -> Nat]]
  /\ \A m \in WithStatistics : \A p \in AtMost : Imported[m][p[1]] <= Imported[m][p[2]]
  /\ Missing \notin Nat
  /\ Request \cap Nat = {}
  /\ MaxValue \in Nat
  /\ MaxRevision \in Nat

Revision == [id       : Nat,
             match    : WithStatistics,
             field    : Field,
             previous : Nat,
             new      : Nat \cup {Missing}]

Draft == [match : Match, field : Field, new : Nat \cup {Missing}]
NoDraft == [match |-> "none"]

VARIABLES
  projection, \* committed rows of match_statistics
  revisions,  \* committed rows of statistic_revisions, in the order of the commits
  sequence,   \* last identifier drawn
  before,     \* created_at: pairs of transactions, the first of which began before the
              \* second; a transaction is its request, and once it has committed the
              \* identifier of its revision
  rowLock,    \* the request that has updated each row and not committed, in a set
  pc,         \* where each request is
  draft,      \* the correction it asks for
  found,      \* the value it read, in a set
  inserted,   \* the row it inserted and has not committed, if any
  updated     \* the wide row as it updated it

vars == <<projection, revisions, sequence, before, rowLock, pc, draft, found, inserted, updated>>

NoRow == [f \in {} |-> 0]

Init ==
  /\ projection = Imported
  /\ revisions = <<>>
  /\ sequence = 0
  /\ before = {}
  /\ rowLock = [m \in WithStatistics |-> {}]
  /\ pc = [r \in Request |-> "idle"]
  /\ draft = [r \in Request |-> NoDraft]
  /\ found = [r \in Request |-> {}]
  /\ inserted = [r \in Request |-> {}]
  /\ updated = [r \in Request |-> NoRow]

Begin(r, d) ==
  /\ pc[r] = "idle"
  /\ sequence + Cardinality({q \in Request : pc[q] \in {"begun", "found"}}) < MaxRevision
  /\ pc' = [pc EXCEPT ![r] = "begun"]
  /\ draft' = [draft EXCEPT ![r] = d]
  /\ UNCHANGED <<projection, revisions, sequence, before, rowLock, found, inserted, updated>>

\* The end of Database.session().
Finish(r) ==
  /\ pc' = [pc EXCEPT ![r] = "idle"]
  /\ draft' = [draft EXCEPT ![r] = NoDraft]
  /\ found' = [found EXCEPT ![r] = {}]
  /\ inserted' = [inserted EXCEPT ![r] = {}]
  /\ updated' = [updated EXCEPT ![r] = NoRow]
  /\ rowLock' = [m \in WithStatistics |-> rowLock[m] \ {r}]

\* The match has no statistics: None, 404.
NotFound(r) ==
  /\ pc[r] = "begun"
  /\ draft[r].match \notin WithStatistics
  /\ Finish(r)
  /\ UNCHANGED <<projection, revisions, sequence, before>>

\* The transactions that have begun and were not rolled back.
Started ==
  {q \in Request : pc[q] \in {"found", "inserted", "written"}}
  \cup {revisions[i].id : i \in 1..Len(revisions)}

\* The first statement begins the transaction.
ReadPrevious(r) ==
  /\ pc[r] = "begun"
  /\ draft[r].match \in WithStatistics
  /\ found' = [found EXCEPT ![r] = {projection[draft[r].match][draft[r].field]}]
  /\ before' = before \cup (Started \X {r})
  /\ pc' = [pc EXCEPT ![r] = "found"]
  /\ UNCHANGED <<projection, revisions, sequence, rowLock, draft, inserted, updated>>

\* Mutant: the value is read after the new one has been put in its place.
InsertRevisionAfterwards(r) ==
  /\ pc[r] = "found"
  /\ sequence' = sequence + 1
  /\ \E previous \in found[r] :
       inserted' = [inserted EXCEPT ![r] =
         {[id |-> sequence + 1, match |-> draft[r].match, field |-> draft[r].field,
           previous |-> IF draft[r].new = Missing THEN previous ELSE draft[r].new,
           new |-> draft[r].new]}]
  /\ pc' = [pc EXCEPT ![r] = IF draft[r].new = Missing THEN "written" ELSE "inserted"]
  /\ UNCHANGED <<projection, revisions, before, rowLock, draft, found, updated>>

\* Only an available value goes on to the UPDATE.
InsertRevision(r) ==
  /\ pc[r] = "found"
  /\ sequence' = sequence + 1
  /\ \E previous \in found[r] :
       inserted' = [inserted EXCEPT ![r] =
         {[id |-> sequence + 1, match |-> draft[r].match, field |-> draft[r].field,
           previous |-> previous, new |-> draft[r].new]}]
  /\ pc' = [pc EXCEPT ![r] = IF draft[r].new = Missing THEN "written" ELSE "inserted"]
  /\ UNCHANGED <<projection, revisions, before, rowLock, draft, found, updated>>

Satisfies(row) == \A p \in AtMost : row[p[1]] <= row[p[2]]

Corrected(r) == [projection[draft[r].match] EXCEPT ![draft[r].field] = draft[r].new]

\* Mutant: the UPDATE does not wait for the row.
UpdateAnyway(r) ==
  /\ pc[r] = "inserted"
  /\ Satisfies(Corrected(r))
  /\ rowLock' = [rowLock EXCEPT ![draft[r].match] = @ \cup {r}]
  /\ updated' = [updated EXCEPT ![r] = Corrected(r)]
  /\ pc' = [pc EXCEPT ![r] = "written"]
  /\ UNCHANGED <<projection, revisions, sequence, before, draft, found, inserted>>

\* Mutant: the UPDATE applies only to a row that still has the value that was read.
UpdateIfUnchanged(r) ==
  /\ pc[r] = "inserted"
  /\ rowLock[draft[r].match] = {}
  /\ Satisfies(Corrected(r))
  /\ rowLock' = [rowLock EXCEPT ![draft[r].match] = {r}]
  /\ updated' = [updated EXCEPT ![r] =
       IF projection[draft[r].match][draft[r].field] \in found[r] THEN Corrected(r)
       ELSE projection[draft[r].match]]
  /\ pc' = [pc EXCEPT ![r] = "written"]
  /\ UNCHANGED <<projection, revisions, sequence, before, draft, found, inserted>>

\* The UPDATE waits for the row, takes it as it is then and checks the constraints.
Update(r) ==
  /\ pc[r] = "inserted"
  /\ rowLock[draft[r].match] = {}
  /\ Satisfies(Corrected(r))
  /\ rowLock' = [rowLock EXCEPT ![draft[r].match] = {r}]
  /\ updated' = [updated EXCEPT ![r] = Corrected(r)]
  /\ pc' = [pc EXCEPT ![r] = "written"]
  /\ UNCHANGED <<projection, revisions, sequence, before, draft, found, inserted>>

\* A transaction that is rolled back leaves no created_at.
Without(r) == {p \in before : r \notin {p[1], p[2]}}

\* IntegrityError: the revision goes with the transaction (503).
Violate(r) ==
  /\ pc[r] = "inserted"
  /\ rowLock[draft[r].match] = {}
  /\ ~Satisfies(Corrected(r))
  /\ Finish(r)
  /\ before' = Without(r)
  /\ UNCHANGED <<projection, revisions, sequence>>

\* The created_at of a transaction is that of its revision.
Renamed(r, id) ==
  LET New(t) == IF t = r THEN id ELSE t
  IN {<<New(p[1]), New(p[2])>> : p \in before}

\* The end of Database.session(): revision and wide row show at once.
Commit(r) ==
  /\ pc[r] = "written"
  /\ \E row \in inserted[r] :
       /\ revisions' = Append(revisions, row)
       /\ before' = Renamed(r, row.id)
  /\ projection' = IF updated[r] = NoRow THEN projection
                   ELSE [projection EXCEPT ![draft[r].match] = updated[r]]
  /\ Finish(r)
  /\ UNCHANGED sequence

\* SQLAlchemyError, a lost connection or a crash; the identifier is not given back.
Abort(r) ==
  /\ pc[r] # "idle"
  /\ Finish(r)
  /\ before' = Without(r)
  /\ UNCHANGED <<projection, revisions, sequence>>

\* The revisions of a statistic, missing values included, by place in revisions.
Revisions(m, f) ==
  {i \in 1..Len(revisions) : revisions[i].match = m /\ revisions[i].field = f}

\* The order of two revisions by created_at.
CreatedBefore(i, j) == <<revisions[i].id, revisions[j].id>> \in before

\* Mutant: the newest revision is the one with the highest identifier.
NewestById(m, f) ==
  CHOOSE i \in Revisions(m, f) : \A j \in Revisions(m, f) : revisions[j].id <= revisions[i].id

\* Rank 1 by created_at.
Newest(m, f) ==
  CHOOSE i \in Revisions(m, f) : \A j \in Revisions(m, f) : j = i \/ CreatedBefore(j, i)

\* The value the statistics layer reads, Missing if it is unavailable.
SampleValue(m, f) ==
  IF Revisions(m, f) = {} THEN projection[m][f] ELSE revisions[Newest(m, f)].new

\* No request in progress; the bounds may leave nothing else to do.
Quiescent == (\A r \in Request : pc[r] = "idle") /\ UNCHANGED vars

Drafts == [match : Match, field : Field, new : 0..MaxValue \cup {Missing}]

Next ==
  \/ \E r \in Request, d \in Drafts : Begin(r, d)
  \/ \E r \in Request : NotFound(r)
  \/ \E r \in Request : ReadPrevious(r)
  \/ \E r \in Request : InsertRevision(r)
  \/ \E r \in Request : Update(r)
  \/ \E r \in Request : Violate(r)
  \/ \E r \in Request : Commit(r)
  \/ \E r \in Request : Abort(r)
  \/ Quiescent

Spec == Init /\ [][Next]_vars

-----------------------------------------------------------------------------
(* Properties. *)

TypeOK ==
  /\ projection \in [WithStatistics -> [Field -> Nat]]
  /\ revisions \in Seq(Revision)
  /\ sequence \in Nat
  /\ before \in SUBSET ((Request \cup Nat) \X (Request \cup Nat))
  /\ rowLock \in [WithStatistics -> {{}} \cup {{r} : r \in Request}]
  /\ pc \in [Request -> {"idle", "begun", "found", "inserted", "written"}]
  /\ draft \in [Request -> Draft \cup {NoDraft}]
  /\ found \in [Request -> SUBSET Nat]
  /\ inserted \in [Request -> SUBSET Revision]
  /\ updated \in [Request -> [Field -> Nat] \cup {NoRow}]

\* The corrections of a statistic that carry a value, by place in revisions.
Corrections(m, f) ==
  {i \in 1..Len(revisions) :
     revisions[i].match = m /\ revisions[i].field = f /\ revisions[i].new # Missing}

\* The wide row that Method One reads holds, for every statistic, the correction that
\* committed last, or what was imported if there is none: no correction is lost, nor
\* undone by a correction of another column, and none shows without its revision.
ProjectionIsLastCorrection ==
  \A m \in WithStatistics, f \in Field :
    IF Corrections(m, f) = {} THEN projection[m][f] = Imported[m][f]
    ELSE \E i \in Corrections(m, f) :
           /\ \A j \in Corrections(m, f) : j <= i
           /\ projection[m][f] = revisions[i].new

\* A revision never names a previous value that was not in force before it: the one
\* imported, or the one of a correction that had committed.
PreviousWasInForce ==
  \A i \in 1..Len(revisions) :
    LET m == revisions[i].match
        f == revisions[i].field
    IN \/ revisions[i].previous = Imported[m][f]
       \/ \E j \in Corrections(m, f) : j < i /\ revisions[j].new = revisions[i].previous

\* The two readers of a statistic agree: as long as its corrections committed in the
\* order in which they began, the statistics layer reads the value of the wide row, or
\* knows that the last correction declared it missing.  Two corrections that committed
\* in the other order leave the readers with different values until the next one.
ReadersAgree ==
  \A m \in WithStatistics, f \in Field :
    (\A i, j \in Revisions(m, f) : i < j => CreatedBefore(i, j)) =>
      \/ SampleValue(m, f) = projection[m][f]
      \/ /\ SampleValue(m, f) = Missing
         /\ \E i \in Revisions(m, f) : /\ \A j \in Revisions(m, f) : j <= i
                                      /\ revisions[i].new = Missing

\* A revision names the value it replaced, the one in force when it committed.  It does
\* not hold: two corrections of one statistic both read the value before either of
\* them, and the second names a value it did not replace.
PreviousIsReplaced ==
  \A i \in 1..Len(revisions) :
    LET m     == revisions[i].match
        f     == revisions[i].field
        prior == {j \in Corrections(m, f) : j < i}
    IN IF prior = {} THEN revisions[i].previous = Imported[m][f]
       ELSE \E j \in prior : /\ \A k \in prior : k <= j
                             /\ revisions[i].previous = revisions[j].new
=============================================================================
