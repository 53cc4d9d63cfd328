------------------------- MODULE MatchRegistration --------------------------
(***************************************************************************)
(* How matches enter the database: one by one, by create_future_match of   *)
(* persistence/operational_data.py, and by files, by HistoricalImporter of *)
(* historical_import.py.  Each request is one READ COMMITTED transaction   *)
(* that looks a row up by its unique key and inserts it if it finds none.  *)
(* An INSERT waits for the transaction that inserted the same key and has  *)
(* not ended, and fails if that one commits.                               *)
(***************************************************************************)
EXTENDS Integers, Sequences, FiniteSets

CONSTANTS
  Request,   \* slots for requests in progress, one transaction each
  Text,      \* names as they are written
  Normal,    \* normalized_key: names that differ in case or blanks have one key
  Label,     \* season labels
  Day,       \* dates
  Field,     \* STATISTIC_FIELDS
  AtMost,    \* pairs <<f, g>> of fields with f <= g
  File,      \* uploads, as sequences of raw rows; equal bytes are one file
  Draft,     \* matches a client registers
  Invalid    \* a cell without a date, a text or an integer

RawRow == [day : Day \cup {Invalid}, competition : Text \cup {Invalid},
           season : Label \cup {Invalid}, home : Text \cup {Invalid},
           away : Text \cup {Invalid}, statistics : [Field -> Int \cup {Invalid}]]

DraftMatch == [day : Day, competition : Text, season : Label, home : Text, away : Text]

ASSUME RegistrationAssumption ==
  /\ Invalid \notin Day \cup Text \cup Label \cup Int
  /\ DOMAIN Normal = Text
  /\ AtMost \subseteq Field \X Field
  /\ File \subseteq Seq(RawRow)
  /\ Draft \subseteq DraftMatch
  /\ \A d \in Draft : Normal[d.home] # Normal[d.away]

-----------------------------------------------------------------------------
(* Parsing. *)

\* The codes of the issues of normalize_row.  The statistics are compared with each
\* other only when every one of them is an integer that is not negative.
Issues(row) ==
  LET numbers == {f \in Field : row.statistics[f] # Invalid}
      negative == {f \in numbers : row.statistics[f] < 0}
  IN
  (IF row.day = Invalid THEN {"invalid_date"} ELSE {})
  \cup (IF Invalid \in {row.competition, row.season, row.home, row.away}
        THEN {"required_text"} ELSE {})
  \cup (IF numbers # Field THEN {"invalid_integer"} ELSE {})
  \cup (IF negative # {} THEN {"negative_statistic"} ELSE {})
  \cup (IF row.home # Invalid /\ row.away # Invalid /\ Normal[row.home] = Normal[row.away]
        THEN {"same_teams"} ELSE {})
  \cup (IF /\ numbers = Field /\ negative = {}
           /\ \E p \in AtMost : row.statistics[p[1]] > row.statistics[p[2]]
        THEN {"exceeds"} ELSE {})

Accepted(row) == Issues(row) = {}

\* The natural key of a match, from a draft or an accepted row.
MatchKey(d) == [competition |-> Normal[d.competition], season |-> d.season,
                day |-> d.day, home |-> Normal[d.home], away |-> Normal[d.away]]

\* The rows a match refers to, in the order in which they are looked up.
References(key) ==
  << <<"competition", key.competition>>, <<"season", key.competition, key.season>>,
     <<"team", key.home>>, <<"team", key.away>> >>

AcceptedLines(file) == {i \in 1..Len(file) : Accepted(file[i])}

-----------------------------------------------------------------------------
NoStatistics == [f \in {} |-> 0]
Manual == [file |-> <<>>, line |-> 0]
NoJob == [kind |-> "none"]
NoSummary == [total |-> 0, accepted |-> 0, rejected |-> 0]
Empty == [keys |-> {}, matches |-> {}, records |-> {}]

VARIABLES
  keys,    \* committed unique keys of competitions, seasons and teams
  matches, \* committed matches: key, source and statistics
  batches, \* committed import batches, with their counts and status
  records, \* committed source records
  pc,      \* where each request is
  job,     \* what it does
  line,    \* the row of its file it is at
  step,    \* the reference of the match it is at
  own,     \* the rows it has inserted and not committed
  summary  \* what it answers, for a file

stored == <<keys, matches, batches, records>>
vars == <<stored, pc, job, line, step, own, summary>>

Init ==
  /\ keys = {} /\ matches = {} /\ batches = {} /\ records = {}
  /\ pc = [r \in Request |-> "idle"]
  /\ job = [r \in Request |-> NoJob]
  /\ line = [r \in Request |-> 0]
  /\ step = [r \in Request |-> 0]
  /\ own = [r \in Request |-> Empty]
  /\ summary = [r \in Request |-> NoSummary]

Importing(r) == job[r].kind = "import"

\* The match a request is at.
Key(r) == MatchKey(IF Importing(r) THEN job[r].file[line[r]] ELSE job[r].draft)

Reference(r) == References(Key(r))[step[r]]

Begin(r, j, label) ==
  /\ pc[r] = "idle"
  /\ pc' = [pc EXCEPT ![r] = label]
  /\ job' = [job EXCEPT ![r] = j]
  /\ UNCHANGED <<stored, line, own>>

BeginCreate(r, d) ==
  /\ Begin(r, [kind |-> "create", draft |-> d], "select")
  /\ step' = [step EXCEPT ![r] = 1]
  /\ UNCHANGED summary

\* The counts of the parse; a preview answers with them and reads no table.
Parsed(file) == [total |-> Len(file), accepted |-> Cardinality(AcceptedLines(file)),
                 rejected |-> Len(file) - Cardinality(AcceptedLines(file))]

BeginImport(r, file, dry) ==
  /\ Begin(r, [kind |-> IF dry THEN "preview" ELSE "import", file |-> file],
           IF dry THEN "answered" ELSE "batch")
  /\ summary' = [summary EXCEPT ![r] = IF dry THEN Parsed(file) ELSE NoSummary]
  /\ UNCHANGED step

\* Mutant: what the transaction has inserted stays.
FinishWithoutRollback(r) ==
  /\ pc' = [pc EXCEPT ![r] = "idle"]
  /\ job' = [job EXCEPT ![r] = NoJob]
  /\ line' = [line EXCEPT ![r] = 0]
  /\ step' = [step EXCEPT ![r] = 0]
  /\ own' = own
  /\ summary' = [summary EXCEPT ![r] = NoSummary]

\* The end of the request, with its transaction rolled back if it is open.
Finish(r) ==
  /\ pc' = [pc EXCEPT ![r] = "idle"]
  /\ job' = [job EXCEPT ![r] = NoJob]
  /\ line' = [line EXCEPT ![r] = 0]
  /\ step' = [step EXCEPT ![r] = 0]
  /\ own' = [own EXCEPT ![r] = Empty]
  /\ summary' = [summary EXCEPT ![r] = NoSummary]

Fail(r) == Finish(r) /\ UNCHANGED stored

Goto(r, label) == pc' = [pc EXCEPT ![r] = label]

\* A batch of the same hash and sheet: the counts of the parse are the answer.
SelectBatch(r) ==
  /\ pc[r] = "batch"
  /\ IF \E b \in batches : b.file = job[r].file
     THEN Goto(r, "answered") /\ summary' = [summary EXCEPT ![r] = Parsed(job[r].file)]
     ELSE Goto(r, "insertBatch") /\ UNCHANGED summary
  /\ UNCHANGED <<stored, job, line, step, own>>

\* The transactions that hold a key of r's next INSERT.
Holders(r) ==
  {q \in Request \ {r} :
     CASE pc[r] = "insertBatch" -> Importing(q) /\ job[q].file = job[r].file
                                   /\ pc[q] \notin {"batch", "insertBatch", "answered"}
       [] pc[r] = "insert"      -> Reference(r) \in own[q].keys
       [] pc[r] = "insertMatch" -> \E m \in own[q].matches : m.key = Key(r)
       [] OTHER                 -> FALSE}

\* The next row of the file, or the end of it.
NextLine(r) ==
  IF line[r] < Len(job[r].file)
  THEN Goto(r, "record") /\ line' = [line EXCEPT ![r] = @ + 1] /\ step' = [step EXCEPT ![r] = 1]
  ELSE Goto(r, "written") /\ UNCHANGED <<line, step>>

\* Mutant: the hash and the sheet are not unique.
InsertBatchAnyway(r) ==
  /\ pc[r] = "insertBatch"
  /\ NextLine(r)
  /\ UNCHANGED <<stored, job, own, summary>>

InsertBatch(r) ==
  /\ pc[r] = "insertBatch"
  /\ Holders(r) = {}
  /\ IF \E b \in batches : b.file = job[r].file
     THEN Fail(r)
     ELSE NextLine(r) /\ UNCHANGED <<stored, job, own, summary>>

Count(r, field) == summary' = [summary EXCEPT ![r][field] = @ + 1, ![r].total = @ + 1]

\* The source record and, for a rejected row, its issues.
InsertRecord(r) ==
  LET row == job[r].file[line[r]] IN
  /\ pc[r] = "record"
  /\ own' = [own EXCEPT ![r].records = @ \cup
       {[file |-> job[r].file, line |-> line[r], issues |-> Issues(row),
         status |-> IF Accepted(row) THEN "accepted" ELSE "rejected"]}]
  /\ IF Accepted(row)
     THEN Goto(r, "select") /\ UNCHANGED <<line, step, summary>>
     ELSE NextLine(r) /\ Count(r, "rejected")
  /\ UNCHANGED <<stored, job>>

\* The next reference, or the match.
NextReference(r) ==
  IF step[r] < Len(References(Key(r)))
  THEN Goto(r, "select") /\ step' = [step EXCEPT ![r] = @ + 1]
  ELSE Goto(r, "selectMatch") /\ UNCHANGED step

\* _id_for, _reference_id, _season_id: a row that is there is taken.
Select(r) ==
  /\ pc[r] = "select"
  /\ IF Reference(r) \in keys \cup own[r].keys THEN NextReference(r)
     ELSE Goto(r, "insert") /\ UNCHANGED step
  /\ UNCHANGED <<stored, job, line, own, summary>>

Insert(r) ==
  /\ pc[r] = "insert"
  /\ Holders(r) = {}
  /\ IF Reference(r) \in keys THEN Fail(r)
     ELSE /\ own' = [own EXCEPT ![r].keys = @ \cup {Reference(r)}]
          /\ NextReference(r)
          /\ UNCHANGED <<stored, job, line, summary>>

Stored(r) == \E m \in matches \cup own[r].matches : m.key = Key(r)

\* A row whose match exists is a conflict; a client is told so, and nothing is merged.
SelectMatch(r) ==
  /\ pc[r] = "selectMatch"
  /\ \/ /\ ~Stored(r)
        /\ Goto(r, "insertMatch")
        /\ UNCHANGED <<line, step, own, summary>>
     \/ /\ Stored(r) /\ ~Importing(r)
        /\ Goto(r, "written")
        /\ UNCHANGED <<line, step, own, summary>>
     \/ /\ Stored(r) /\ Importing(r)
        /\ own' = [own EXCEPT ![r].records =
             {IF s.line = line[r]
              THEN [s EXCEPT !.status = "conflict", !.issues = {"canonical_match_conflict"}]
              ELSE s : s \in @}]
        /\ Count(r, "rejected")
        /\ NextLine(r)
  /\ UNCHANGED <<stored, job>>

NewMatch(r) ==
  IF Importing(r)
  THEN [key |-> Key(r), source |-> [file |-> job[r].file, line |-> line[r]],
        statistics |-> job[r].file[line[r]].statistics]
  ELSE [key |-> Key(r), source |-> Manual, statistics |-> NoStatistics]

\* Mutant: the natural key is not unique.
InsertMatchAnyway(r) ==
  /\ pc[r] = "insertMatch"
  /\ own' = [own EXCEPT ![r].matches = @ \cup {NewMatch(r)}]
  /\ IF Importing(r)
     THEN NextLine(r) /\ Count(r, "accepted")
     ELSE Goto(r, "written") /\ UNCHANGED <<line, step, summary>>
  /\ UNCHANGED <<stored, job>>

InsertMatch(r) ==
  /\ pc[r] = "insertMatch"
  /\ Holders(r) = {}
  /\ IF \E m \in matches : m.key = Key(r) THEN Fail(r)
     ELSE /\ own' = [own EXCEPT ![r].matches = @ \cup {NewMatch(r)}]
          /\ IF Importing(r)
             THEN NextLine(r) /\ Count(r, "accepted")
             ELSE Goto(r, "written") /\ UNCHANGED <<line, step, summary>>
          /\ UNCHANGED <<stored, job>>

\* Mutant: the batch gets the counts of the parse.
BatchOfTheParse(r) ==
  [file |-> job[r].file, counts |-> Parsed(job[r].file),
   status |-> IF summary[r].rejected = 0 THEN "completed" ELSE "completed_with_rejections"]

Batch(r) ==
  [file |-> job[r].file, counts |-> summary[r],
   status |-> IF summary[r].rejected = 0 THEN "completed" ELSE "completed_with_rejections"]

\* The batch gets its counts and status, and the transaction commits.
Commit(r) ==
  /\ pc[r] = "written"
  /\ keys' = keys \cup own[r].keys
  /\ matches' = matches \cup own[r].matches
  /\ records' = records \cup own[r].records
  /\ batches' = IF Importing(r) THEN batches \cup {Batch(r)} ELSE batches
  /\ own' = [own EXCEPT ![r] = Empty]
  /\ Goto(r, "answered")
  /\ UNCHANGED <<job, line, step, summary>>

Answer(r) ==
  /\ pc[r] = "answered"
  /\ Fail(r)

\* A lost connection, or a crash.
Abort(r) ==
  /\ pc[r] # "idle"
  /\ Fail(r)

\* PostgreSQL ends one of the transactions that wait for each other.
BreakDeadlock(r) ==
  /\ \E Q \in SUBSET Request :
       r \in Q /\ \A q \in Q : Holders(q) # {} /\ Holders(q) \subseteq Q
  /\ Fail(r)

Step(r) ==
  \/ SelectBatch(r)
  \/ InsertBatch(r)
  \/ InsertRecord(r)
  \/ Select(r)
  \/ Insert(r)
  \/ SelectMatch(r)
  \/ InsertMatch(r)
  \/ Commit(r)
  \/ Answer(r)
  \/ BreakDeadlock(r)

Next ==
  \/ \E r \in Request, d \in Draft : BeginCreate(r, d)
  \/ \E r \in Request, f \in File, dry \in BOOLEAN : BeginImport(r, f, dry)
  \/ \E r \in Request : Step(r)
  \/ \E r \in Request : Abort(r)

\* The event loop and the database get to every request, and PostgreSQL finds deadlocks.
\* An INSERT that waits is woken when its holder ends, before a request that comes later
\* has got as far as to insert the same key: it is not put off for ever.
Spec ==
  /\ Init /\ [][Next]_vars
  /\ \A r \in Request : /\ WF_vars(Step(r))
                        /\ SF_vars(InsertBatch(r))
                        /\ SF_vars(Insert(r))
                        /\ SF_vars(InsertMatch(r))

-----------------------------------------------------------------------------
(* Properties. *)

RecordsOf(file, status) == {s \in records : s.file = file /\ s.status = status}
MatchesOf(file) == {m \in matches : m.source # Manual /\ m.source.file = file}

\* A file has one batch, which counts every line once: as accepted those that made a
\* match, and no other; as rejected those with issues and those that met a match that
\* was there, by hand, from another file or from an earlier line of the same file.
BatchAccountsForItsRows ==
  \A b \in batches :
    /\ \A c \in batches : c.file = b.file => c = b
    /\ b.counts.total = Len(b.file)
    /\ b.counts.total = b.counts.accepted + b.counts.rejected
    /\ b.counts.accepted = Cardinality(RecordsOf(b.file, "accepted"))
    /\ b.counts.accepted = Cardinality(MatchesOf(b.file))
    /\ {s.line : s \in RecordsOf(b.file, "rejected")} = (1..Len(b.file)) \ AcceptedLines(b.file)
    /\ \A s \in RecordsOf(b.file, "conflict") :
         \E m \in matches : m.key = MatchKey(b.file[s.line])
                            /\ m.source # [file |-> b.file, line |-> s.line]

\* A match is stored once, with all its references; it has statistics exactly if a
\* committed source record that was accepted gave them, so that a match registered by
\* hand has none, and none is overwritten by a later file.
MatchesAreTraceable ==
  \A m \in matches :
    /\ \A n \in matches : n.key = m.key => n = m
    /\ \A i \in DOMAIN References(m.key) : References(m.key)[i] \in keys
    /\ IF m.source = Manual THEN m.statistics = NoStatistics
       ELSE /\ \E s \in RecordsOf(m.source.file, "accepted") : s.line = m.source.line
            /\ m.key = MatchKey(m.source.file[m.source.line])
            /\ m.statistics = m.source.file[m.source.line].statistics

\* A file whose batch is committed is never imported again: whatever confirmed imports
\* of it were begun before or are sent again after, alone or at once, its batch stays as
\* it is, and no source record and no match of the file is added, changed or removed.  A
\* confirmed import is answered only when the batch of its file is committed.
ImportIsIdempotent ==
  [][/\ \A b \in batches :
          /\ b \in batches'
          /\ {s \in records' : s.file = b.file} = {s \in records : s.file = b.file}
          /\ MatchesOf(b.file)' = MatchesOf(b.file)
     /\ \A r \in Request : pc[r] # "answered" /\ pc'[r] = "answered" /\ Importing(r)' =>
          \E b \in batches' : b.file = job'[r].file]_vars

\* Every request ends: one that waits for a row of another gets it, fails on it, or is
\* ended by the deadlock detector, whatever the order of the names in the files.
RequestsEnd == \A r \in Request : pc[r] # "idle" ~> pc[r] = "idle"
=============================================================================
