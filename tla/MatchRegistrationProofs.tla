----------------------- MODULE MatchRegistrationProofs -----------------------
(***************************************************************************)
(* Proofs about MatchRegistration, for every number of requests, every set *)
(* of files and every draft.  The invariant is a running account: the      *)
(* records, the matches and the counts of an import agree on the lines it  *)
(* has passed, and nobody else can commit its file or its matches.         *)
(***************************************************************************)
EXTENDS MatchRegistration, FiniteSetTheorems, TLAPS

\* Where a request has passed its first INSERT, or has a match in hand.
AtMatch == {"select", "insert", "selectMatch", "insertMatch"}
Writing == {"record", "written"} \cup AtMatch

ImportJob == [kind : {"import"}, file : File]
PreviewJob == [kind : {"preview"}, file : File]
CreateJob == [kind : {"create"}, draft : Draft]
Jobs == ImportJob \cup PreviewJob \cup CreateJob
Counts == [total : Nat, accepted : Nat, rejected : Nat]

Typed ==
  /\ pc \in [Request -> Writing \cup {"idle", "batch", "insertBatch", "answered"}]
  /\ job \in [Request -> Jobs \cup {NoJob}]
  /\ line \in [Request -> Nat]
  /\ step \in [Request -> Nat]
  /\ DOMAIN own = Request
  /\ \A r \in Request : DOMAIN own[r] = {"keys", "matches", "records"}
  /\ summary \in [Request -> Counts]

\* The record and the match that line i of file f makes.
RecordAt(f, i, status) ==
  [file |-> f, line |-> i,
   issues |-> IF status = "conflict" THEN {"canonical_match_conflict"} ELSE Issues(f[i]),
   status |-> status]

MatchAt(f, i) ==
  [key |-> MatchKey(f[i]), source |-> [file |-> f, line |-> i],
   statistics |-> f[i].statistics]

Lines(S, status) == {s.line : s \in {t \in S : t.status = status}}

\* The records S are one for each of the first n lines of f.
Itemised(f, n, S) ==
  /\ \A s \in S : /\ s.line \in 1..n
                  /\ s.status \in {"accepted", "rejected", "conflict"}
                  /\ s = RecordAt(f, s.line, s.status)
  /\ \A s, t \in S : s.line = t.line => s = t
  /\ \A i \in 1..n : \E s \in S : s.line = i

\* The records S, the matches M and the counts c account for the first n lines of f.
Accounted(f, n, S, M, c) ==
  /\ Itemised(f, n, S)
  /\ Lines(S, "rejected") = (1..n) \ AcceptedLines(f)
  /\ \A m \in M : m.source.line \in 1..n /\ m = MatchAt(f, m.source.line)
  /\ {m.source.line : m \in M} = Lines(S, "accepted")
  /\ c.total = n
  /\ c.accepted = Cardinality(Lines(S, "accepted"))
  /\ c.rejected = n - Cardinality(Lines(S, "accepted"))

\* A line in conflict met another match.
Conflicting(f, S, M) ==
  \A s \in S : s.status = "conflict" =>
    \E m \in M : m.key = MatchKey(f[s.line]) /\ m.source # [file |-> f, line |-> s.line]

\* The lines an import has passed, and their records.
Passed(r) == IF pc[r] = "written" THEN line[r] ELSE line[r] - 1
Settled(r) == {s \in own[r].records : s.line <= Passed(r)}

Importer(r) ==
  Importing(r) /\ pc[r] \in Writing =>
    /\ line[r] \in 0..Len(job[r].file)
    /\ pc[r] = "written" => line[r] = Len(job[r].file)
    /\ pc[r] # "written" => line[r] >= 1
    /\ Accounted(job[r].file, Passed(r), Settled(r), own[r].matches, summary[r])
    /\ Conflicting(job[r].file, own[r].records, matches \cup own[r].matches)
    /\ pc[r] \in AtMatch =>
         /\ line[r] \in AcceptedLines(job[r].file)
         /\ own[r].records =
              Settled(r) \cup {RecordAt(job[r].file, line[r], "accepted")}
    /\ pc[r] \notin AtMatch => own[r].records = Settled(r)
    /\ \A b \in batches : b.file # job[r].file

Creator(r) ==
  pc[r] \in Writing /\ ~Importing(r) =>
    /\ job[r] \in CreateJob
    /\ pc[r] # "record"
    /\ own[r].records = {}
    /\ \A m \in own[r].matches : m.source = Manual /\ m.statistics = NoStatistics

\* Outside of its transaction a request has inserted nothing.
Resting(r) ==
  /\ pc[r] \notin Writing => own[r] = Empty
  /\ pc[r] = "idle" => line[r] = 0 /\ summary[r] = NoSummary
  /\ pc[r] \in {"batch", "insertBatch"} =>
       Importing(r) /\ line[r] = 0 /\ summary[r] = NoSummary
  /\ pc[r] # "idle" => job[r] \in Jobs

\* The references of the match in hand are there up to the step it is at.
Referring(r) ==
  /\ pc[r] = "record" => step[r] = 1
  /\ pc[r] \in {"select", "insert"} => step[r] \in 1..4
  /\ pc[r] \in AtMatch =>
       \A j \in 1..4 : pc[r] \in {"selectMatch", "insertMatch"} \/ j < step[r] =>
         References(Key(r))[j] \in keys \cup own[r].keys
  /\ \A m \in own[r].matches : \A j \in 1..4 :
       References(m.key)[j] \in keys \cup own[r].keys

\* Its matches have keys of their own.
Distinct(r) ==
  /\ \A m, n \in own[r].matches : m.key = n.key => m = n
  /\ \A m \in own[r].matches, n \in matches : m.key # n.key
  /\ pc[r] = "insertMatch" => \A m \in own[r].matches : m.key # Key(r)

\* A confirmed import is answered when its file has a batch.
Answering(r) ==
  pc[r] = "answered" /\ Importing(r) => \E b \in batches : b.file = job[r].file

Mine(r) ==
  Importer(r) /\ Creator(r) /\ Resting(r) /\ Referring(r) /\ Distinct(r) /\ Answering(r)

\* Two transactions write neither one file nor one match.
Apart(q, r) ==
  /\ Importing(q) /\ Importing(r) /\ pc[q] \in Writing /\ pc[r] \in Writing =>
       job[q].file # job[r].file
  /\ \A m \in own[q].matches, n \in own[r].matches : m.key # n.key

AllRecords(f) == {s \in records : s.file = f}

Batches ==
  /\ \A b \in batches :
       /\ b.file \in File
       /\ \A c \in batches : c.file = b.file => c = b
       /\ Accounted(b.file, Len(b.file), AllRecords(b.file), MatchesOf(b.file), b.counts)
       /\ Conflicting(b.file, AllRecords(b.file), matches)
  /\ \A s \in records : \E b \in batches : b.file = s.file
  /\ \A m \in matches : m.source # Manual => \E b \in batches : b.file = m.source.file

Matches ==
  \A m \in matches :
    /\ \A n \in matches : n.key = m.key => n = m
    /\ \A j \in 1..4 : References(m.key)[j] \in keys
    /\ m.source = Manual => m.statistics = NoStatistics

IInv ==
  /\ Typed
  /\ \A r \in Request : Mine(r)
  /\ \A q, r \in Request : q # r => Apart(q, r)
  /\ Batches
  /\ Matches

-----------------------------------------------------------------------------
(* Accounts. *)

LEMMA FourReferences ==
  ASSUME NEW key
  PROVE  Len(References(key)) = 4 /\ DOMAIN References(key) = 1..4
BY DEF References

LEMMA LinesAreCounted ==
  ASSUME NEW n \in Nat
  PROVE  IsFiniteSet(1..n) /\ Cardinality(1..n) = n
<1>1. IsFiniteSet(1..n) /\ Cardinality(1..n) = IF 1 > n THEN 0 ELSE n - 1 + 1
  BY FS_Interval
<1>2. QED BY <1>1

LEMMA FileTyped ==
  ASSUME NEW f \in File
  PROVE  /\ Len(f) \in Nat
         /\ AcceptedLines(f) \in SUBSET (1..Len(f))
         /\ IsFiniteSet(AcceptedLines(f))
         /\ Cardinality(AcceptedLines(f)) \in Nat
         /\ Cardinality(AcceptedLines(f)) <= Len(f)
<1>1. Len(f) \in Nat
  BY RegistrationAssumption
<1>2. AcceptedLines(f) \in SUBSET (1..Len(f))
  BY DEF AcceptedLines
<1>3. IsFiniteSet(1..Len(f)) /\ Cardinality(1..Len(f)) = Len(f)
  BY <1>1, LinesAreCounted
<1>4. IsFiniteSet(AcceptedLines(f)) /\ Cardinality(AcceptedLines(f)) <= Len(f)
  BY <1>2, <1>3, FS_Subset
<1>5. QED BY <1>1, <1>2, <1>4, FS_CardinalityType

LEMMA ParsedTyped ==
  ASSUME NEW f \in File
  PROVE  Parsed(f) \in Counts
<1>1. /\ Len(f) \in Nat
      /\ Cardinality(AcceptedLines(f)) \in Nat
      /\ Len(f) - Cardinality(AcceptedLines(f)) \in Nat
  BY FileTyped
<1>2. QED BY <1>1 DEF Parsed, Counts

LEMMA AcceptedLinesOf ==
  ASSUME NEW f, NEW n \in Nat, NEW S, NEW M, NEW c, Accounted(f, n, S, M, c)
  PROVE  /\ Lines(S, "accepted") \in SUBSET (1..n)
         /\ IsFiniteSet(Lines(S, "accepted"))
         /\ Cardinality(Lines(S, "accepted")) \in Nat
         /\ Cardinality(Lines(S, "accepted")) <= n
<1>1. Lines(S, "accepted") \in SUBSET (1..n)
  BY DEF Accounted, Itemised, Lines
<1>2. IsFiniteSet(1..n) /\ Cardinality(1..n) = n
  BY LinesAreCounted
<1>3. IsFiniteSet(Lines(S, "accepted")) /\ Cardinality(Lines(S, "accepted")) <= n
  BY <1>1, <1>2, FS_Subset
<1>4. QED BY <1>1, <1>3, FS_CardinalityType

LEMMA AccountOfNothing ==
  ASSUME NEW f
  PROVE  Accounted(f, 0, {}, {}, NoSummary)
<1>1. Cardinality({}) = 0
  BY FS_EmptySet
<1>2. Lines({}, "accepted") = {} /\ Lines({}, "rejected") = {}
  BY DEF Lines
<1>3. 1..0 = {}
  OBVIOUS
<1>4. QED BY <1>1, <1>2, <1>3 DEF Accounted, Itemised, NoSummary

LEMMA RecordFields ==
  ASSUME NEW f, NEW i, NEW status
  PROVE  /\ RecordAt(f, i, status).file = f
         /\ RecordAt(f, i, status).line = i
         /\ RecordAt(f, i, status).status = status
BY DEF RecordAt

With(S, f, i, status) == S \cup {RecordAt(f, i, status)}

\* What one more record does to the records of an account.
LEMMA OneMoreRecord ==
  ASSUME NEW f, NEW n \in Nat, NEW k \in Nat, k = n + 1, NEW S, Itemised(f, n, S),
         NEW status \in {"accepted", "rejected", "conflict"}
  PROVE  /\ Itemised(f, k, With(S, f, k, status))
         /\ Lines(With(S, f, k, status), status) = Lines(S, status) \cup {k}
         /\ \A other \in {"accepted", "rejected"} :
              other # status => Lines(With(S, f, k, status), other) = Lines(S, other)
<1> DEFINE new == RecordAt(f, k, status)
           T == With(S, f, k, status)
<1>1. /\ new.line = k /\ new.status = status /\ T = S \cup {new}
      /\ new = RecordAt(f, new.line, new.status)
  BY RecordFields DEF With
<1> HIDE DEF new, T
<1>2. \A s \in S : /\ s.line \in 1..n
                   /\ s.status \in {"accepted", "rejected", "conflict"}
                   /\ s = RecordAt(f, s.line, s.status)
  BY DEF Itemised
<1>3. \A s \in S : s.line # k /\ s.line \in 1..k
  BY <1>2
<1>4. \A s, t \in T : s.line = t.line => s = t
  BY <1>1, <1>3 DEF Itemised
<1>5. \A i \in 1..k : \E s \in T : s.line = i
  <2> SUFFICES ASSUME NEW i \in 1..k PROVE \E s \in T : s.line = i
    OBVIOUS
  <2>1. CASE i = k
    BY <1>1, <2>1
  <2>2. CASE i # k
    <3>1. i \in 1..n
      BY <2>2
    <3>2. QED BY <3>1, <1>1 DEF Itemised
  <2>3. QED BY <2>1, <2>2
<1>6. Lines(T, status) = Lines(S, status) \cup {k}
  BY <1>1 DEF Lines
<1>7. \A other : other # status => Lines(T, other) = Lines(S, other)
  BY <1>1 DEF Lines
<1>8. k \in 1..k
  OBVIOUS
<1>9. \A s \in T : /\ s.line \in 1..k
                   /\ s.status \in {"accepted", "rejected", "conflict"}
                   /\ s = RecordAt(f, s.line, s.status)
  BY <1>1, <1>2, <1>3, <1>8
<1>10. Itemised(f, k, T)
  BY <1>4, <1>5, <1>9 DEF Itemised
<1>11. QED BY <1>6, <1>7, <1>10 DEF T

\* The three ways in which an import passes a line.
LEMMA LineRejected ==
  ASSUME NEW f \in File, NEW n \in Nat, NEW k \in 1..Len(f), k = n + 1,
         NEW S, NEW M, NEW c \in Counts,
         Accounted(f, n, S, M, c), k \notin AcceptedLines(f),
         NEW d \in Counts,
         d.total = c.total + 1, d.accepted = c.accepted, d.rejected = c.rejected + 1
  PROVE  Accounted(f, k, With(S, f, k, "rejected"), M, d)
<1> DEFINE T == With(S, f, k, "rejected")
           a == Cardinality(Lines(S, "accepted"))
<1>0. k \in Nat /\ Len(f) \in Nat
  BY FileTyped
<1>1. /\ Itemised(f, k, T)
      /\ Lines(T, "rejected") = Lines(S, "rejected") \cup {k}
      /\ Lines(T, "accepted") = Lines(S, "accepted")
  <2>2. "rejected" \in {"accepted", "rejected", "conflict"}
    OBVIOUS
  <2>3. Itemised(f, n, S)
    BY DEF Accounted
  <2>4. /\ Itemised(f, k, T)
        /\ Lines(T, "rejected") = Lines(S, "rejected") \cup {k}
        /\ \A other \in {"accepted", "rejected"} :
             other # "rejected" => Lines(T, other) = Lines(S, other)
    BY <1>0, <2>2, <2>3, OneMoreRecord
  <2>5. QED BY <2>4
<1> HIDE DEF T
<1>2. Lines(T, "rejected") = (1..k) \ AcceptedLines(f)
  <2>1. Lines(S, "rejected") = (1..n) \ AcceptedLines(f)
    BY DEF Accounted
  <2>2. 1..k = (1..n) \cup {k}
    BY <1>0
  <2>3. QED BY <1>1, <2>1, <2>2
<1>3. /\ \A m \in M : m.source.line \in 1..k /\ m = MatchAt(f, m.source.line)
      /\ {m.source.line : m \in M} = Lines(T, "accepted")
  <2>1. 1..n \subseteq 1..k
    BY <1>0
  <2>2. QED BY <1>1, <2>1 DEF Accounted
<1>4. d.total = k /\ d.accepted = Cardinality(Lines(T, "accepted"))
      /\ d.rejected = k - Cardinality(Lines(T, "accepted"))
  <2>1. c.total = n /\ c.accepted = a /\ c.rejected = n - a
    BY DEF Accounted
  <2>2. a \in Nat
    BY AcceptedLinesOf
  <2>3. Cardinality(Lines(T, "accepted")) = a
    BY <1>1
  <2> HIDE DEF a
  <2>4. QED BY <2>1, <2>2, <2>3
<1>5. Accounted(f, k, T, M, d)
  BY <1>1, <1>2, <1>3, <1>4 DEF Accounted
<1>6. QED BY <1>5 DEF T

LEMMA LineInConflict ==
  ASSUME NEW f \in File, NEW n \in Nat, NEW k \in 1..Len(f), k = n + 1,
         NEW S, NEW M, NEW c \in Counts,
         Accounted(f, n, S, M, c), k \in AcceptedLines(f),
         NEW d \in Counts,
         d.total = c.total + 1, d.accepted = c.accepted, d.rejected = c.rejected + 1
  PROVE  Accounted(f, k, With(S, f, k, "conflict"), M, d)
<1> DEFINE T == With(S, f, k, "conflict")
           a == Cardinality(Lines(S, "accepted"))
<1>0. k \in Nat /\ Len(f) \in Nat
  BY FileTyped
<1>1. /\ Itemised(f, k, T)
      /\ Lines(T, "rejected") = Lines(S, "rejected")
      /\ Lines(T, "accepted") = Lines(S, "accepted")
  <2>2. "conflict" \in {"accepted", "rejected", "conflict"}
    OBVIOUS
  <2>3. Itemised(f, n, S)
    BY DEF Accounted
  <2>4. /\ Itemised(f, k, T)
        /\ Lines(T, "conflict") = Lines(S, "conflict") \cup {k}
        /\ \A other \in {"accepted", "rejected"} :
             other # "conflict" => Lines(T, other) = Lines(S, other)
    BY <1>0, <2>2, <2>3, OneMoreRecord
  <2>5. QED BY <2>4
<1> HIDE DEF T
<1>2. Lines(T, "rejected") = (1..k) \ AcceptedLines(f)
  <2>1. Lines(S, "rejected") = (1..n) \ AcceptedLines(f)
    BY DEF Accounted
  <2>2. 1..k = (1..n) \cup {k}
    BY <1>0
  <2>3. QED BY <1>1, <2>1, <2>2
<1>3. /\ \A m \in M : m.source.line \in 1..k /\ m = MatchAt(f, m.source.line)
      /\ {m.source.line : m \in M} = Lines(T, "accepted")
  <2>1. 1..n \subseteq 1..k
    BY <1>0
  <2>2. QED BY <1>1, <2>1 DEF Accounted
<1>4. d.total = k /\ d.accepted = Cardinality(Lines(T, "accepted"))
      /\ d.rejected = k - Cardinality(Lines(T, "accepted"))
  <2>1. c.total = n /\ c.accepted = a /\ c.rejected = n - a
    BY DEF Accounted
  <2>2. a \in Nat
    BY AcceptedLinesOf
  <2>3. Cardinality(Lines(T, "accepted")) = a
    BY <1>1
  <2> HIDE DEF a
  <2>4. QED BY <2>1, <2>2, <2>3
<1>5. Accounted(f, k, T, M, d)
  BY <1>1, <1>2, <1>3, <1>4 DEF Accounted
<1>6. QED BY <1>5 DEF T

LEMMA LineAccepted ==
  ASSUME NEW f \in File, NEW n \in Nat, NEW k \in 1..Len(f), k = n + 1,
         NEW S, NEW M, NEW c \in Counts,
         Accounted(f, n, S, M, c), k \in AcceptedLines(f),
         NEW d \in Counts,
         d.total = c.total + 1, d.accepted = c.accepted + 1, d.rejected = c.rejected
  PROVE  Accounted(f, k, With(S, f, k, "accepted"),
                   M \cup {MatchAt(f, k)}, d)
<1> DEFINE T == With(S, f, k, "accepted")
           N == M \cup {MatchAt(f, k)}
           a == Cardinality(Lines(S, "accepted"))
<1>0. k \in Nat /\ Len(f) \in Nat
  BY FileTyped
<1>1. /\ Itemised(f, k, T)
      /\ Lines(T, "rejected") = Lines(S, "rejected")
      /\ Lines(T, "accepted") = Lines(S, "accepted") \cup {k}
  <2>2. "accepted" \in {"accepted", "rejected", "conflict"}
    OBVIOUS
  <2>3. Itemised(f, n, S)
    BY DEF Accounted
  <2>4. /\ Itemised(f, k, T)
        /\ Lines(T, "accepted") = Lines(S, "accepted") \cup {k}
        /\ \A other \in {"accepted", "rejected"} :
             other # "accepted" => Lines(T, other) = Lines(S, other)
    BY <1>0, <2>2, <2>3, OneMoreRecord
  <2>5. QED BY <2>4
<1> HIDE DEF T
<1>2. Lines(T, "rejected") = (1..k) \ AcceptedLines(f)
  <2>1. Lines(S, "rejected") = (1..n) \ AcceptedLines(f)
    BY DEF Accounted
  <2>2. 1..k = (1..n) \cup {k}
    BY <1>0
  <2>3. QED BY <1>1, <2>1, <2>2
<1>3. /\ \A m \in N : m.source.line \in 1..k /\ m = MatchAt(f, m.source.line)
      /\ {m.source.line : m \in N} = Lines(T, "accepted")
  <2>1. 1..n \subseteq 1..k /\ k \in 1..k
    BY <1>0
  <2>2. \A m \in M : m.source.line \in 1..n /\ m = MatchAt(f, m.source.line)
    BY DEF Accounted
  <2>3. {m.source.line : m \in M} = Lines(S, "accepted")
    BY DEF Accounted
  <2> DEFINE new == MatchAt(f, k)
  <2>4. new.source.line = k
    BY DEF MatchAt
  <2>5. N = M \cup {new} /\ new = MatchAt(f, k)
    OBVIOUS
  <2> HIDE DEF new
  <2>a. new = MatchAt(f, new.source.line)
    BY <2>4, <2>5, Zenon
  <2>6. \A m \in N : m.source.line \in 1..k /\ m = MatchAt(f, m.source.line)
    BY <2>1, <2>2, <2>4, <2>5, <2>a
  <2>7. {m.source.line : m \in N} = {m.source.line : m \in M} \cup {k}
    BY <2>4, <2>5
  <2>8. QED BY <1>1, <2>3, <2>6, <2>7
<1>4. d.total = k /\ d.accepted = Cardinality(Lines(T, "accepted"))
      /\ d.rejected = k - Cardinality(Lines(T, "accepted"))
  <2>1. c.total = n /\ c.accepted = a /\ c.rejected = n - a
    BY DEF Accounted
  <2>2. a \in Nat /\ IsFiniteSet(Lines(S, "accepted"))
        /\ Lines(S, "accepted") \in SUBSET (1..n)
    BY AcceptedLinesOf
  <2>3. k \notin Lines(S, "accepted")
    BY <2>2
  <2>4. Cardinality(Lines(T, "accepted")) = a + 1
    BY <1>1, <2>2, <2>3, FS_AddElement
  <2>5. QED BY <2>1, <2>2, <2>4
<1>5. Accounted(f, k, T, N, d)
  BY <1>1, <1>2, <1>3, <1>4 DEF Accounted
<1>6. QED BY <1>5 DEF T

-----------------------------------------------------------------------------
(* Steps of one request. *)

Others(r) == Request \ {r}

\* A step that changes nothing of the other requests.
Leaves(r) ==
  \A q \in Others(r) :
    /\ pc'[q] = pc[q] /\ job'[q] = job[q] /\ line'[q] = line[q]
    /\ step'[q] = step[q] /\ own'[q] = own[q] /\ summary'[q] = summary[q]

LEMMA ImportTyped ==
  ASSUME Typed, NEW r \in Request, Importing(r)
  PROVE  /\ job[r] \in ImportJob
         /\ job[r].file \in File
         /\ Len(job[r].file) \in Nat
         /\ line[r] \in Nat
<1>1. job[r] \in Jobs \cup {NoJob}
  BY DEF Typed
<1>2. NoJob.kind # "import" /\ \A j \in PreviewJob \cup CreateJob : j.kind # "import"
  BY DEF NoJob, PreviewJob, CreateJob
<1>3. job[r] \in ImportJob
  BY <1>1, <1>2 DEF Importing, Jobs
<1>4. job[r].file \in File
  BY <1>3 DEF ImportJob
<1>5. QED BY <1>3, <1>4, FileTyped DEF Typed

LEMMA NoSummaryTyped == NoSummary \in Counts
BY DEF NoSummary, Counts

\* A request whose own variables do not change, while nothing is committed.
LEMMA Untouched ==
  ASSUME IInv, NEW q \in Request, UNCHANGED stored,
         pc'[q] = pc[q], job'[q] = job[q], line'[q] = line[q],
         step'[q] = step[q], own'[q] = own[q], summary'[q] = summary[q]
  PROVE  Mine(q)'
<1>0. Mine(q) /\ Importing(q)' = Importing(q) /\ keys' = keys /\ matches' = matches
      /\ batches' = batches
  BY DEF IInv, stored, Importing
<1>1. Passed(q)' = Passed(q) /\ Settled(q)' = Settled(q) /\ Key(q)' = Key(q)
  BY <1>0 DEF Passed, Settled, Key
<1>2. Importer(q)'
  BY <1>0, <1>1 DEF Mine, Importer
<1>3. Creator(q)' /\ Resting(q)'
  BY <1>0 DEF Mine, Creator, Resting
<1>4. Referring(q)'
  BY <1>0, <1>1 DEF Mine, Referring
<1>5. Distinct(q)'
  BY <1>0, <1>1 DEF Mine, Distinct
<1>6. Answering(q)'
  BY <1>0 DEF Mine, Answering
<1>7. QED BY <1>2, <1>3, <1>4, <1>5, <1>6 DEF Mine

LEMMA LocalStep ==
  ASSUME IInv, NEW r \in Request, UNCHANGED stored, Leaves(r), Typed', Mine(r)',
         \A q \in Others(r) : Apart(q, r)'
  PROVE  IInv'
<1>1. \A q \in Others(r) : Mine(q)'
  BY Untouched DEF Others, Leaves
<1>2. \A q \in Request : Mine(q)'
  BY <1>1 DEF Others
<1>3. \A q, s \in Request : q # s => Apart(q, s)'
  <2> SUFFICES ASSUME NEW q \in Request, NEW s \in Request, q # s PROVE Apart(q, s)'
    OBVIOUS
  <2>1. CASE s = r
    BY <2>1 DEF Others
  <2>2. CASE q = r
    <3>1. Apart(s, r)'
      BY <2>2 DEF Others
    <3>2. QED BY <3>1, <2>2 DEF Apart
  <2>3. CASE q # r /\ s # r
    <3>1. Apart(q, s)
      BY DEF IInv
    <3>2. /\ pc'[q] = pc[q] /\ job'[q] = job[q] /\ own'[q] = own[q]
          /\ pc'[s] = pc[s] /\ job'[s] = job[s] /\ own'[s] = own[s]
      BY <2>3 DEF Leaves, Others
    <3>3. QED BY <3>1, <3>2 DEF Apart, Importing
  <2>4. QED BY <2>1, <2>2, <2>3
<1>4. Batches'
  BY DEF IInv, Batches, stored, AllRecords, MatchesOf
<1>5. Matches'
  BY DEF IInv, Matches, stored
<1>6. QED BY <1>2, <1>3, <1>4, <1>5 DEF IInv

\* A step after which the request is out of its transaction.
LEMMA RestingIsMine ==
  ASSUME NEW r \in Request, own'[r] = Empty, pc'[r] \notin Writing, Resting(r)', Answering(r)'
  PROVE  Mine(r)'
<1>1. own'[r].matches = {}
  BY DEF Empty
<1>2. Importer(r)' /\ Creator(r)'
  BY DEF Importer, Creator
<1>3. Referring(r)'
  BY <1>1 DEF Referring, Writing, AtMatch
<1>4. Distinct(r)'
  BY <1>1 DEF Distinct, Writing, AtMatch
<1>5. QED BY <1>2, <1>3, <1>4 DEF Mine

LEMMA RestingIsApart ==
  ASSUME NEW q \in Request, NEW r \in Request, own'[r] = Empty, pc'[r] \notin Writing
  PROVE  Apart(q, r)'
<1>1. own'[r].matches = {}
  BY DEF Empty
<1>2. QED BY <1>1 DEF Apart

LEMMA FailKeeps ==
  ASSUME IInv, NEW r \in Request, Fail(r)
  PROVE  IInv'
<1>0. Typed
  BY DEF IInv
<1>1. /\ pc'[r] = "idle" /\ job'[r] = NoJob /\ line'[r] = 0 /\ step'[r] = 0
      /\ own'[r] = Empty /\ summary'[r] = NoSummary /\ UNCHANGED stored
  BY <1>0 DEF Fail, Finish, Typed
<1>2. Leaves(r)
  BY <1>0 DEF Fail, Finish, Typed, Leaves, Others
<1>3. Typed'
  BY <1>0, NoSummaryTyped DEF Fail, Finish, Typed, Empty
<1>4. pc'[r] \notin Writing
  BY <1>1 DEF Writing, AtMatch
<1>5. Resting(r)' /\ Answering(r)'
  BY <1>1 DEF Resting, Answering
<1>6. Mine(r)'
  BY <1>1, <1>4, <1>5, RestingIsMine
<1>7. \A q \in Others(r) : Apart(q, r)'
  BY <1>1, <1>4, RestingIsApart DEF Others
<1>8. QED BY <1>1, <1>2, <1>3, <1>6, <1>7, LocalStep

LEMMA BeginCreateKeeps ==
  ASSUME IInv, NEW r \in Request, NEW d \in Draft, BeginCreate(r, d)
  PROVE  IInv'
<1> DEFINE j == [kind |-> "create", draft |-> d]
<1>0. Typed /\ Mine(r)
  BY DEF IInv
<1>a. j \in CreateJob /\ j \in Jobs /\ j.kind # "import"
  BY DEF CreateJob, Jobs
<1>1. /\ pc[r] = "idle"
      /\ pc' = [pc EXCEPT ![r] = "select"] /\ job' = [job EXCEPT ![r] = j]
      /\ step' = [step EXCEPT ![r] = 1]
      /\ UNCHANGED <<stored, line, own, summary>>
  BY DEF BeginCreate, Begin
<1> HIDE DEF j
<1>2. own[r] = Empty
  BY <1>0, <1>1 DEF Mine, Resting, Writing, AtMatch
<1>3. /\ pc'[r] = "select" /\ job'[r] = j /\ step'[r] = 1 /\ own'[r] = Empty
      /\ UNCHANGED stored
  BY <1>0, <1>1, <1>2 DEF Typed
<1>4. Leaves(r)
  BY <1>0, <1>1 DEF Typed, Leaves, Others
<1>5. Typed'
  BY <1>0, <1>1, <1>a DEF Typed, Writing, AtMatch
<1>6. /\ own'[r].matches = {} /\ own'[r].records = {}
      /\ ~Importing(r)' /\ pc'[r] \in Writing
  BY <1>3, <1>a DEF Empty, Importing, Writing, AtMatch
<1>7. Importer(r)' /\ Creator(r)' /\ Resting(r)' /\ Answering(r)'
  BY <1>3, <1>6, <1>a DEF Importer, Creator, Resting, Answering
<1>8. Referring(r)' /\ Distinct(r)'
  BY <1>3, <1>6 DEF Referring, Distinct
<1>9. Mine(r)'
  BY <1>7, <1>8 DEF Mine
<1>10. \A q \in Others(r) : Apart(q, r)'
  BY <1>6 DEF Apart
<1>11. QED BY <1>3, <1>4, <1>5, <1>9, <1>10, LocalStep

LEMMA BeginImportKeeps ==
  ASSUME IInv, NEW r \in Request, NEW f \in File, NEW dry \in BOOLEAN, BeginImport(r, f, dry)
  PROVE  IInv'
<1> DEFINE j == [kind |-> IF dry THEN "preview" ELSE "import", file |-> f]
           p == IF dry THEN "answered" ELSE "batch"
           c == IF dry THEN Parsed(f) ELSE NoSummary
<1>0. Typed /\ Mine(r)
  BY DEF IInv
<1>a. j \in Jobs /\ (p = "batch" => j.kind = "import") /\ (p = "answered" => j.kind # "import")
  BY DEF ImportJob, PreviewJob, Jobs
<1>b. p \in {"answered", "batch"} /\ c \in Counts
  BY ParsedTyped, NoSummaryTyped
<1>c. p = "batch" => c = NoSummary
  OBVIOUS
<1>1. /\ pc[r] = "idle"
      /\ pc' = [pc EXCEPT ![r] = p] /\ job' = [job EXCEPT ![r] = j]
      /\ summary' = [summary EXCEPT ![r] = c]
      /\ UNCHANGED <<stored, line, own, step>>
  BY DEF BeginImport, Begin
<1> HIDE DEF j, p, c
<1>2. own[r] = Empty /\ line[r] = 0
  BY <1>0, <1>1 DEF Mine, Resting, Writing, AtMatch
<1>3. /\ pc'[r] = p /\ job'[r] = j /\ own'[r] = Empty /\ line'[r] = 0 /\ summary'[r] = c
      /\ UNCHANGED stored
  BY <1>0, <1>1, <1>2 DEF Typed
<1>4. Leaves(r)
  BY <1>0, <1>1 DEF Typed, Leaves, Others
<1>5. Typed'
  BY <1>0, <1>1, <1>a, <1>b DEF Typed
<1>6. pc'[r] \notin Writing
  BY <1>3, <1>b DEF Writing, AtMatch
<1>7. Resting(r)' /\ Answering(r)'
  BY <1>3, <1>a, <1>b, <1>c DEF Resting, Answering, Importing
<1>8. Mine(r)' /\ \A q \in Others(r) : Apart(q, r)'
  BY <1>3, <1>6, <1>7, RestingIsMine, RestingIsApart DEF Others
<1>9. QED BY <1>3, <1>4, <1>5, <1>8, LocalStep

LEMMA SelectBatchKeeps ==
  ASSUME IInv, NEW r \in Request, SelectBatch(r)
  PROVE  IInv'
<1>0. Typed /\ Mine(r)
  BY DEF IInv
<1>1. /\ pc[r] = "batch" /\ UNCHANGED <<stored, job, line, step, own>>
      /\ \/ pc' = [pc EXCEPT ![r] = "answered"]
            /\ \E b \in batches : b.file = job[r].file
            /\ summary' = [summary EXCEPT ![r] = Parsed(job[r].file)]
         \/ pc' = [pc EXCEPT ![r] = "insertBatch"] /\ summary' = summary
  BY DEF SelectBatch, Goto
<1>2. /\ own[r] = Empty /\ line[r] = 0 /\ summary[r] = NoSummary /\ Importing(r)
      /\ job[r] \in Jobs
  BY <1>0, <1>1 DEF Mine, Resting, Writing, AtMatch
<1>3. Parsed(job[r].file) \in Counts
  BY <1>0, <1>2, ImportTyped, ParsedTyped
<1>4. /\ job'[r] = job[r] /\ own'[r] = Empty /\ line'[r] = 0 /\ UNCHANGED stored
      /\ \/ pc'[r] = "answered" /\ \E b \in batches' : b.file = job'[r].file
         \/ pc'[r] = "insertBatch" /\ summary'[r] = NoSummary
  BY <1>0, <1>1, <1>2 DEF Typed, stored
<1>5. Leaves(r)
  BY <1>0, <1>1 DEF Typed, Leaves, Others
<1>6. Typed'
  BY <1>0, <1>1, <1>3 DEF Typed
<1>7. pc'[r] \notin Writing
  BY <1>4 DEF Writing, AtMatch
<1>8. Resting(r)' /\ Answering(r)'
  BY <1>2, <1>4 DEF Resting, Answering, Importing
<1>9. Mine(r)' /\ \A q \in Others(r) : Apart(q, r)'
  BY <1>4, <1>7, <1>8, RestingIsMine, RestingIsApart DEF Others
<1>10. QED BY <1>4, <1>5, <1>6, <1>9, LocalStep

-----------------------------------------------------------------------------
(* From line to line. *)

\* Where NextLine leads.
LEMMA NextLineMoves ==
  ASSUME Typed, NEW r \in Request, Importing(r), line[r] <= Len(job[r].file), NextLine(r)
  PROVE  /\ pc' \in [Request -> Writing \cup {"idle", "batch", "insertBatch", "answered"}]
         /\ line' \in [Request -> Nat]
         /\ step' \in [Request -> Nat]
         /\ \A q \in Others(r) : pc'[q] = pc[q] /\ line'[q] = line[q] /\ step'[q] = step[q]
         /\ \/ /\ pc'[r] = "record" /\ line'[r] = line[r] + 1 /\ step'[r] = 1
               /\ line[r] < Len(job[r].file)
            \/ pc'[r] = "written" /\ line'[r] = line[r] /\ line[r] = Len(job[r].file)
<1>0. line[r] \in Nat /\ Len(job[r].file) \in Nat
  BY ImportTyped
<1>1. CASE line[r] < Len(job[r].file)
  <2>1. /\ pc' = [pc EXCEPT ![r] = "record"] /\ step' = [step EXCEPT ![r] = 1]
        /\ line' = [line EXCEPT ![r] = @ + 1]
    BY <1>1 DEF NextLine, Goto
  <2>2. line[r] + 1 \in Nat
    BY <1>0
  <2>3. QED BY <1>1, <2>1, <2>2 DEF Typed, Writing, AtMatch, Others
<1>2. CASE ~(line[r] < Len(job[r].file))
  <2>1. pc' = [pc EXCEPT ![r] = "written"] /\ line' = line /\ step' = step
    BY <1>2 DEF NextLine, Goto
  <2>2. line[r] = Len(job[r].file)
    BY <1>0, <1>2
  <2>3. QED BY <2>1, <2>2 DEF Typed, Writing, AtMatch, Others
<1>3. QED BY <1>1, <1>2

\* A request that has passed line[r] with a new account goes on to the next line.
LEMMA PassingIsMine ==
  ASSUME IInv, NEW r \in Request, Importing(r), UNCHANGED <<stored, job>>, NextLine(r),
         line[r] <= Len(job[r].file),
         Accounted(job[r].file, line[r], own'[r].records, own'[r].matches, summary'[r]),
         Conflicting(job[r].file, own'[r].records, matches \cup own'[r].matches),
         \A b \in batches : b.file # job[r].file,
         \A m \in own'[r].matches : \A j \in 1..4 :
           References(m.key)[j] \in keys \cup own'[r].keys,
         \A m, n \in own'[r].matches : m.key = n.key => m = n,
         \A m \in own'[r].matches, n \in matches : m.key # n.key
  PROVE  Mine(r)'
<1>0. Typed
  BY DEF IInv
<1> DEFINE f == job[r].file
           k == line[r]
<1>1. k \in Nat /\ Len(f) \in Nat /\ job[r] \in ImportJob
  BY <1>0, ImportTyped
<1>2. \/ pc'[r] = "record" /\ line'[r] = k + 1 /\ step'[r] = 1 /\ k < Len(f)
      \/ pc'[r] = "written" /\ line'[r] = k /\ k = Len(f)
  BY <1>0, NextLineMoves
<1>3. /\ job'[r] = job[r] /\ Importing(r)' /\ pc'[r] \in Writing /\ pc'[r] \notin AtMatch
      /\ keys' = keys /\ matches' = matches /\ batches' = batches
  BY <1>2 DEF Importing, Writing, AtMatch, stored
<1>4. Passed(r)' = k
  BY <1>1, <1>2 DEF Passed
<1>5. \A s \in own'[r].records : s.line <= k
  BY <1>1 DEF Accounted, Itemised
<1>6. Settled(r)' = own'[r].records
  BY <1>4, <1>5 DEF Settled
<1>7. /\ line'[r] \in 0..Len(f)
      /\ pc'[r] = "written" => line'[r] = Len(f)
      /\ pc'[r] # "written" => line'[r] >= 1
  BY <1>1, <1>2
<1> HIDE DEF f, k
<1>8. Importer(r)'
  <2>1. Accounted(f, k, own'[r].records, own'[r].matches, summary'[r])
    BY DEF f, k
  <2>2. Conflicting(f, own'[r].records, matches \cup own'[r].matches)
    BY DEF f
  <2>3. \A b \in batches : b.file # f
    BY DEF f
  <2>4. job'[r].file = f
    BY <1>3 DEF f
  <2>5. QED BY <1>3, <1>4, <1>6, <1>7, <2>1, <2>2, <2>3, <2>4 DEF Importer
<1>9. Creator(r)' /\ Answering(r)'
  BY <1>2, <1>3 DEF Creator, Answering
<1>10. Resting(r)'
  BY <1>1, <1>2, <1>3 DEF Resting, Jobs
<1>11. Referring(r)'
  BY <1>2, <1>3 DEF Referring, AtMatch
<1>12. Distinct(r)'
  BY <1>2, <1>3 DEF Distinct
<1>13. QED BY <1>8, <1>9, <1>10, <1>11, <1>12 DEF Mine

\* A request that writes goes on with its file, and no other writes its new matches.
LEMMA WritingIsApart ==
  ASSUME IInv, NEW r \in Request, NEW q \in Others(r), Leaves(r), pc[r] \in Writing,
         job'[r] = job[r],
         \A m \in own'[r].matches : \/ m \in own[r].matches
                                    \/ \A n \in own[q].matches : m.key # n.key
  PROVE  Apart(q, r)'
<1>1. Apart(q, r)
  BY DEF IInv, Others
<1>2. pc'[q] = pc[q] /\ job'[q] = job[q] /\ own'[q] = own[q]
  BY DEF Leaves
<1>3. QED BY <1>1, <1>2 DEF Apart, Importing

LEMMA InsertBatchKeeps ==
  ASSUME IInv, NEW r \in Request, InsertBatch(r)
  PROVE  IInv'
<1>0. Typed /\ Mine(r) /\ pc[r] = "insertBatch"
  BY DEF IInv, InsertBatch
<1>1. CASE \E b \in batches : b.file = job[r].file
  <2>1. Fail(r)
    BY <1>1 DEF InsertBatch
  <2>2. QED BY <2>1, FailKeeps
<1>2. CASE ~\E b \in batches : b.file = job[r].file
  <2>1. NextLine(r) /\ UNCHANGED <<stored, job, own, summary>> /\ Holders(r) = {}
    BY <1>2 DEF InsertBatch
  <2>2. own[r] = Empty /\ line[r] = 0 /\ summary[r] = NoSummary /\ Importing(r)
    BY <1>0 DEF Mine, Resting, Writing, AtMatch
  <2>3. /\ own'[r].records = {} /\ own'[r].matches = {} /\ own'[r].keys = {}
        /\ summary'[r] = NoSummary
    BY <2>1, <2>2 DEF Empty
  <2>4. line[r] <= Len(job[r].file)
    BY <1>0, <2>2, ImportTyped
  <2>5. /\ pc' \in [Request -> Writing \cup {"idle", "batch", "insertBatch", "answered"}]
        /\ line' \in [Request -> Nat]
        /\ step' \in [Request -> Nat]
        /\ \A q \in Others(r) : pc'[q] = pc[q] /\ line'[q] = line[q] /\ step'[q] = step[q]
    BY <1>0, <2>1, <2>2, <2>4, NextLineMoves
  <2>6. Leaves(r)
    BY <2>1, <2>5 DEF Leaves
  <2>7. Typed'
    BY <1>0, <2>1, <2>5 DEF Typed
  <2>8. Accounted(job[r].file, line[r], own'[r].records, own'[r].matches, summary'[r])
    BY <2>2, <2>3, AccountOfNothing
  <2>9. Conflicting(job[r].file, own'[r].records, matches \cup own'[r].matches)
    BY <2>3 DEF Conflicting
  <2>10. Mine(r)'
    BY <1>2, <2>1, <2>2, <2>3, <2>4, <2>8, <2>9, PassingIsMine
  <2>11. \A q \in Others(r) : Apart(q, r)'
    <3> SUFFICES ASSUME NEW q \in Others(r) PROVE Apart(q, r)'
      OBVIOUS
    <3>1. q \notin Holders(r) /\ q \in Request \ {r}
      BY <2>1 DEF Others
    <3>2. ~(Importing(q) /\ job[q].file = job[r].file
            /\ pc[q] \notin {"batch", "insertBatch", "answered"})
      BY <1>0, <3>1 DEF Holders
    <3>3. pc'[q] = pc[q] /\ job'[q] = job[q] /\ job'[r] = job[r] /\ own'[r].matches = {}
      BY <2>1, <2>3, <2>6 DEF Leaves
    <3>4. QED BY <3>2, <3>3 DEF Apart, Importing, Writing, AtMatch
  <2>12. UNCHANGED stored
    BY <2>1
  <2>13. QED BY <2>6, <2>7, <2>10, <2>11, <2>12, LocalStep
<1>3. QED BY <1>1, <1>2

\* What an import knows of the line it is at.
LEMMA AtLine ==
  ASSUME IInv, NEW r \in Request, Importing(r), pc[r] \in {"record"} \cup AtMatch
  PROVE  /\ job[r].file \in File
         /\ line[r] \in 1..Len(job[r].file)
         /\ Len(job[r].file) \in Nat
         /\ line[r] \in Nat /\ line[r] - 1 \in Nat /\ line[r] = (line[r] - 1) + 1
         /\ Passed(r) = line[r] - 1
         /\ Accounted(job[r].file, line[r] - 1, Settled(r), own[r].matches, summary[r])
         /\ Conflicting(job[r].file, own[r].records, matches \cup own[r].matches)
         /\ pc[r] \in AtMatch =>
              /\ line[r] \in AcceptedLines(job[r].file)
              /\ own[r].records = With(Settled(r), job[r].file, line[r], "accepted")
         /\ pc[r] = "record" => own[r].records = Settled(r)
         /\ \A b \in batches : b.file # job[r].file
<1>1. Typed /\ Importer(r)
  BY DEF IInv, Mine
<1>2. job[r].file \in File /\ Len(job[r].file) \in Nat /\ line[r] \in Nat
  BY <1>1, ImportTyped
<1>3. pc[r] \in Writing /\ pc[r] # "written"
  BY DEF Writing, AtMatch
<1>4. line[r] \in 1..Len(job[r].file)
  BY <1>1, <1>2, <1>3 DEF Importer
<1>5. Passed(r) = line[r] - 1
  BY <1>3 DEF Passed
<1>6. pc[r] = "record" => pc[r] \notin AtMatch
  BY DEF AtMatch
<1>7. QED BY <1>1, <1>2, <1>3, <1>4, <1>5, <1>6 DEF Importer, With

\* What is true of the uncommitted matches of a request.
LEMMA OwnMatches ==
  ASSUME IInv, NEW r \in Request
  PROVE  /\ \A m \in own[r].matches : \A j \in 1..4 :
              References(m.key)[j] \in keys \cup own[r].keys
         /\ \A m, n \in own[r].matches : m.key = n.key => m = n
         /\ \A m \in own[r].matches, n \in matches : m.key # n.key
BY DEF IInv, Mine, Referring, Distinct

\* One of the fields of what a request has inserted.
LEMMA OwnRecords ==
  ASSUME Typed, NEW r \in Request, NEW S, own' = [own EXCEPT ![r].records = S]
  PROVE  /\ own'[r].records = S /\ own'[r].matches = own[r].matches
         /\ own'[r].keys = own[r].keys
         /\ DOMAIN own' = Request
         /\ \A q \in Request : DOMAIN own'[q] = {"keys", "matches", "records"}
         /\ \A q \in Others(r) : own'[q] = own[q]
BY DEF Typed, Others

LEMMA OwnMatch ==
  ASSUME Typed, NEW r \in Request, NEW S, own' = [own EXCEPT ![r].matches = S]
  PROVE  /\ own'[r].matches = S /\ own'[r].records = own[r].records
         /\ own'[r].keys = own[r].keys
         /\ DOMAIN own' = Request
         /\ \A q \in Request : DOMAIN own'[q] = {"keys", "matches", "records"}
         /\ \A q \in Others(r) : own'[q] = own[q]
BY DEF Typed, Others

LEMMA OwnKeys ==
  ASSUME Typed, NEW r \in Request, NEW S, own' = [own EXCEPT ![r].keys = S]
  PROVE  /\ own'[r].keys = S /\ own'[r].matches = own[r].matches
         /\ own'[r].records = own[r].records
         /\ DOMAIN own' = Request
         /\ \A q \in Request : DOMAIN own'[q] = {"keys", "matches", "records"}
         /\ \A q \in Others(r) : own'[q] = own[q]
BY DEF Typed, Others

LEMMA CountRejected ==
  ASSUME Typed, NEW r \in Request, Count(r, "rejected")
  PROVE  /\ summary' \in [Request -> Counts]
         /\ summary[r] \in Counts /\ summary'[r] \in Counts
         /\ summary'[r].total = summary[r].total + 1
         /\ summary'[r].accepted = summary[r].accepted
         /\ summary'[r].rejected = summary[r].rejected + 1
         /\ \A q \in Others(r) : summary'[q] = summary[q]
<1> DEFINE c == summary[r]
           half == [summary EXCEPT ![r]["rejected"] = @ + 1]
           e == [c EXCEPT !["rejected"] = @ + 1]
           d == [e EXCEPT !.total = @ + 1]
<1>1. c \in Counts /\ summary \in [Request -> Counts]
  BY DEF Typed
<1>2. /\ d.total = c.total + 1 /\ d.accepted = c.accepted /\ d.rejected = c.rejected + 1
      /\ d \in Counts
  <2> HIDE DEF c
  <2>1. /\ e.total = c.total /\ e.accepted = c.accepted /\ e.rejected = c.rejected + 1
        /\ e \in Counts
    BY <1>1 DEF Counts
  <2> HIDE DEF e
  <2>2. QED BY <2>1 DEF Counts
<1>3. summary' = [summary EXCEPT ![r] = d]
  <2>1. summary' = [half EXCEPT ![r].total = @ + 1]
    BY DEF Count
  <2>2. half = [summary EXCEPT ![r] = e]
    OBVIOUS
  <2>3. /\ DOMAIN half = Request /\ half[r] = e
        /\ \A q \in Request \ {r} : half[q] = summary[q]
    BY <1>1, <2>2
  <2> HIDE DEF half, e
  <2>4. QED BY <1>1, <2>1, <2>3
<1> HIDE DEF d
<1>4. QED BY <1>1, <1>2, <1>3 DEF Others

LEMMA CountAccepted ==
  ASSUME Typed, NEW r \in Request, Count(r, "accepted")
  PROVE  /\ summary' \in [Request -> Counts]
         /\ summary[r] \in Counts /\ summary'[r] \in Counts
         /\ summary'[r].total = summary[r].total + 1
         /\ summary'[r].accepted = summary[r].accepted + 1
         /\ summary'[r].rejected = summary[r].rejected
         /\ \A q \in Others(r) : summary'[q] = summary[q]
<1> DEFINE c == summary[r]
           half == [summary EXCEPT ![r]["accepted"] = @ + 1]
           e == [c EXCEPT !["accepted"] = @ + 1]
           d == [e EXCEPT !.total = @ + 1]
<1>1. c \in Counts /\ summary \in [Request -> Counts]
  BY DEF Typed
<1>2. /\ d.total = c.total + 1 /\ d.rejected = c.rejected /\ d.accepted = c.accepted + 1
      /\ d \in Counts
  <2> HIDE DEF c
  <2>1. /\ e.total = c.total /\ e.rejected = c.rejected /\ e.accepted = c.accepted + 1
        /\ e \in Counts
    BY <1>1 DEF Counts
  <2> HIDE DEF e
  <2>2. QED BY <2>1 DEF Counts
<1>3. summary' = [summary EXCEPT ![r] = d]
  <2>1. summary' = [half EXCEPT ![r].total = @ + 1]
    BY DEF Count
  <2>2. half = [summary EXCEPT ![r] = e]
    OBVIOUS
  <2>3. /\ DOMAIN half = Request /\ half[r] = e
        /\ \A q \in Request \ {r} : half[q] = summary[q]
    BY <1>1, <2>2
  <2> HIDE DEF half, e
  <2>4. QED BY <1>1, <2>1, <2>3
<1> HIDE DEF d
<1>4. QED BY <1>1, <1>2, <1>3 DEF Others

-----------------------------------------------------------------------------
(* The match of a line or of a draft. *)

\* An import that has a match in hand, and has passed no other line.
LEMMA AtMatchStill ==
  ASSUME IInv, NEW r \in Request, Importing(r), pc[r] \in {"record"} \cup AtMatch,
         UNCHANGED <<stored, job>>, line'[r] = line[r], summary'[r] = summary[r],
         pc'[r] \in AtMatch,
         line[r] \in AcceptedLines(job[r].file),
         own'[r].records = With(Settled(r), job[r].file, line[r], "accepted"),
         own'[r].matches = own[r].matches
  PROVE  Importer(r)'
<1> DEFINE f == job[r].file
           k == line[r]
           new == RecordAt(f, k, "accepted")
<1>0. /\ Importing(r)' /\ pc'[r] \in Writing /\ pc'[r] # "written"
      /\ batches' = batches /\ matches' = matches /\ job' = job
  BY DEF Importing, Writing, AtMatch, stored
<1>1. /\ k \in 1..Len(f) /\ k \in Nat /\ Len(f) \in Nat
      /\ Passed(r) = k - 1
      /\ Accounted(f, k - 1, Settled(r), own[r].matches, summary[r])
      /\ Conflicting(f, own[r].records, matches \cup own[r].matches)
      /\ \A b \in batches : b.file # f
      /\ pc[r] \in AtMatch => own[r].records = With(Settled(r), f, k, "accepted")
      /\ pc[r] = "record" => own[r].records = Settled(r)
  BY AtLine
<1>2. new.line = k /\ new.status = "accepted"
  BY RecordFields
<1>3. own'[r].records = Settled(r) \cup {new}
  BY DEF With
<1> HIDE DEF new
<1>4. Passed(r)' = k - 1
  BY <1>0 DEF Passed
<1>5. \A s \in Settled(r) : s.line <= k - 1
  BY <1>1 DEF Settled
<1>6. Settled(r)' = Settled(r)
  <2>1. Settled(r)' = {s \in own'[r].records : s.line <= k - 1}
    BY <1>4 DEF Settled
  <2>2. ~(new.line <= k - 1)
    BY <1>1, <1>2
  <2>3. QED BY <1>3, <1>5, <2>1, <2>2
<1>7. Conflicting(f, own'[r].records, matches \cup own'[r].matches)
  <2>1. Settled(r) \subseteq own[r].records
    BY DEF Settled
  <2>2. QED BY <1>1, <1>2, <1>3, <2>1 DEF Conflicting
<1>8. Accounted(f, Passed(r)', Settled(r)', own'[r].matches, summary'[r])
  BY <1>1, <1>4, <1>6
<1>9. line'[r] \in 0..Len(f) /\ line'[r] >= 1
  BY <1>1
<1>10. own'[r].records = Settled(r)' \cup {RecordAt(f, k, "accepted")}
  BY <1>3, <1>6 DEF new
<1>11. job'[r].file = f /\ line'[r] = k /\ k \in AcceptedLines(f)
  BY <1>0
<1> HIDE DEF f, k
<1>12. QED
  BY <1>0, <1>1, <1>7, <1>8, <1>9, <1>10, <1>11 DEF Importer

LEMMA InsertRecordKeeps ==
  ASSUME IInv, NEW r \in Request, InsertRecord(r)
  PROVE  IInv'
<1> DEFINE f == job[r].file
           k == line[r]
           status == IF Accepted(f[k]) THEN "accepted" ELSE "rejected"
<1>0. Typed /\ Mine(r) /\ pc[r] = "record"
  BY DEF IInv, InsertRecord
<1>1. Importing(r) /\ pc[r] \in Writing /\ pc[r] \notin AtMatch /\ step[r] = 1
  BY <1>0 DEF Mine, Creator, Referring, Writing, AtMatch
<1>2. /\ f \in File /\ k \in 1..Len(f) /\ Len(f) \in Nat
      /\ k \in Nat /\ k - 1 \in Nat /\ k = (k - 1) + 1
      /\ Accounted(f, k - 1, Settled(r), own[r].matches, summary[r])
      /\ Conflicting(f, own[r].records, matches \cup own[r].matches)
      /\ own[r].records = Settled(r)
      /\ \A b \in batches : b.file # f
  BY <1>0, <1>1, AtLine
<1>3. own' = [own EXCEPT ![r].records = @ \cup
        {[file |-> f, line |-> k, issues |-> Issues(f[k]), status |-> status]}]
  BY DEF InsertRecord
<1>4. RecordAt(f, k, status) =
        [file |-> f, line |-> k, issues |-> Issues(f[k]), status |-> status]
  BY DEF RecordAt
<1>5. own' = [own EXCEPT ![r].records = With(Settled(r), f, k, status)]
  BY <1>2, <1>3, <1>4 DEF With
<1>6. /\ own'[r].records = With(Settled(r), f, k, status)
      /\ own'[r].matches = own[r].matches
      /\ own'[r].keys = own[r].keys
      /\ DOMAIN own' = Request
      /\ \A q \in Request : DOMAIN own'[q] = {"keys", "matches", "records"}
      /\ \A q \in Others(r) : own'[q] = own[q]
  BY <1>0, <1>5, OwnRecords
<1>7. UNCHANGED <<stored, job>>
  BY DEF InsertRecord
<1>8. CASE Accepted(f[k])
  <2>1. pc' = [pc EXCEPT ![r] = "select"] /\ line' = line /\ step' = step /\ summary' = summary
    BY <1>8 DEF InsertRecord, Goto
  <2>2. status = "accepted" /\ k \in AcceptedLines(f)
    BY <1>2, <1>8 DEF AcceptedLines
  <2>3. pc'[r] = "select"
    BY <1>0, <2>1 DEF Typed
  <2>4. Typed'
    BY <1>0, <1>6, <1>7, <2>1 DEF Typed, Writing, AtMatch
  <2>5. Leaves(r)
    BY <1>0, <1>6, <1>7, <2>1 DEF Leaves, Typed, Others
  <2>6. Importer(r)'
    <3>1. pc'[r] \in AtMatch
      BY <2>3 DEF AtMatch
    <3>2. line'[r] = line[r] /\ summary'[r] = summary[r]
      BY <2>1
    <3>3. own'[r].records = With(Settled(r), f, k, "accepted")
      BY <1>6, <2>2
    <3>4. QED BY <1>0, <1>1, <1>6, <1>7, <2>2, <3>1, <3>2, <3>3, AtMatchStill
  <2>7. Creator(r)' /\ Resting(r)' /\ Answering(r)'
    <3>1. Importing(r)' /\ pc'[r] \in Writing /\ job'[r] = job[r]
      BY <1>1, <1>7, <2>3 DEF Importing, Writing, AtMatch
    <3>2. job[r] \in ImportJob
      BY <1>0, <1>1, ImportTyped
    <3>3. QED BY <2>3, <3>1, <3>2 DEF Creator, Resting, Answering, Jobs
  <2>8. Referring(r)' /\ Distinct(r)'
    <3>1. keys' = keys /\ matches' = matches /\ step'[r] = 1
      BY <1>1, <1>7, <2>1 DEF stored
    <3>2. Referring(r)'
      BY <1>6, <2>3, <3>1, OwnMatches DEF Referring, AtMatch
    <3>3. Distinct(r)'
      BY <1>6, <2>3, <3>1, OwnMatches DEF Distinct
    <3>4. QED BY <3>2, <3>3
  <2>9. Mine(r)'
    BY <2>6, <2>7, <2>8 DEF Mine
  <2>10. \A q \in Others(r) : Apart(q, r)'
    BY <1>1, <1>6, <1>7, <2>5, WritingIsApart
  <2>11. QED BY <1>7, <2>4, <2>5, <2>9, <2>10, LocalStep
<1>9. CASE ~Accepted(f[k])
  <2>1. NextLine(r) /\ Count(r, "rejected")
    BY <1>9 DEF InsertRecord
  <2>2. status = "rejected" /\ k \notin AcceptedLines(f)
    BY <1>9 DEF AcceptedLines
  <2>3. /\ summary' \in [Request -> Counts]
        /\ summary[r] \in Counts /\ summary'[r] \in Counts
        /\ summary'[r].total = summary[r].total + 1
        /\ summary'[r].accepted = summary[r].accepted
        /\ summary'[r].rejected = summary[r].rejected + 1
        /\ \A q \in Others(r) : summary'[q] = summary[q]
    BY <1>0, <2>1, CountRejected
  <2>4. line[r] <= Len(job[r].file)
    BY <1>2
  <2>5. /\ pc' \in [Request -> Writing \cup {"idle", "batch", "insertBatch", "answered"}]
        /\ line' \in [Request -> Nat]
        /\ step' \in [Request -> Nat]
        /\ \A q \in Others(r) : pc'[q] = pc[q] /\ line'[q] = line[q] /\ step'[q] = step[q]
    BY <1>0, <1>1, <2>1, <2>4, NextLineMoves
  <2>6. Typed'
    BY <1>0, <1>6, <1>7, <2>3, <2>5 DEF Typed
  <2>7. Leaves(r)
    BY <1>6, <1>7, <2>3, <2>5 DEF Leaves
  <2>8. Accounted(f, k, With(Settled(r), f, k, "rejected"), own[r].matches, summary'[r])
    BY <1>2, <2>2, <2>3, LineRejected
  <2>9. Accounted(job[r].file, line[r], own'[r].records, own'[r].matches, summary'[r])
    BY <1>6, <2>2, <2>8
  <2>10. Conflicting(job[r].file, own'[r].records, matches \cup own'[r].matches)
    <3>1. RecordAt(f, k, "rejected").status # "conflict"
      BY RecordFields
    <3>2. own'[r].records = own[r].records \cup {RecordAt(f, k, "rejected")}
      BY <1>2, <1>6, <2>2 DEF With
    <3>3. QED BY <1>2, <1>6, <3>1, <3>2 DEF Conflicting
  <2>11. Mine(r)'
    BY <1>1, <1>2, <1>6, <1>7, <2>1, <2>4, <2>9, <2>10, OwnMatches, PassingIsMine
  <2>12. \A q \in Others(r) : Apart(q, r)'
    BY <1>1, <1>6, <1>7, <2>7, WritingIsApart
  <2>13. QED BY <1>7, <2>6, <2>7, <2>11, <2>12, LocalStep
<1>10. QED BY <1>8, <1>9

\* A request that goes on with the match it has in hand.
LEMMA MatchingIsMine ==
  ASSUME IInv, NEW r \in Request, pc[r] \in AtMatch, UNCHANGED <<stored, job>>,
         line'[r] = line[r], summary'[r] = summary[r], pc'[r] \in AtMatch,
         own'[r].records = own[r].records, own'[r].matches = own[r].matches,
         pc'[r] = "insertMatch" => \A m \in own[r].matches : m.key # Key(r),
         Referring(r)'
  PROVE  Mine(r)'
<1>0. Typed /\ Mine(r)
  BY DEF IInv
<1>1. pc[r] \in Writing /\ pc'[r] \in Writing /\ pc'[r] \notin {"idle", "answered"}
      /\ pc'[r] \notin {"batch", "insertBatch"} /\ pc'[r] # "record"
  BY DEF Writing, AtMatch
<1>2. job'[r] = job[r] /\ Importing(r)' = Importing(r) /\ matches' = matches
      /\ Key(r)' = Key(r)
  BY DEF Importing, Key, stored
<1>3. Importer(r)'
  <2>1. CASE Importing(r)
    <3>1. /\ line[r] \in AcceptedLines(job[r].file)
          /\ own[r].records = With(Settled(r), job[r].file, line[r], "accepted")
      BY <2>1, AtLine
    <3>2. QED BY <2>1, <3>1, AtMatchStill
  <2>2. CASE ~Importing(r)
    BY <1>2, <2>2 DEF Importer
  <2>3. QED BY <2>1, <2>2
<1>4. Creator(r)'
  BY <1>0, <1>1, <1>2 DEF Mine, Creator
<1>5. Resting(r)'
  <2>1. pc[r] # "idle"
    BY DEF AtMatch
  <2>2. QED BY <1>0, <1>1, <1>2, <2>1 DEF Mine, Resting
<1>6. Distinct(r)'
  BY <1>2, OwnMatches DEF Distinct
<1>7. Answering(r)'
  BY <1>1 DEF Answering
<1>8. QED BY <1>3, <1>4, <1>5, <1>6, <1>7 DEF Mine

\* With one reference there, the request is at the next one or at the match.
LEMMA NextReferenceKeeps ==
  ASSUME IInv, NEW r \in Request, pc[r] \in {"select", "insert"}, NextReference(r),
         UNCHANGED <<stored, job, line>>, own[r].keys \subseteq own'[r].keys,
         own'[r].matches = own[r].matches, Reference(r) \in keys \cup own'[r].keys
  PROVE  /\ Referring(r)'
         /\ pc' \in [Request -> Writing \cup {"idle", "batch", "insertBatch", "answered"}]
         /\ step' \in [Request -> Nat]
         /\ pc'[r] \in {"select", "selectMatch"}
         /\ \A q \in Others(r) : pc'[q] = pc[q] /\ step'[q] = step[q]
<1>0. Typed /\ Mine(r)
  BY DEF IInv
<1>1. /\ step[r] \in 1..4
      /\ \A j \in 1..4 : j < step[r] => References(Key(r))[j] \in keys \cup own[r].keys
  BY <1>0 DEF Mine, Referring, AtMatch
<1>2. \A j \in 1..4 : j < step[r] \/ j = step[r] =>
        References(Key(r))[j] \in keys' \cup own'[r].keys
  BY <1>1 DEF Reference, stored
<1>3. Key(r)' = Key(r)
  BY DEF Key, Importing
<1>4. \A m \in own'[r].matches : \A j \in 1..4 :
        References(m.key)[j] \in keys' \cup own'[r].keys
  BY OwnMatches DEF stored
<1>5. CASE step[r] < Len(References(Key(r)))
  <2>1. pc' = [pc EXCEPT ![r] = "select"] /\ step' = [step EXCEPT ![r] = @ + 1]
    BY <1>5 DEF NextReference, Goto
  <2>2. step[r] < 4
    BY <1>5, FourReferences
  <2>3. /\ pc'[r] = "select" /\ step'[r] = step[r] + 1 /\ step'[r] \in 1..4
        /\ \A q \in Others(r) : pc'[q] = pc[q] /\ step'[q] = step[q]
    BY <1>0, <1>1, <2>1, <2>2 DEF Typed, Others
  <2>4. /\ pc' \in [Request -> Writing \cup {"idle", "batch", "insertBatch", "answered"}]
        /\ step' \in [Request -> Nat]
    BY <1>0, <1>1, <2>1 DEF Typed, Writing, AtMatch
  <2>5. \A j \in 1..4 : j < step'[r] => j < step[r] \/ j = step[r]
    BY <1>1, <2>3
  <2>6. Referring(r)'
    BY <1>2, <1>3, <1>4, <2>3, <2>5 DEF Referring
  <2>7. QED BY <2>3, <2>4, <2>6
<1>6. CASE ~(step[r] < Len(References(Key(r))))
  <2>1. pc' = [pc EXCEPT ![r] = "selectMatch"] /\ step' = step
    BY <1>6 DEF NextReference, Goto
  <2>2. step[r] = 4
    <3>1. Len(References(Key(r))) = 4
      BY FourReferences
    <3>2. QED BY <1>1, <1>6, <3>1
  <2>3. /\ pc'[r] = "selectMatch"
        /\ \A q \in Others(r) : pc'[q] = pc[q] /\ step'[q] = step[q]
        /\ pc' \in [Request -> Writing \cup {"idle", "batch", "insertBatch", "answered"}]
        /\ step' \in [Request -> Nat]
    BY <1>0, <2>1 DEF Typed, Others, Writing, AtMatch
  <2>4. \A j \in 1..4 : j < step[r] \/ j = step[r]
    BY <2>2
  <2>5. Referring(r)'
    BY <1>2, <1>3, <1>4, <2>3, <2>4 DEF Referring
  <2>6. QED BY <2>3, <2>5
<1>7. QED BY <1>5, <1>6

LEMMA SelectKeeps ==
  ASSUME IInv, NEW r \in Request, Select(r)
  PROVE  IInv'
<1>0. Typed /\ Mine(r) /\ pc[r] = "select"
  BY DEF IInv, Select
<1>1. UNCHANGED <<stored, job, line, own, summary>>
  BY DEF Select
<1>2. pc[r] \in AtMatch /\ pc[r] \in Writing
  BY <1>0 DEF AtMatch, Writing
<1>3. CASE Reference(r) \in keys \cup own[r].keys
  <2>1. NextReference(r)
    BY <1>3 DEF Select
  <2>2. /\ Referring(r)'
        /\ pc' \in [Request -> Writing \cup {"idle", "batch", "insertBatch", "answered"}]
        /\ step' \in [Request -> Nat]
        /\ pc'[r] \in {"select", "selectMatch"}
        /\ \A q \in Others(r) : pc'[q] = pc[q] /\ step'[q] = step[q]
    BY <1>0, <1>1, <1>3, <2>1, NextReferenceKeeps
  <2>3. Leaves(r)
    BY <1>1, <2>2 DEF Leaves
  <2>4. Typed'
    BY <1>0, <1>1, <2>2 DEF Typed
  <2>5. pc'[r] \in AtMatch /\ pc'[r] # "insertMatch"
    BY <2>2 DEF AtMatch
  <2>6. Mine(r)'
    BY <1>1, <1>2, <2>2, <2>5, MatchingIsMine
  <2>7. \A q \in Others(r) : Apart(q, r)'
    BY <1>1, <1>2, <2>3, WritingIsApart
  <2>8. QED BY <1>1, <2>3, <2>4, <2>6, <2>7, LocalStep
<1>4. CASE ~(Reference(r) \in keys \cup own[r].keys)
  <2>1. pc' = [pc EXCEPT ![r] = "insert"] /\ step' = step
    BY <1>4 DEF Select, Goto
  <2>2. pc'[r] = "insert" /\ pc'[r] \in AtMatch
    BY <1>0, <2>1 DEF Typed, AtMatch
  <2>3. Leaves(r)
    BY <1>0, <1>1, <2>1 DEF Leaves, Typed, Others
  <2>4. Typed'
    BY <1>0, <1>1, <2>1 DEF Typed, Writing, AtMatch
  <2>5. Referring(r)'
    <3>1. Key(r)' = Key(r) /\ keys' = keys
      BY <1>1 DEF Key, Importing, stored
    <3>2. Referring(r)
      BY <1>0 DEF Mine
    <3>3. QED BY <1>0, <1>1, <2>1, <2>2, <3>1, <3>2 DEF Referring, AtMatch
  <2>6. Mine(r)'
    BY <1>1, <1>2, <2>2, <2>5, MatchingIsMine
  <2>7. \A q \in Others(r) : Apart(q, r)'
    BY <1>1, <1>2, <2>3, WritingIsApart
  <2>8. QED BY <1>1, <2>3, <2>4, <2>6, <2>7, LocalStep
<1>5. QED BY <1>3, <1>4

LEMMA InsertKeeps ==
  ASSUME IInv, NEW r \in Request, Insert(r)
  PROVE  IInv'
<1>0. Typed /\ Mine(r) /\ pc[r] = "insert"
  BY DEF IInv, Insert
<1>1. CASE Reference(r) \in keys
  <2>1. Fail(r)
    BY <1>1 DEF Insert
  <2>2. QED BY <2>1, FailKeeps
<1>2. CASE Reference(r) \notin keys
  <2>1. /\ own' = [own EXCEPT ![r].keys = @ \cup {Reference(r)}]
        /\ NextReference(r)
        /\ UNCHANGED <<stored, job, line, summary>>
    BY <1>2 DEF Insert
  <2>2. pc[r] \in AtMatch /\ pc[r] \in Writing
    BY <1>0 DEF AtMatch, Writing
  <2>3. /\ own'[r].keys = own[r].keys \cup {Reference(r)}
        /\ own'[r].matches = own[r].matches
        /\ own'[r].records = own[r].records
        /\ DOMAIN own' = Request
        /\ \A q \in Request : DOMAIN own'[q] = {"keys", "matches", "records"}
        /\ \A q \in Others(r) : own'[q] = own[q]
    BY <1>0, <2>1, OwnKeys
  <2>4. /\ Referring(r)'
        /\ pc' \in [Request -> Writing \cup {"idle", "batch", "insertBatch", "answered"}]
        /\ step' \in [Request -> Nat]
        /\ pc'[r] \in {"select", "selectMatch"}
        /\ \A q \in Others(r) : pc'[q] = pc[q] /\ step'[q] = step[q]
    BY <1>0, <2>1, <2>3, NextReferenceKeeps
  <2>5. Leaves(r)
    BY <2>1, <2>3, <2>4 DEF Leaves
  <2>6. Typed'
    BY <1>0, <2>1, <2>3, <2>4 DEF Typed
  <2>7. pc'[r] \in AtMatch /\ pc'[r] # "insertMatch"
    BY <2>4 DEF AtMatch
  <2>8. Mine(r)'
    BY <2>1, <2>2, <2>3, <2>4, <2>7, MatchingIsMine
  <2>9. \A q \in Others(r) : Apart(q, r)'
    BY <2>1, <2>2, <2>3, <2>5, WritingIsApart
  <2>10. QED BY <2>1, <2>5, <2>6, <2>8, <2>9, LocalStep
<1>3. QED BY <1>1, <1>2

\* A draft that has its match, stored before by another or inserted by itself.
LEMMA DraftIsMine ==
  ASSUME IInv, NEW r \in Request, pc[r] \in AtMatch, ~Importing(r), UNCHANGED <<stored, job>>,
         pc'[r] = "written", own'[r].records = own[r].records,
         \A m \in own'[r].matches : m.source = Manual /\ m.statistics = NoStatistics,
         \A m \in own'[r].matches : \A j \in 1..4 :
           References(m.key)[j] \in keys \cup own'[r].keys,
         \A m, n \in own'[r].matches : m.key = n.key => m = n,
         \A m \in own'[r].matches, n \in matches : m.key # n.key
  PROVE  Mine(r)'
<1>0. Mine(r) /\ pc[r] \in Writing /\ pc'[r] \in Writing
  BY DEF IInv, Writing, AtMatch
<1>1. ~Importing(r)' /\ keys' = keys /\ matches' = matches /\ job'[r] = job[r]
  BY DEF Importing, stored
<1>2. Importer(r)' /\ Answering(r)'
  BY <1>1 DEF Importer, Answering
<1>3. Creator(r)'
  BY <1>0, <1>1 DEF Mine, Creator
<1>4. Resting(r)'
  BY <1>0, <1>1, <1>3 DEF Creator, Resting, Jobs
<1>5. Referring(r)'
  BY <1>1 DEF Referring, AtMatch
<1>6. Distinct(r)'
  BY <1>1 DEF Distinct
<1>7. QED BY <1>2, <1>3, <1>4, <1>5, <1>6 DEF Mine

LEMMA DraftWritten ==
  ASSUME IInv, NEW r \in Request, pc[r] \in AtMatch, ~Importing(r), UNCHANGED <<stored, job>>,
         pc' = [pc EXCEPT ![r] = "written"], UNCHANGED <<line, step, own, summary>>
  PROVE  IInv'
<1>0. Typed /\ Mine(r)
  BY DEF IInv
<1>1. pc'[r] = "written" /\ pc[r] \in Writing
  BY <1>0 DEF Typed, Writing
<1>2. Leaves(r)
  BY <1>0 DEF Leaves, Typed, Others
<1>3. Typed'
  BY <1>0 DEF Typed, Writing
<1>4. \A m \in own'[r].matches : m.source = Manual /\ m.statistics = NoStatistics
  BY <1>0, <1>1 DEF Mine, Creator
<1>5. Mine(r)'
  BY <1>1, <1>4, OwnMatches, DraftIsMine
<1>6. \A q \in Others(r) : Apart(q, r)'
  BY <1>1, <1>2, WritingIsApart
<1>7. QED BY <1>2, <1>3, <1>5, <1>6, LocalStep

LEMMA SelectMatchKeeps ==
  ASSUME IInv, NEW r \in Request, SelectMatch(r)
  PROVE  IInv'
<1>0. Typed /\ Mine(r) /\ pc[r] = "selectMatch"
  BY DEF IInv, SelectMatch
<1>1. UNCHANGED <<stored, job>>
  BY DEF SelectMatch
<1>2. pc[r] \in AtMatch /\ pc[r] \in Writing
  BY <1>0 DEF AtMatch, Writing
<1>3. \A j \in 1..4 : References(Key(r))[j] \in keys \cup own[r].keys
  BY <1>0 DEF Mine, Referring, AtMatch
<1>4. CASE ~Stored(r)
  <2>1. pc' = [pc EXCEPT ![r] = "insertMatch"] /\ UNCHANGED <<line, step, own, summary>>
    BY <1>4 DEF SelectMatch, Goto
  <2>2. pc'[r] = "insertMatch" /\ pc'[r] \in AtMatch
    BY <1>0, <2>1 DEF Typed, AtMatch
  <2>3. Leaves(r)
    BY <1>0, <1>1, <2>1 DEF Leaves, Typed, Others
  <2>4. Typed'
    BY <1>0, <1>1, <2>1 DEF Typed, Writing, AtMatch
  <2>5. Key(r)' = Key(r) /\ keys' = keys
    BY <1>1, <2>1 DEF Key, Importing, stored
  <2>6. Referring(r)'
    BY <1>3, <2>1, <2>2, <2>5, OwnMatches DEF Referring
  <2>7. \A m \in own[r].matches : m.key # Key(r)
    BY <1>4 DEF Stored
  <2>8. Mine(r)'
    BY <1>1, <1>2, <2>1, <2>2, <2>6, <2>7, MatchingIsMine
  <2>9. \A q \in Others(r) : Apart(q, r)'
    BY <1>1, <1>2, <2>1, <2>3, WritingIsApart
  <2>10. QED BY <1>1, <2>3, <2>4, <2>8, <2>9, LocalStep
<1>5. CASE Stored(r) /\ ~Importing(r)
  <2>1. pc' = [pc EXCEPT ![r] = "written"] /\ UNCHANGED <<line, step, own, summary>>
    BY <1>5 DEF SelectMatch, Goto
  <2>2. QED BY <1>0, <1>1, <1>2, <1>5, <2>1, DraftWritten
<1>6. CASE Stored(r) /\ Importing(r)
  <2> DEFINE f == job[r].file
             k == line[r]
             old == RecordAt(f, k, "accepted")
             new == RecordAt(f, k, "conflict")
             S == {IF s.line = k
                   THEN [s EXCEPT !.status = "conflict",
                                  !.issues = {"canonical_match_conflict"}]
                   ELSE s : s \in own[r].records}
  <2>1. /\ own' = [own EXCEPT ![r].records = S]
        /\ Count(r, "rejected") /\ NextLine(r)
    BY <1>6 DEF SelectMatch
  <2>2. /\ f \in File /\ k \in 1..Len(f) /\ Len(f) \in Nat
        /\ k \in Nat /\ k - 1 \in Nat /\ k = (k - 1) + 1
        /\ Passed(r) = k - 1
        /\ Accounted(f, k - 1, Settled(r), own[r].matches, summary[r])
        /\ Conflicting(f, own[r].records, matches \cup own[r].matches)
        /\ k \in AcceptedLines(f)
        /\ own[r].records = With(Settled(r), f, k, "accepted")
        /\ \A b \in batches : b.file # f
    BY <1>2, <1>6, AtLine
  <2>3. S = With(Settled(r), f, k, "conflict")
    <3>1. old.line = k /\ own[r].records = Settled(r) \cup {old}
      BY <2>2 DEF With, RecordAt
    <3>2. [old EXCEPT !.status = "conflict", !.issues = {"canonical_match_conflict"}] = new
      <4> DEFINE issues == Issues(f[k])
      <4>1. old = [file |-> f, line |-> k, issues |-> issues, status |-> "accepted"]
        BY DEF RecordAt
      <4>2. new = [file |-> f, line |-> k, issues |-> {"canonical_match_conflict"},
                   status |-> "conflict"]
        BY DEF RecordAt
      <4> HIDE DEF old, new, issues
      <4> DEFINE half == [old EXCEPT !.status = "conflict"]
      <4>3. half = [file |-> f, line |-> k, issues |-> issues, status |-> "conflict"]
        BY <4>1
      <4>4. [old EXCEPT !.status = "conflict", !.issues = {"canonical_match_conflict"}]
              = [half EXCEPT !.issues = {"canonical_match_conflict"}]
        OBVIOUS
      <4> HIDE DEF half
      <4>5. QED BY <4>2, <4>3, <4>4
    <3>3. \A s \in Settled(r) : s.line # k
      BY <2>2 DEF Settled
    <3>4. With(Settled(r), f, k, "conflict") = Settled(r) \cup {new}
      BY DEF With
    <3> HIDE DEF old, new
    <3>5. QED BY <3>1, <3>2, <3>3, <3>4
  <2> HIDE DEF S
  <2>4. /\ own'[r].records = S
        /\ own'[r].matches = own[r].matches
        /\ own'[r].keys = own[r].keys
        /\ DOMAIN own' = Request
        /\ \A q \in Request : DOMAIN own'[q] = {"keys", "matches", "records"}
        /\ \A q \in Others(r) : own'[q] = own[q]
    BY <1>0, <2>1, OwnRecords
  <2>5. /\ summary' \in [Request -> Counts]
        /\ summary[r] \in Counts /\ summary'[r] \in Counts
        /\ summary'[r].total = summary[r].total + 1
        /\ summary'[r].accepted = summary[r].accepted
        /\ summary'[r].rejected = summary[r].rejected + 1
        /\ \A q \in Others(r) : summary'[q] = summary[q]
    BY <1>0, <2>1, CountRejected
  <2>6. line[r] <= Len(job[r].file)
    BY <2>2
  <2>7. /\ pc' \in [Request -> Writing \cup {"idle", "batch", "insertBatch", "answered"}]
        /\ line' \in [Request -> Nat]
        /\ step' \in [Request -> Nat]
        /\ \A q \in Others(r) : pc'[q] = pc[q] /\ line'[q] = line[q] /\ step'[q] = step[q]
    BY <1>0, <1>6, <2>1, <2>6, NextLineMoves
  <2>8. Typed'
    BY <1>0, <1>1, <2>4, <2>5, <2>7 DEF Typed
  <2>9. Leaves(r)
    BY <1>1, <2>4, <2>5, <2>7 DEF Leaves
  <2>10. Accounted(job[r].file, line[r], own'[r].records, own'[r].matches, summary'[r])
    <3>1. Accounted(f, k, With(Settled(r), f, k, "conflict"), own[r].matches, summary'[r])
      BY <2>2, <2>5, LineInConflict
    <3>2. QED BY <2>3, <2>4, <3>1
  <2>11. Conflicting(job[r].file, own'[r].records, matches \cup own'[r].matches)
    <3>1. PICK m \in matches \cup own[r].matches : m.key = Key(r)
      BY <1>6 DEF Stored
    <3>2. m.key = MatchKey(f[k])
      BY <1>6, <3>1 DEF Key
    <3>3. m.source # [file |-> f, line |-> k]
      <4>1. CASE m \in own[r].matches
        <5>1. m.source.line \in 1..(k - 1)
          BY <2>2, <4>1 DEF Accounted
        <5>2. m.source.line # k
          BY <2>2, <5>1
        <5>3. QED BY <5>2
      <4>2. CASE m \in matches /\ m.source = Manual
        <5>1. Manual.line # k
          BY <2>2 DEF Manual
        <5>2. QED BY <4>2, <5>1
      <4>3. CASE m \in matches /\ m.source # Manual
        <5>1. m.source.file # f
          BY <2>2, <4>3 DEF IInv, Batches
        <5>2. QED BY <5>1
      <4>4. QED BY <3>1, <4>1, <4>2, <4>3
    <3>4. new.line = k /\ own'[r].records = Settled(r) \cup {new}
      BY <2>3, <2>4, RecordFields DEF With
    <3>5. Settled(r) \subseteq own[r].records
      BY DEF Settled
    <3> HIDE DEF new
    <3>6. QED BY <2>2, <2>4, <3>1, <3>2, <3>3, <3>4, <3>5 DEF Conflicting
  <2>12. Mine(r)'
    BY <1>1, <1>6, <2>1, <2>2, <2>4, <2>6, <2>10, <2>11, OwnMatches, PassingIsMine
  <2>13. \A q \in Others(r) : Apart(q, r)'
    BY <1>1, <1>2, <2>4, <2>9, WritingIsApart
  <2>14. QED BY <1>1, <2>8, <2>9, <2>12, <2>13, LocalStep
<1>7. QED BY <1>4, <1>5, <1>6

LEMMA InsertMatchKeeps ==
  ASSUME IInv, NEW r \in Request, InsertMatch(r)
  PROVE  IInv'
<1> DEFINE new == NewMatch(r)
<1>0. Typed /\ Mine(r) /\ pc[r] = "insertMatch" /\ Holders(r) = {}
  BY DEF IInv, InsertMatch
<1>1. CASE \E m \in matches : m.key = Key(r)
  <2>1. Fail(r)
    BY <1>1 DEF InsertMatch
  <2>2. QED BY <2>1, FailKeeps
<1>2. CASE ~\E m \in matches : m.key = Key(r)
  <2>1. /\ own' = [own EXCEPT ![r].matches = @ \cup {new}]
        /\ UNCHANGED <<stored, job>>
    BY <1>2 DEF InsertMatch
  <2>2. pc[r] \in AtMatch /\ pc[r] \in Writing
    BY <1>0 DEF AtMatch, Writing
  <2>3. new.key = Key(r)
    BY DEF NewMatch
  <2> HIDE DEF new
  <2>4. /\ own'[r].matches = own[r].matches \cup {new}
        /\ own'[r].records = own[r].records
        /\ own'[r].keys = own[r].keys
        /\ DOMAIN own' = Request
        /\ \A q \in Request : DOMAIN own'[q] = {"keys", "matches", "records"}
        /\ \A q \in Others(r) : own'[q] = own[q]
    BY <1>0, <2>1, OwnMatch
  <2>5. \A m \in own'[r].matches : \A j \in 1..4 :
          References(m.key)[j] \in keys \cup own'[r].keys
    <3>1. \A j \in 1..4 : References(Key(r))[j] \in keys \cup own[r].keys
      BY <1>0 DEF Mine, Referring, AtMatch
    <3>2. QED BY <2>3, <2>4, <3>1, OwnMatches
  <2>6. \A m, n \in own'[r].matches : m.key = n.key => m = n
    <3>1. \A m \in own[r].matches : m.key # Key(r)
      BY <1>0 DEF Mine, Distinct
    <3>2. QED BY <2>3, <2>4, <3>1, OwnMatches
  <2>7. \A m \in own'[r].matches, n \in matches : m.key # n.key
    BY <1>2, <2>3, <2>4, OwnMatches
  <2>8. ASSUME NEW q \in Others(r), Leaves(r)
        PROVE  Apart(q, r)'
    <3>1. \A n \in own[q].matches : n.key # Key(r)
      BY <1>0 DEF Holders, Others
    <3>2. QED BY <2>1, <2>2, <2>3, <2>4, <2>8, <3>1, WritingIsApart
  <2>9. CASE Importing(r)
    <3> DEFINE f == job[r].file
               k == line[r]
    <3>1. NextLine(r) /\ Count(r, "accepted")
      BY <1>2, <2>9 DEF InsertMatch
    <3>2. /\ f \in File /\ k \in 1..Len(f) /\ Len(f) \in Nat
          /\ k \in Nat /\ k - 1 \in Nat /\ k = (k - 1) + 1
          /\ Accounted(f, k - 1, Settled(r), own[r].matches, summary[r])
          /\ Conflicting(f, own[r].records, matches \cup own[r].matches)
          /\ k \in AcceptedLines(f)
          /\ own[r].records = With(Settled(r), f, k, "accepted")
          /\ \A b \in batches : b.file # f
      BY <2>2, <2>9, AtLine
    <3>3. new = MatchAt(f, k)
      BY <2>9 DEF new, NewMatch, MatchAt, Key
    <3>4. /\ summary' \in [Request -> Counts]
          /\ summary[r] \in Counts /\ summary'[r] \in Counts
          /\ summary'[r].total = summary[r].total + 1
          /\ summary'[r].accepted = summary[r].accepted + 1
          /\ summary'[r].rejected = summary[r].rejected
          /\ \A q \in Others(r) : summary'[q] = summary[q]
      BY <1>0, <3>1, CountAccepted
    <3>5. line[r] <= Len(job[r].file)
      BY <3>2
    <3>6. /\ pc' \in [Request -> Writing \cup {"idle", "batch", "insertBatch", "answered"}]
          /\ line' \in [Request -> Nat]
          /\ step' \in [Request -> Nat]
          /\ \A q \in Others(r) : pc'[q] = pc[q] /\ line'[q] = line[q] /\ step'[q] = step[q]
      BY <1>0, <2>9, <3>1, <3>5, NextLineMoves
    <3>7. Typed'
      BY <1>0, <2>1, <2>4, <3>4, <3>6 DEF Typed
    <3>8. Leaves(r)
      BY <2>1, <2>4, <3>4, <3>6 DEF Leaves
    <3>9. Accounted(job[r].file, line[r], own'[r].records, own'[r].matches, summary'[r])
      <4>1. Accounted(f, k, With(Settled(r), f, k, "accepted"),
                      own[r].matches \cup {MatchAt(f, k)}, summary'[r])
        BY <3>2, <3>4, LineAccepted
      <4>2. QED BY <2>4, <3>2, <3>3, <4>1
    <3>10. Conflicting(job[r].file, own'[r].records, matches \cup own'[r].matches)
      BY <2>4, <3>2 DEF Conflicting
    <3>11. Mine(r)'
      BY <2>1, <2>5, <2>6, <2>7, <2>9, <3>1, <3>2, <3>5, <3>9, <3>10, PassingIsMine
    <3>12. QED BY <2>1, <2>8, <3>7, <3>8, <3>11, LocalStep
  <2>10. CASE ~Importing(r)
    <3>1. pc' = [pc EXCEPT ![r] = "written"] /\ UNCHANGED <<line, step, summary>>
      BY <1>2, <2>10 DEF InsertMatch, Goto
    <3>2. pc'[r] = "written"
      BY <1>0, <3>1 DEF Typed
    <3>3. Leaves(r)
      BY <1>0, <2>1, <2>4, <3>1 DEF Leaves, Typed, Others
    <3>4. Typed'
      BY <1>0, <2>1, <2>4, <3>1 DEF Typed, Writing
    <3>5. new.source = Manual /\ new.statistics = NoStatistics
      BY <2>10 DEF new, NewMatch
    <3>6. \A m \in own'[r].matches : m.source = Manual /\ m.statistics = NoStatistics
      BY <1>0, <2>2, <2>4, <2>10, <3>5 DEF Mine, Creator
    <3>7. Mine(r)'
      BY <2>1, <2>2, <2>4, <2>5, <2>6, <2>7, <2>10, <3>2, <3>6, DraftIsMine
    <3>8. QED BY <2>1, <2>8, <3>3, <3>4, <3>7, LocalStep
  <2>11. QED BY <2>9, <2>10
<1>3. QED BY <1>1, <1>2

-----------------------------------------------------------------------------
(* The commit. *)

\* The rows of r become visible, with the batch of its file.
LEMMA CommitMakes ==
  ASSUME IInv, NEW r \in Request, Commit(r)
  PROVE  /\ keys' = keys \cup own[r].keys
         /\ matches' = matches \cup own[r].matches
         /\ records' = records \cup own[r].records
         /\ Importing(r) => batches' = batches \cup {Batch(r)}
         /\ ~Importing(r) => batches' = batches
         /\ pc'[r] = "answered" /\ own'[r] = Empty
         /\ job' = job /\ line' = line /\ step' = step /\ summary' = summary
         /\ Typed'
         /\ Leaves(r)
<1>0. Typed
  BY DEF IInv
<1>1. /\ pc' = [pc EXCEPT ![r] = "answered"] /\ own' = [own EXCEPT ![r] = Empty]
      /\ job' = job /\ line' = line /\ step' = step /\ summary' = summary
  BY DEF Commit, Goto
<1>2. Typed'
  BY <1>0, <1>1 DEF Typed, Empty
<1>3. Leaves(r) /\ pc'[r] = "answered" /\ own'[r] = Empty
  BY <1>0, <1>1 DEF Typed, Leaves, Others
<1>4. QED BY <1>1, <1>2, <1>3 DEF Commit

\* What an import has when it commits.
LEMMA WrittenImport ==
  ASSUME IInv, NEW r \in Request, Importing(r), pc[r] = "written"
  PROVE  /\ job[r].file \in File
         /\ Accounted(job[r].file, Len(job[r].file), own[r].records, own[r].matches, summary[r])
         /\ Conflicting(job[r].file, own[r].records, matches \cup own[r].matches)
         /\ \A s \in own[r].records : s.file = job[r].file
         /\ \A m \in own[r].matches : m.source.file = job[r].file /\ m.source # Manual
         /\ \A b \in batches : b.file # job[r].file
         /\ AllRecords(job[r].file) = {} /\ MatchesOf(job[r].file) = {}
<1> DEFINE f == job[r].file
<1>1. Typed /\ Importer(r)
  BY DEF IInv, Mine
<1>2. f \in File /\ Len(f) \in Nat
  BY <1>1, ImportTyped
<1>3. pc[r] \in Writing /\ pc[r] \notin AtMatch
  BY DEF Writing, AtMatch
<1>4. /\ line[r] = Len(f) /\ Passed(r) = Len(f) /\ own[r].records = Settled(r)
      /\ Conflicting(f, own[r].records, matches \cup own[r].matches)
      /\ \A b \in batches : b.file # f
      /\ Accounted(f, Passed(r), Settled(r), own[r].matches, summary[r])
  BY <1>1, <1>3 DEF Importer, Passed
<1>5. Accounted(f, Len(f), own[r].records, own[r].matches, summary[r])
  BY <1>4
<1>6. \A s \in own[r].records : s = RecordAt(f, s.line, s.status)
  BY <1>5 DEF Accounted, Itemised
<1>7. \A s \in own[r].records : s.file = f
  BY <1>6, RecordFields
<1>8. \A m \in own[r].matches : m.source.line \in 1..Len(f) /\ m = MatchAt(f, m.source.line)
  BY <1>5 DEF Accounted
<1>9. \A m \in own[r].matches : m.source.file = f /\ m.source # Manual
  <2> SUFFICES ASSUME NEW m \in own[r].matches PROVE m.source.file = f /\ m.source # Manual
    OBVIOUS
  <2>1. m.source = [file |-> f, line |-> m.source.line]
    BY <1>8 DEF MatchAt
  <2>2. m.source.line # 0 /\ Manual.line = 0
    BY <1>2, <1>8 DEF Manual
  <2>3. m.source # Manual
    BY <2>2
  <2>4. QED BY <2>1, <2>3
<1>10. AllRecords(f) = {} /\ MatchesOf(f) = {}
  BY <1>4 DEF IInv, Batches, AllRecords, MatchesOf
<1>11. QED BY <1>2, <1>4, <1>5, <1>7, <1>9, <1>10

LEMMA WrittenDraft ==
  ASSUME IInv, NEW r \in Request, ~Importing(r), pc[r] = "written"
  PROVE  /\ own[r].records = {}
         /\ \A m \in own[r].matches : m.source = Manual /\ m.statistics = NoStatistics
BY DEF IInv, Mine, Creator, Writing

LEMMA CommitKeepsOthers ==
  ASSUME IInv, NEW r \in Request, Commit(r), NEW q \in Others(r)
  PROVE  Mine(q)'
<1>0. /\ keys' = keys \cup own[r].keys
      /\ matches' = matches \cup own[r].matches
      /\ Importing(r) => batches' = batches \cup {Batch(r)}
      /\ ~Importing(r) => batches' = batches
      /\ job' = job
  BY CommitMakes
<1>1. /\ pc'[q] = pc[q] /\ job'[q] = job[q] /\ line'[q] = line[q]
      /\ step'[q] = step[q] /\ own'[q] = own[q] /\ summary'[q] = summary[q]
  BY CommitMakes DEF Leaves
<1>2. Mine(q) /\ Apart(q, r) /\ pc[r] = "written" /\ q \in Request
  BY DEF IInv, Others, Commit
<1>3. Importing(q)' = Importing(q) /\ Passed(q)' = Passed(q) /\ Settled(q)' = Settled(q)
      /\ Key(q)' = Key(q)
  BY <1>1 DEF Importing, Passed, Settled, Key
<1>4. Importer(q)'
  <2> SUFFICES ASSUME Importing(q), pc[q] \in Writing PROVE Importer(q)'
    BY <1>1, <1>3 DEF Importer
  <2>1. \A b \in batches' : b.file # job[q].file
    <3>1. \A b \in batches : b.file # job[q].file
      BY <1>2 DEF Mine, Importer
    <3>2. Importing(r) => job[q].file # job[r].file
      BY <1>2 DEF Apart, Writing
    <3>3. Batch(r).file = job[r].file
      BY DEF Batch
    <3>4. QED BY <1>0, <3>1, <3>2, <3>3
  <2>2. Conflicting(job[q].file, own[q].records, matches' \cup own[q].matches)
    <3>1. Conflicting(job[q].file, own[q].records, matches \cup own[q].matches)
      BY <1>2 DEF Mine, Importer
    <3>2. QED BY <1>0, <3>1 DEF Conflicting
  <2>3. Importer(q)
    BY <1>2 DEF Mine
  <2>4. QED BY <1>1, <1>3, <2>1, <2>2, <2>3 DEF Importer
<1>5. Creator(q)' /\ Resting(q)'
  BY <1>1, <1>2, <1>3 DEF Mine, Creator, Resting
<1>6. Referring(q)'
  BY <1>0, <1>1, <1>2, <1>3 DEF Mine, Referring
<1>7. Distinct(q)'
  <2>1. \A m \in own[q].matches, n \in matches' : m.key # n.key
    BY <1>0, <1>2 DEF Mine, Distinct, Apart
  <2>2. QED BY <1>1, <1>2, <1>3, <2>1 DEF Mine, Distinct
<1>8. Answering(q)'
  <2>1. batches \subseteq batches'
    BY <1>0
  <2>2. QED BY <1>1, <1>2, <1>3, <2>1 DEF Mine, Answering
<1>9. QED BY <1>4, <1>5, <1>6, <1>7, <1>8 DEF Mine

LEMMA CommitKeepsBatches ==
  ASSUME IInv, NEW r \in Request, Commit(r)
  PROVE  Batches'
<1> DEFINE f == job[r].file
           new == Batch(r)
<1>0. /\ matches' = matches \cup own[r].matches
      /\ records' = records \cup own[r].records
      /\ Importing(r) => batches' = batches \cup {new}
      /\ ~Importing(r) => batches' = batches
      /\ pc[r] = "written"
  BY CommitMakes DEF Commit
<1>1. Batches
  BY DEF IInv
<1>2. CASE Importing(r)
  <2>1. /\ f \in File
        /\ Accounted(f, Len(f), own[r].records, own[r].matches, summary[r])
        /\ Conflicting(f, own[r].records, matches \cup own[r].matches)
        /\ \A s \in own[r].records : s.file = f
        /\ \A m \in own[r].matches : m.source.file = f /\ m.source # Manual
        /\ \A b \in batches : b.file # f
        /\ AllRecords(f) = {} /\ MatchesOf(f) = {}
    BY <1>0, <1>2, WrittenImport
  <2>2. new.file = f /\ new.counts = summary[r]
    BY DEF Batch
  <2>3. batches' = batches \cup {new}
    BY <1>0, <1>2
  <2> HIDE DEF new, f
  <2>4. /\ {s \in records' : s.file = f} = own[r].records
        /\ {m \in matches' : m.source # Manual /\ m.source.file = f} = own[r].matches
    BY <1>0, <2>1 DEF AllRecords, MatchesOf
  <2>5. ASSUME NEW b \in batches'
        PROVE  /\ b.file \in File
               /\ \A c \in batches' : c.file = b.file => c = b
               /\ Accounted(b.file, Len(b.file), AllRecords(b.file)', MatchesOf(b.file)', b.counts)
               /\ Conflicting(b.file, AllRecords(b.file)', matches')
    <3>1. CASE b = new
      <4>1. AllRecords(b.file)' = own[r].records /\ MatchesOf(b.file)' = own[r].matches
        BY <2>2, <2>4, <3>1 DEF AllRecords, MatchesOf
      <4>2. \A c \in batches' : c.file = b.file => c = b
        BY <2>1, <2>2, <2>3, <3>1
      <4>3. Conflicting(b.file, AllRecords(b.file)', matches')
        BY <1>0, <2>1, <2>2, <3>1, <4>1
      <4>4. Accounted(b.file, Len(b.file), AllRecords(b.file)', MatchesOf(b.file)', b.counts)
        BY <2>1, <2>2, <3>1, <4>1
      <4>5. QED BY <2>1, <2>2, <3>1, <4>2, <4>3, <4>4
    <3>2. CASE b \in batches
      <4>1. b.file # f
        BY <2>1, <3>2
      <4>2. AllRecords(b.file)' = AllRecords(b.file) /\ MatchesOf(b.file)' = MatchesOf(b.file)
        BY <1>0, <2>1, <4>1 DEF AllRecords, MatchesOf
      <4>3. /\ b.file \in File
            /\ \A c \in batches : c.file = b.file => c = b
            /\ Accounted(b.file, Len(b.file), AllRecords(b.file), MatchesOf(b.file), b.counts)
            /\ Conflicting(b.file, AllRecords(b.file), matches)
        BY <1>1, <3>2 DEF Batches
      <4>4. Conflicting(b.file, AllRecords(b.file)', matches')
        BY <1>0, <4>2, <4>3 DEF Conflicting
      <4>5. \A c \in batches' : c.file = b.file => c = b
        BY <2>2, <2>3, <4>1, <4>3
      <4>6. QED BY <4>2, <4>3, <4>4, <4>5
    <3>3. QED BY <2>3, <3>1, <3>2
  <2>6. \A s \in records' : \E b \in batches' : b.file = s.file
    BY <1>0, <1>1, <2>1, <2>2, <2>3 DEF Batches
  <2>7. \A m \in matches' : m.source # Manual => \E b \in batches' : b.file = m.source.file
    BY <1>0, <1>1, <2>1, <2>2, <2>3 DEF Batches
  <2>8. QED BY <2>5, <2>6, <2>7 DEF Batches
<1>3. CASE ~Importing(r)
  <2>1. /\ own[r].records = {}
        /\ \A m \in own[r].matches : m.source = Manual
    BY <1>0, <1>3, WrittenDraft
  <2>2. batches' = batches /\ records' = records
    BY <1>0, <1>3, <2>1
  <2>3. ASSUME NEW b \in batches
        PROVE  /\ AllRecords(b.file)' = AllRecords(b.file)
               /\ MatchesOf(b.file)' = MatchesOf(b.file)
               /\ Conflicting(b.file, AllRecords(b.file), matches')
    <3>1. MatchesOf(b.file)' = MatchesOf(b.file) /\ AllRecords(b.file)' = AllRecords(b.file)
      BY <1>0, <2>1, <2>2 DEF MatchesOf, AllRecords
    <3>2. Conflicting(b.file, AllRecords(b.file), matches)
      BY <1>1 DEF Batches
    <3>3. QED BY <1>0, <3>1, <3>2 DEF Conflicting
  <2>4. ASSUME NEW b \in batches'
        PROVE  /\ b.file \in File
               /\ \A c \in batches' : c.file = b.file => c = b
               /\ Accounted(b.file, Len(b.file), AllRecords(b.file)', MatchesOf(b.file)', b.counts)
               /\ Conflicting(b.file, AllRecords(b.file)', matches')
    BY <1>1, <2>2, <2>3 DEF Batches
  <2>5. \A m \in matches' : m.source # Manual => \E b \in batches' : b.file = m.source.file
    BY <1>0, <1>1, <2>1, <2>2 DEF Batches
  <2>6. \A s \in records' : \E b \in batches' : b.file = s.file
    BY <1>1, <2>2 DEF Batches
  <2>7. QED BY <2>4, <2>5, <2>6 DEF Batches
<1>4. QED BY <1>2, <1>3

LEMMA CommitKeepsMatches ==
  ASSUME IInv, NEW r \in Request, Commit(r)
  PROVE  Matches'
<1>0. /\ keys' = keys \cup own[r].keys
      /\ matches' = matches \cup own[r].matches
      /\ pc[r] = "written"
  BY CommitMakes DEF Commit
<1>1. Matches
  BY DEF IInv
<1>2. \A m, n \in matches' : n.key = m.key => n = m
  BY <1>0, <1>1, OwnMatches DEF Matches
<1>3. \A m \in matches' : \A j \in 1..4 : References(m.key)[j] \in keys'
  BY <1>0, <1>1, OwnMatches DEF Matches
<1>4. \A m \in own[r].matches : m.source = Manual => m.statistics = NoStatistics
  BY <1>0, WrittenImport, WrittenDraft
<1>5. QED BY <1>0, <1>1, <1>2, <1>3, <1>4 DEF Matches

LEMMA CommitKeeps ==
  ASSUME IInv, NEW r \in Request, Commit(r)
  PROVE  IInv'
<1>0. /\ Importing(r) => batches' = batches \cup {Batch(r)}
      /\ pc'[r] = "answered" /\ own'[r] = Empty
      /\ job' = job /\ summary' = summary /\ Typed' /\ Leaves(r)
      /\ pc[r] = "written"
  BY CommitMakes DEF Commit
<1>1. pc'[r] \notin Writing
  BY <1>0 DEF Writing, AtMatch
<1>2. Resting(r)'
  <2>1. job[r] \in Jobs
    BY <1>0, ImportTyped DEF IInv, Mine, Creator, Writing, Jobs
  <2>2. QED BY <1>0, <2>1 DEF Resting
<1>3. Answering(r)'
  <2>1. Batch(r).file = job[r].file
    BY DEF Batch
  <2> SUFFICES ASSUME Importing(r)
               PROVE  \E b \in batches' : b.file = job[r].file
    BY <1>0 DEF Answering, Importing
  <2>2. QED BY <1>0, <2>1
<1>4. Mine(r)'
  BY <1>0, <1>1, <1>2, <1>3, RestingIsMine
<1>5. \A q \in Request : Mine(q)'
  BY <1>4, CommitKeepsOthers DEF Others
<1>6. \A q, s \in Request : q # s => Apart(q, s)'
  <2> SUFFICES ASSUME NEW q \in Request, NEW s \in Request, q # s PROVE Apart(q, s)'
    OBVIOUS
  <2>1. CASE s = r
    BY <1>0, <1>1, <2>1, RestingIsApart
  <2>2. CASE q = r
    <3>1. Apart(s, q)'
      BY <1>0, <1>1, <2>2, RestingIsApart
    <3>2. QED BY <3>1 DEF Apart
  <2>3. CASE q # r /\ s # r
    <3>1. Apart(q, s)
      BY DEF IInv
    <3>2. /\ pc'[q] = pc[q] /\ job'[q] = job[q] /\ own'[q] = own[q]
          /\ pc'[s] = pc[s] /\ job'[s] = job[s] /\ own'[s] = own[s]
      BY <1>0, <2>3 DEF Leaves, Others
    <3>3. QED BY <3>1, <3>2 DEF Apart, Importing
  <2>4. QED BY <2>1, <2>2, <2>3
<1>7. QED BY <1>0, <1>5, <1>6, CommitKeepsBatches, CommitKeepsMatches DEF IInv

-----------------------------------------------------------------------------
(* The invariant. *)

LEMMA InitIInv == Init => IInv
<1> SUFFICES ASSUME Init PROVE IInv
  OBVIOUS
<1>1. Typed
  BY NoSummaryTyped DEF Init, Typed, Empty
<1>2. ASSUME NEW r \in Request
      PROVE  /\ pc[r] = "idle" /\ job[r] = NoJob /\ line[r] = 0 /\ own[r] = Empty
             /\ summary[r] = NoSummary /\ own[r].matches = {}
  BY DEF Init, Empty
<1>3. ASSUME NEW r \in Request PROVE Mine(r)
  <2>1. pc[r] \notin Writing
    BY <1>2 DEF Writing, AtMatch
  <2>2. Importer(r) /\ Creator(r) /\ Resting(r) /\ Answering(r)
    BY <1>2, <2>1 DEF Importer, Creator, Resting, Answering
  <2>3. Referring(r) /\ Distinct(r)
    BY <1>2 DEF Referring, Distinct, AtMatch
  <2>4. QED BY <2>2, <2>3 DEF Mine
<1>4. ASSUME NEW q \in Request, NEW r \in Request PROVE Apart(q, r)
  BY <1>2 DEF Apart, Writing, AtMatch
<1>5. Batches /\ Matches
  BY DEF Init, Batches, Matches
<1>6. QED BY <1>1, <1>3, <1>4, <1>5 DEF IInv

LEMMA StutterKeeps ==
  ASSUME IInv, UNCHANGED vars
  PROVE  IInv'
<1>1. UNCHANGED stored /\ Typed'
  BY DEF IInv, Typed, vars
<1>2. \A r \in Request : Mine(r)'
  <2> SUFFICES ASSUME NEW r \in Request PROVE Mine(r)'
    OBVIOUS
  <2>1. QED BY <1>1, Untouched DEF vars
<1>3. \A q, r \in Request : q # r => Apart(q, r)'
  BY DEF IInv, vars, Apart, Importing
<1>4. Batches' /\ Matches'
  BY DEF IInv, Batches, Matches, vars, stored, AllRecords, MatchesOf
<1>5. QED BY <1>1, <1>2, <1>3, <1>4 DEF IInv

LEMMA NextKeepsIInv == IInv /\ [Next]_vars => IInv'
<1> SUFFICES ASSUME IInv, [Next]_vars PROVE IInv'
  OBVIOUS
<1>1. CASE UNCHANGED vars
  BY <1>1, StutterKeeps
<1>2. ASSUME NEW r \in Request, NEW d \in Draft, BeginCreate(r, d) PROVE IInv'
  BY <1>2, BeginCreateKeeps
<1>3. ASSUME NEW r \in Request, NEW f \in File, NEW dry \in BOOLEAN, BeginImport(r, f, dry)
      PROVE  IInv'
  BY <1>3, BeginImportKeeps
<1>4. ASSUME NEW r \in Request, Step(r) PROVE IInv'
  <2>1. Answer(r) \/ BreakDeadlock(r) => Fail(r)
    BY DEF Answer, BreakDeadlock
  <2>2. QED
    BY <1>4, <2>1, SelectBatchKeeps, InsertBatchKeeps, InsertRecordKeeps, SelectKeeps,
       InsertKeeps, SelectMatchKeeps, InsertMatchKeeps, CommitKeeps, FailKeeps DEF Step
<1>5. ASSUME NEW r \in Request, Abort(r) PROVE IInv'
  BY <1>5, FailKeeps DEF Abort
<1>6. QED BY <1>1, <1>2, <1>3, <1>4, <1>5 DEF Next

\* The invariant holds in every state the registration can reach: the records, the
\* matches and the counts of each import agree on the lines it has passed.
THEOREM Invariance == Spec => []IInv
<1>1. Init => IInv
  BY InitIInv
<1>2. IInv /\ [Next]_vars => IInv'
  BY NextKeepsIInv
<1>3. QED BY <1>1, <1>2, PTL DEF Spec

-----------------------------------------------------------------------------
(* Properties. *)

\* A set is as large as its image under a function that tells its elements apart.
LEMMA ImageCounts ==
  ASSUME NEW M, NEW L, IsFiniteSet(L), NEW g \in [M -> L],
         \A m, o \in M : g[m] = g[o] => m = o, \A l \in L : \E m \in M : g[m] = l
  PROVE  Cardinality(M) = Cardinality(L)
<1>1. g \in Injection(M, L)
  BY DEF Injection, IsInjective
<1>2. g \in Surjection(M, L)
  BY DEF Surjection
<1>3. QED BY <1>1, <1>2, FS_Injection

\* Every accepted line made one match and one record.
LEMMA AcceptedAreCounted ==
  ASSUME NEW f, NEW n \in Nat, NEW S, NEW M, NEW c, Accounted(f, n, S, M, c)
  PROVE  /\ Cardinality(M) = c.accepted
         /\ Cardinality({s \in S : s.status = "accepted"}) = c.accepted
<1> DEFINE L == Lines(S, "accepted")
           A == {s \in S : s.status = "accepted"}
           g == [m \in M |-> m.source.line]
           h == [s \in A |-> s.line]
<1>1. IsFiniteSet(L) /\ c.accepted = Cardinality(L)
  BY AcceptedLinesOf DEF Accounted
<1>2. {m.source.line : m \in M} = L
  BY DEF Accounted
<1>3. Cardinality(M) = Cardinality(L)
  <2>1. \A m, o \in M : m.source.line = o.source.line => m = o
    BY DEF Accounted
  <2>2. g \in [M -> L] /\ \A l \in L : \E m \in M : g[m] = l
    BY <1>2
  <2>3. \A m, o \in M : g[m] = g[o] => m = o
    BY <2>1
  <2> HIDE DEF L, g
  <2>4. QED BY <1>1, <2>2, <2>3, ImageCounts
<1>4. Cardinality(A) = Cardinality(L)
  <2>1. \A s, t \in A : s.line = t.line => s = t
    BY DEF Accounted, Itemised
  <2>2. h \in [A -> L] /\ \A l \in L : \E s \in A : h[s] = l
    BY DEF Lines
  <2>3. \A s, t \in A : h[s] = h[t] => s = t
    BY <2>1
  <2> HIDE DEF L, h, A
  <2>4. QED BY <1>1, <2>2, <2>3, ImageCounts
<1>5. QED BY <1>1, <1>3, <1>4

LEMMA BatchesTyped ==
  ASSUME IInv, NEW b \in batches
  PROVE  /\ b.file \in File /\ Len(b.file) \in Nat
         /\ \A c \in batches : c.file = b.file => c = b
         /\ Accounted(b.file, Len(b.file), AllRecords(b.file), MatchesOf(b.file), b.counts)
         /\ Conflicting(b.file, AllRecords(b.file), matches)
<1>1. /\ b.file \in File
      /\ \A c \in batches : c.file = b.file => c = b
      /\ Accounted(b.file, Len(b.file), AllRecords(b.file), MatchesOf(b.file), b.counts)
      /\ Conflicting(b.file, AllRecords(b.file), matches)
  BY DEF IInv, Batches
<1>2. QED BY <1>1, FileTyped

\* A file has one batch, whose counts are those of the records and of the matches it
\* made, and each of its lines is in them once.
THEOREM BatchesAreAccounts == Spec => []BatchAccountsForItsRows
<1>1. IInv => BatchAccountsForItsRows
  <2> SUFFICES ASSUME IInv, NEW b \in batches
               PROVE  /\ \A c \in batches : c.file = b.file => c = b
                      /\ b.counts.total = Len(b.file)
                      /\ b.counts.total = b.counts.accepted + b.counts.rejected
                      /\ b.counts.accepted = Cardinality(RecordsOf(b.file, "accepted"))
                      /\ b.counts.accepted = Cardinality(MatchesOf(b.file))
                      /\ {s.line : s \in RecordsOf(b.file, "rejected")}
                           = (1..Len(b.file)) \ AcceptedLines(b.file)
                      /\ \A s \in RecordsOf(b.file, "conflict") :
                           \E m \in matches :
                             /\ m.key = MatchKey(b.file[s.line])
                             /\ m.source # [file |-> b.file, line |-> s.line]
    BY DEF BatchAccountsForItsRows
  <2> DEFINE f == b.file
             c == b.counts
             S == AllRecords(f)
  <2>1. /\ Len(f) \in Nat
        /\ \A d \in batches : d.file = f => d = b
        /\ Accounted(f, Len(f), S, MatchesOf(f), c)
        /\ Conflicting(f, S, matches)
    BY BatchesTyped
  <2>2. \A status : RecordsOf(f, status) = {s \in S : s.status = status}
    BY DEF RecordsOf, AllRecords
  <2> HIDE DEF f, c, S
  <2>3. c.total = Len(f) /\ c.total = c.accepted + c.rejected
    <3>1. /\ c.total = Len(f)
          /\ c.accepted = Cardinality(Lines(S, "accepted"))
          /\ c.rejected = Len(f) - Cardinality(Lines(S, "accepted"))
      BY <2>1 DEF Accounted
    <3>2. Cardinality(Lines(S, "accepted")) \in Nat
      BY <2>1, AcceptedLinesOf
    <3>3. QED BY <2>1, <3>1, <3>2
  <2>4. c.accepted = Cardinality(RecordsOf(f, "accepted")) /\ c.accepted = Cardinality(MatchesOf(f))
    <3>1. /\ Cardinality(MatchesOf(f)) = c.accepted
          /\ Cardinality({s \in S : s.status = "accepted"}) = c.accepted
      BY <2>1, AcceptedAreCounted
    <3>2. QED BY <2>2, <3>1
  <2>5. {s.line : s \in RecordsOf(f, "rejected")} = (1..Len(f)) \ AcceptedLines(f)
    BY <2>1, <2>2 DEF Accounted, Lines
  <2>6. \A s \in RecordsOf(f, "conflict") :
          \E m \in matches : m.key = MatchKey(f[s.line]) /\ m.source # [file |-> f, line |-> s.line]
    BY <2>1, <2>2 DEF Conflicting
  <2>7. QED BY <2>1, <2>3, <2>4, <2>5, <2>6 DEF f, c
<1>2. QED BY <1>1, Invariance, PTL

\* A match is stored once, with all it refers to, and has the statistics of the one line
\* of a file that made it, or none if it was registered by hand.
THEOREM MatchesStayTraceable == Spec => []MatchesAreTraceable
<1>1. IInv => MatchesAreTraceable
  <2> SUFFICES ASSUME IInv, NEW m \in matches
               PROVE  /\ \A n \in matches : n.key = m.key => n = m
                      /\ \A i \in DOMAIN References(m.key) : References(m.key)[i] \in keys
                      /\ m.source = Manual => m.statistics = NoStatistics
                      /\ m.source # Manual =>
                           /\ \E s \in RecordsOf(m.source.file, "accepted") :
                                s.line = m.source.line
                           /\ m.key = MatchKey(m.source.file[m.source.line])
                           /\ m.statistics = m.source.file[m.source.line].statistics
    BY DEF MatchesAreTraceable
  <2>1. /\ \A n \in matches : n.key = m.key => n = m
        /\ \A j \in 1..4 : References(m.key)[j] \in keys
        /\ m.source = Manual => m.statistics = NoStatistics
    BY DEF IInv, Matches
  <2>2. DOMAIN References(m.key) = 1..4
    BY FourReferences
  <2>3. ASSUME m.source # Manual
        PROVE  /\ \E s \in RecordsOf(m.source.file, "accepted") : s.line = m.source.line
               /\ m.key = MatchKey(m.source.file[m.source.line])
               /\ m.statistics = m.source.file[m.source.line].statistics
    <3> DEFINE f == m.source.file
               l == m.source.line
    <3>1. PICK b \in batches : b.file = f
      BY <2>3 DEF IInv, Batches
    <3>2. Accounted(f, Len(f), AllRecords(f), MatchesOf(f), b.counts) /\ m \in MatchesOf(f)
      BY <2>3, <3>1, BatchesTyped DEF MatchesOf
    <3>3. m = MatchAt(f, l) /\ l \in Lines(AllRecords(f), "accepted")
      BY <3>2 DEF Accounted
    <3>4. \E s \in RecordsOf(f, "accepted") : s.line = l
      BY <3>3 DEF Lines, RecordsOf, AllRecords
    <3>5. m.key = MatchKey(f[l]) /\ m.statistics = f[l].statistics
      <4> HIDE DEF f, l
      <4>1. QED BY <3>3 DEF MatchAt
    <3>6. QED BY <3>4, <3>5
  <2>4. QED BY <2>1, <2>2, <2>3
<1>2. QED BY <1>1, Invariance, PTL

\* A step that is not a commit, and a commit of another file, or of a form, leaves the
\* batch, the records and the matches of a file that has its batch.
LEMMA BatchIsKept ==
  ASSUME IInv, NEW b \in batches,
         UNCHANGED stored \/ \E r \in Request : Commit(r)
  PROVE  /\ b \in batches'
         /\ AllRecords(b.file)' = AllRecords(b.file)
         /\ MatchesOf(b.file)' = MatchesOf(b.file)
<1>1. CASE UNCHANGED stored
  BY <1>1 DEF stored, AllRecords, MatchesOf
<1>2. ASSUME NEW r \in Request, Commit(r)
      PROVE  /\ b \in batches'
             /\ AllRecords(b.file)' = AllRecords(b.file)
             /\ MatchesOf(b.file)' = MatchesOf(b.file)
  <2>1. /\ matches' = matches \cup own[r].matches
        /\ records' = records \cup own[r].records
        /\ b \in batches' /\ pc[r] = "written"
    BY <1>2, CommitMakes DEF Commit
  <2>2. \A s \in own[r].records : s.file # b.file
    BY <2>1, WrittenImport, WrittenDraft
  <2>3. \A m \in own[r].matches : m.source = Manual \/ m.source.file # b.file
    BY <2>1, WrittenImport, WrittenDraft
  <2>4. AllRecords(b.file)' = AllRecords(b.file)
    BY <2>1, <2>2 DEF AllRecords
  <2>5. MatchesOf(b.file)' = MatchesOf(b.file)
    BY <2>1, <2>3 DEF MatchesOf
  <2>6. QED BY <2>1, <2>4, <2>5
<1>3. QED BY <1>1, <1>2

\* Whatever imports of a file are sent again or at once, its first committed batch is
\* its last: nothing of the file is written after it, and a confirmed import is answered
\* only with the batch there.
THEOREM ImportsAreIdempotent == Spec => ImportIsIdempotent
<1>1. IInv /\ IInv' /\ [Next]_vars =>
        [/\ \A b \in batches :
              /\ b \in batches'
              /\ {s \in records' : s.file = b.file} = {s \in records : s.file = b.file}
              /\ MatchesOf(b.file)' = MatchesOf(b.file)
         /\ \A r \in Request : pc[r] # "answered" /\ pc'[r] = "answered" /\ Importing(r)' =>
              \E b \in batches' : b.file = job'[r].file]_vars
  <2> SUFFICES ASSUME IInv, IInv', Next
               PROVE  /\ \A b \in batches :
                           /\ b \in batches'
                           /\ {s \in records' : s.file = b.file} = {s \in records : s.file = b.file}
                           /\ MatchesOf(b.file)' = MatchesOf(b.file)
                      /\ \A r \in Request : pc'[r] = "answered" /\ Importing(r)' =>
                           \E b \in batches' : b.file = job'[r].file
    OBVIOUS
  <2>1. UNCHANGED stored \/ \E r \in Request : Commit(r)
    <3>1. ASSUME NEW r \in Request, Step(r) PROVE UNCHANGED stored \/ Commit(r)
      BY <3>1 DEF Step, SelectBatch, InsertBatch, InsertRecord, Select, Insert,
         SelectMatch, InsertMatch, Answer, BreakDeadlock, Fail
    <3>2. ASSUME NEW r \in Request, Abort(r) PROVE UNCHANGED stored
      BY <3>2 DEF Abort, Fail
    <3>3. ASSUME NEW r \in Request, NEW d \in Draft, BeginCreate(r, d) PROVE UNCHANGED stored
      BY <3>3 DEF BeginCreate, Begin
    <3>4. ASSUME NEW r \in Request, NEW f \in File, NEW dry \in BOOLEAN, BeginImport(r, f, dry)
          PROVE  UNCHANGED stored
      BY <3>4 DEF BeginImport, Begin
    <3>5. QED BY <3>1, <3>2, <3>3, <3>4 DEF Next
  <2>2. ASSUME NEW b \in batches
        PROVE  /\ b \in batches'
               /\ {s \in records' : s.file = b.file} = {s \in records : s.file = b.file}
               /\ MatchesOf(b.file)' = MatchesOf(b.file)
    BY <2>1, BatchIsKept DEF AllRecords
  <2>3. \A r \in Request : pc'[r] = "answered" /\ Importing(r)' =>
          \E b \in batches' : b.file = job'[r].file
    BY DEF IInv, Mine, Answering
  <2>4. QED BY <2>2, <2>3
<1>2. QED BY <1>1, Invariance, PTL DEF Spec, ImportIsIdempotent
=============================================================================
