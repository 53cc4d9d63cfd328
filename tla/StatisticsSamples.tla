-------------------------- MODULE StatisticsSamples --------------------------
(***************************************************************************)
(* The samples of past matches that Methods Two and Three are calculated   *)
(* from, read while matches are registered and statistics corrected        *)
(* (persistence/statistics.py, application/statistics.py, method_two.py,   *)
(* method_three.py, and the selector of Method One in                      *)
(* persistence/method_one_samples.py).                                     *)
(*                                                                         *)
(* A match is known by its id, its position in the table.  One statistic   *)
(* stands for each of them: a value of the home and one of the away side.  *)
(* value is the wide row and revised the revision of each side that ranks  *)
(* first by created_at.  The two may differ: the wide row has the value of *)
(* the last UPDATE, and a revision without a value leaves it as it was.  A *)
(* mean is kept as its sum and its count.                                  *)
(***************************************************************************)
EXTENDS Integers, Sequences, FiniteSets, SequencesExt, FiniteSetsExt

CONSTANTS
  Fixtures,       \* [day, competition, label, home, away, completed, value]
  Corrections,    \* values a statistic is corrected to, NoValue among them
  Requests,       \* what the methods are asked for, see Reads
  Targets,        \* ids of matches that a calculation is asked for
  SampleSize,     \* matches in a sample (5, 10, 15 or 20; 10 in Method One)
  MaxMatches,     \* bound on the registered matches
  MaxWrites,      \* bound on the registered matches and the corrections together
  NoValue, Unrevised, NoSeason, Anyone, Idle

VARIABLES
  matches,     \* sequence of registered matches
  corrections, \* corrections made so far
  request      \* the calculation in progress, or Idle

sampleVars == <<matches, corrections, request>>

FieldOf(field) == {fixture[field] : fixture \in Fixtures}

\* A row of the table.
Matches ==
    [day : Int, competition : FieldOf("competition"), label : FieldOf("label"),
     home : FieldOf("home"), away : FieldOf("away"), completed : BOOLEAN,
     value : [{"home", "away"} -> Int \cup {NoValue}],
     revised : [{"home", "away"} -> Int \cup {NoValue, Unrevised}]]

\* A match is registered without revisions.  No team goes by the name that stands for
\* every team.
ASSUME FixturesAssumption ==
    /\ Fixtures \subseteq Matches
    /\ \A fixture \in Fixtures : fixture.revised = [side \in {"home", "away"} |-> Unrevised]
    /\ Corrections \subseteq Int \cup {NoValue}
    /\ Unrevised \notin Int \cup {NoValue}
    /\ Anyone \notin FieldOf("home") \cup FieldOf("away")
    /\ SampleSize \in Nat

\* A request as it comes in: nothing is read yet.
ASSUME RequestsAssumption ==
    \A r \in Requests :
        /\ {"method", "target", "pc", "evidence", "half", "answer", "previous"}
              \subseteq DOMAIN r
        /\ r.method \in {"two", "three", "sample"}
        /\ r.evidence = <<>>
        /\ r.method # "two" =>
              r.metric \in {"goals_scored", "goals_conceded", "result_win"}

Ids == DOMAIN matches

Opposite(side) == IF side = "home" THEN "away" ELSE "home"

-----------------------------------------------------------------------------
(* The selectors.                                                          *)

\* Mutant: every other match of the day of the target is a past match.
BeforeOrSameDay(i, target) ==
    i # target /\ matches[i].day <= matches[target].day

\* The strict cutoff: an earlier day, or the same day and a smaller id.
Before(i, target) ==
    \/ matches[i].day < matches[target].day
    \/ matches[i].day = matches[target].day /\ i < target

\* ORDER BY played_on DESC, id ASC
Recent(i, j) ==
    \/ matches[i].day > matches[j].day
    \/ matches[i].day = matches[j].day /\ i < j

Newer(S, i) == {j \in S : Recent(j, i)}

\* The only element of a set.
The(S) == CHOOSE i \in S : TRUE

\* The match at a position, alone: as many are newer as come before it.
At(S, position) == {i \in S : Cardinality(Newer(S, i)) = position - 1}

\* ... LIMIT SampleSize
Latest(S) ==
    [position \in 1 .. Min({SampleSize, Cardinality(S)}) |-> The(At(S, position))]

PlaysAt(i, team, venue) ==
    \/ team = Anyone
    \/ matches[i].home = team /\ venue # "away"
    \/ matches[i].away = team /\ venue # "home"

\* Seasons are told apart by their label: with every competition eligible, the
\* seasons of the others under the same labels count too.
InSeason(i, target, previous) ==
    \/ matches[i].label = matches[target].label
    \/ previous # NoSeason /\ matches[i].label = previous.label

\* _selection_conditions
Eligible(target, team, venue, scope, previous) ==
    {i \in Ids :
        /\ Before(i, target)
        /\ PlaysAt(i, team, venue)
        /\ scope = "target_competition" =>
              matches[i].competition = matches[target].competition
        /\ InSeason(i, target, previous)}

\* _method_two_rows: completed matches of the competition only.
MethodTwoRows(target, team, venue, previous) ==
    Latest({i \in Eligible(target, team, venue, "target_competition", previous) :
                matches[i].completed})

\* list_candidates: matches without statistics are candidates, without value.
CandidateRows(target, team, venue, scope, previous) ==
    Latest(Eligible(target, team, venue, scope, previous))

\* Mutant: the limit cuts before the matches without statistics are left out.
MethodOneRowsCutFirst(target, side) ==
    SelectSeq(Latest({i \in Ids :
                /\ Before(i, target)
                /\ matches[i].competition = matches[target].competition
                /\ matches[i].label = matches[target].label
                /\ matches[i][side] = matches[target][side]}),
              LAMBDA i: matches[i].completed)

\* get_samples: each side's matches of the season at the venue it has in the
\* target.
MethodOneRows(target, side) ==
    Latest({i \in Ids :
                /\ Before(i, target)
                /\ matches[i].completed
                /\ matches[i].competition = matches[target].competition
                /\ matches[i].label = matches[target].label
                /\ matches[i][side] = matches[target][side]})

-----------------------------------------------------------------------------
(* The values.                                                             *)

\* value_for: what the first revision says, and the wide row without any.
Value(i, side) ==
    IF ~ matches[i].completed THEN NoValue
    ELSE IF matches[i].revised[side] = Unrevised THEN matches[i].value[side]
    ELSE matches[i].revised[side]

OwnSide(i, team) == IF matches[i].home = team THEN "home" ELSE "away"

\* An observation is a match and the side it is seen from.
OfTeam(rows, team) ==
    [k \in DOMAIN rows |-> [match |-> rows[k], side |-> OwnSide(rows[k], team)]]

\* _competition_reference_from_rows: the side of the venue, or both of them.
OfCompetition(rows, venue) ==
    IF venue = "overall"
    THEN [k \in 1 .. 2 * Len(rows) |-> [match |-> rows[(k + 1) \div 2],
                                        side  |-> IF k % 2 = 1 THEN "home"
                                                  ELSE "away"]]
    ELSE [k \in DOMAIN rows |-> [match |-> rows[k], side |-> venue]]

\* _method_two_candidate, list_candidates: what a component, or a metric, makes of it.
Observed(o, component) ==
    LET own    == Value(o.match, o.side)
        others == Value(o.match, Opposite(o.side))
    IN  CASE component \in {"production", "goals_scored"}   -> own
          [] component \in {"complement", "goals_conceded"} -> others
          [] component = "result_win" ->
                IF NoValue \in {own, others} THEN NoValue
                ELSE IF own > others THEN 1 ELSE 0

Sample(observations, component) ==
    [k \in DOMAIN observations |->
        [match |-> observations[k].match,
         value |-> Observed(observations[k], component)]]

Pair(observations) ==
    [production |-> Sample(observations, "production"),
     complement |-> Sample(observations, "complement")]

\* Missing values are left out, never counted as zero.
Values(sample) == SelectSeq(sample, LAMBDA c: c.value # NoValue)

MeanOf(sample) ==
    [sum   |-> FoldLeft(LAMBDA total, c: total + c.value, 0, Values(sample)),
     count |-> Len(Values(sample))]

-----------------------------------------------------------------------------
(* The requests.                                                           *)

\* The queries of a request, in their order, each in a transaction of its own.
\* The pair of a team is read once for both components, and so is a reference.
Reads(r) ==
    LET at(side) == IF r.context = "venue" THEN side ELSE "overall"
        target   == matches[r.target]
    IN  CASE r.method = "two" ->
               <<[of |-> target.home, venue |-> at("home")],
                 [of |-> target.away, venue |-> at("away")],
                 [of |-> Anyone, venue |-> at("home")],
                 [of |-> Anyone, venue |-> at("away")]>>
          [] r.method = "three" ->
               <<[of |-> target.home, venue |-> "home"],
                 [of |-> target.away, venue |-> "away"]>>
          [] r.method = "sample" -> <<[of |-> r.team, venue |-> r.venue]>>

\* What the next query of a request returns.
Result(r, read) ==
    LET rows == MethodTwoRows(r.target, read.of, read.venue, r.previous)
        list == CandidateRows(r.target, read.of, read.venue, r.scope, r.previous)
    IN  IF r.method # "two" THEN Sample(OfTeam(list, read.of), r.metric)
        ELSE IF read.of = Anyone THEN Pair(OfCompetition(rows, read.venue))
        ELSE Pair(OfTeam(rows, read.of))

\* _validate_season, and the participant of a sample.  A season is there once
\* a match of it is.
Compatible(r) ==
    /\ r.previous # NoSeason =>
          /\ r.previous.competition = matches[r.target].competition
          /\ \E i \in Ids : /\ matches[i].competition = r.previous.competition
                            /\ matches[i].label = r.previous.label
    /\ r.method = "sample" =>
          r.team \in {matches[r.target].home, matches[r.target].away}

Idling == request = Idle

\* get_target: a match that is not registered is not found.
Ask(r, target) ==
    /\ Idling
    /\ request' =
          [r EXCEPT !.target = target,
                    !.pc     = IF target \in Ids THEN "reading" ELSE "done",
                    !.answer = IF target \in Ids THEN @ ELSE "not_found"]
    /\ UNCHANGED <<matches, corrections>>

\* The season is validated before each query.  Seasons do not go away, so that
\* validating them with the query refuses no more and no less.
Refuse ==
    /\ ~ Idling /\ request.pc = "reading"
    /\ ~ Compatible(request)
    /\ request' = [request EXCEPT !.pc = "done", !.answer = "invalid_query"]
    /\ UNCHANGED <<matches, corrections>>

\* Mutant: the components of a pair are read one after the other.
ReadByComponent ==
    LET read   == Reads(request)[Len(request.evidence) + 1]
        result == Result(request, read)
    IN  /\ ~ Idling /\ request.pc = "reading"
        /\ Compatible(request)
        /\ Len(request.evidence) < Len(Reads(request))
        /\ IF request.method = "two" /\ request.half = <<>>
           THEN request' = [request EXCEPT !.half = <<result.production>>]
           ELSE request' = [request EXCEPT
                    !.half = <<>>,
                    !.evidence = Append(@,
                        IF request.method = "two"
                        THEN [result EXCEPT !.production = request.half[1]]
                        ELSE result)]
        /\ UNCHANGED <<matches, corrections>>

\* list_method_two_candidate_pair, get_competition_reference_pair and
\* list_candidates.
Read ==
    LET read == Reads(request)[Len(request.evidence) + 1]
    IN  /\ ~ Idling /\ request.pc = "reading"
        /\ Compatible(request)
        /\ Len(request.evidence) < Len(Reads(request))
        /\ request' = [request EXCEPT !.evidence =
                            Append(@, Result(request, read))]
        /\ UNCHANGED <<matches, corrections>>

\* _blocking_reasons: a series without a value; a reference whose mean is zero.
Blocking(evidence) ==
    {at \in (1 .. 4) \X {"production", "complement"} :
        LET mean == MeanOf(evidence[at[1]][at[2]])
        IN  mean.count = 0 \/ (at[1] > 2 /\ mean.sum = 0)}

\* _lambda: (production / reference) * (complement / its reference) * reference,
\* where the reference of the production cancels out.
Lambda(production, complement, reference) ==
    LET p == MeanOf(production)
        c == MeanOf(complement)
        r == MeanOf(reference)
    IN  [num |-> p.sum * c.sum * r.count, den |-> p.count * c.count * r.sum]

MethodTwoAnswer(evidence) ==
    LET home == evidence[1] away == evidence[2]
        homes == evidence[3] aways == evidence[4]
    IN  IF Blocking(evidence) # {} THEN [blocked |-> Blocking(evidence)]
        ELSE [home |-> Lambda(home.production, away.complement,
                              aways.complement),
              away |-> Lambda(away.production, home.complement,
                              homes.complement)]

\* _frequency, _achievement
Events(sample, r) ==
    Len(SelectSeq(Values(sample), LAMBDA c:
        CASE r.comparator = "at_least" -> c.value >= r.threshold
          [] r.comparator = "at_most"  -> c.value <= r.threshold
          [] r.comparator = "equal"    -> c.value = r.threshold))

\* _frequency of each side and _combined, which pools the observations.
Frequencies(evidence, r) ==
    LET count(k) == [events |-> Events(evidence[k], r),
                     valid  |-> Len(Values(evidence[k]))]
        pooled   == [events |-> count(1).events + count(Len(evidence)).events,
                     valid  |-> count(1).valid + count(Len(evidence)).valid]
    IN  [sides    |-> [k \in DOMAIN evidence |-> count(k)],
         combined |-> IF Len(evidence) = 1 THEN count(1) ELSE pooled]

\* _validated_values: Method Three checks the cutoff of its samples again.
WithinCutoff(r) ==
    \A k \in DOMAIN r.evidence :
        \A c \in Range(r.evidence[k]) : Before(c.match, r.target)

Answer ==
    /\ ~ Idling /\ request.pc = "reading"
    /\ Compatible(request)
    /\ Len(request.evidence) = Len(Reads(request))
    /\ request' = [request EXCEPT
            !.pc     = "done",
            !.answer = IF request.method = "two"
                       THEN MethodTwoAnswer(request.evidence)
                       ELSE IF request.method = "three" /\ ~ WithinCutoff(request)
                       THEN "invalid_query"
                       ELSE Frequencies(request.evidence, request)]
    /\ UNCHANGED <<matches, corrections>>

Reply ==
    /\ ~ Idling /\ request.pc = "done"
    /\ request' = Idle
    /\ UNCHANGED <<matches, corrections>>

-----------------------------------------------------------------------------
(* The writers: MatchRegistration and StatisticRevisions have the detail.  *)

\* The historical import (with statistics) and create_future_match (without).
Register(fixture) ==
    /\ Len(matches) < MaxMatches
    /\ Len(matches) + corrections < MaxWrites
    /\ matches' = Append(matches, fixture)
    /\ UNCHANGED <<corrections, request>>

\* An available value goes to the wide row in any case.  A revision ranks first if its
\* transaction began after that of the one that did.
Corrected(row, side, value, newest) ==
    [row EXCEPT !.value[side]   = IF value = NoValue THEN @ ELSE value,
                !.revised[side] = IF newest THEN value ELSE @]

\* The commit of revise_statistic: the transactions may commit in another order than
\* they began in, but the first revision of a side is its newest.
Correct(i, side, value, newest) ==
    /\ Len(matches) + corrections < MaxWrites
    /\ matches[i].completed
    /\ newest \/ matches[i].revised[side] # Unrevised
    /\ matches' = [matches EXCEPT ![i] = Corrected(@, side, value, newest)]
    /\ corrections' = corrections + 1
    /\ UNCHANGED request

SamplesInit ==
    /\ matches = <<>>
    /\ corrections = 0
    /\ request = Idle

SamplesNext ==
    \/ \E r \in Requests, target \in Targets : Ask(r, target)
    \/ Refuse
    \/ Read
    \/ Answer
    \/ Reply
    \/ \E fixture \in Fixtures : Register(fixture)
    \/ \E i \in Ids, side \in {"home", "away"}, value \in Corrections, newest \in BOOLEAN :
          Correct(i, side, value, newest)
=============================================================================
