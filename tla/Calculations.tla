---------------------------- MODULE Calculations -----------------------------
(***************************************************************************)
(* What the system calculates: the samples and the methods over a table of *)
(* matches that changes (StatisticsSamples), the pricing engine over two   *)
(* distributions (BasicMarkets, AsianMarkets) and Method One over four     *)
(* series (MethodOneRates).  The engine and Method One read nothing that   *)
(* is stored: a calculation of theirs is one step, taken while the table   *)
(* is empty.                                                               *)
(***************************************************************************)
EXTENDS BasicMarkets, MethodOneRates, StatisticsSamples

CONSTANTS
  Scorers,          \* [rate, support]: scoring rate, where its distribution ends
  MarketRequests,   \* requests of markets, sequences
  SeriesChoices,    \* what each of the four series may be
  WeightChoices,    \* weights of the own production
  CandidateChoices  \* sets of multiplier candidates

\* A rate is not negative (PoissonRate), and a request has the code of a market, a
\* line and a selection of that market (the request classes of the engine).
ASSUME EngineAssumption ==
    /\ Scorers \subseteq [rate : Nat \X (Nat \ {0}), support : Nat]
    /\ MarketRequests \subseteq Seq([code : Range(MarketCodes), line : Int,
                                    selection : Range(SelectionNames)])
    /\ \A requested \in MarketRequests : \A r \in Range(requested) :
          /\ r.code = "total_goals" => r.line \in HalfGoalLines
          /\ r.code = "asian_handicap" => r.selection \in HandicapSelections
          /\ r.code = "asian_total" => r.selection \in TotalSelections

\* A snapshot of a sample and a candidate, as their contracts check them.
ASSUME MethodOneAssumption ==
    /\ SeriesChoices \subseteq [count : Nat, sum : Nat, excluded : Nat,
                                 blocking : Nat, requested : Nat]
    /\ CandidateChoices \subseteq SUBSET
          [category : Categories, applies_to : Sides, scope : Range(Scopes),
           value : MultiplierValues, match : BOOLEAN, competition : BOOLEAN]

VARIABLE calculation \* the last calculation of the engine or of Method One

vars == <<matches, corrections, request, calculation>>

Distributions == {Distribution(s.rate, s.support) : s \in Scorers}

\* The engine and Method One are called while nothing else is going on.
Calm == matches = <<>> /\ Idling /\ calculation = Idle

PriceMarkets(home, away, requested) ==
    /\ Calm
    /\ calculation' = [kind      |-> "engine",
                       matrix    |-> Matrix(home, away),
                       requested |-> requested,
                       outcome   |-> RunPricingEngine(home, away, requested)]
    /\ UNCHANGED sampleVars

CalculateMethodOne(series, weights, candidates) ==
    /\ Calm
    /\ calculation' = [kind       |-> "method_one",
                       series     |-> series,
                       weights    |-> weights,
                       candidates |-> candidates,
                       outcome    |-> RunMethodOne(series, weights, candidates)]
    /\ UNCHANGED sampleVars

Return ==
    /\ calculation # Idle
    /\ calculation' = Idle
    /\ UNCHANGED sampleVars

Init == SamplesInit /\ calculation = Idle

Next ==
    \/ \E home, away \in Distributions, requested \in MarketRequests :
          PriceMarkets(home, away, requested)
    \/ \E series \in [Range(SeriesRoles) -> SeriesChoices],
          weights \in WeightChoices, candidates \in CandidateChoices :
          CalculateMethodOne(series, weights, candidates)
    \/ Return
    \/ calculation = Idle /\ SamplesNext /\ UNCHANGED calculation

Spec == Init /\ [][Next]_vars

-----------------------------------------------------------------------------
(* Properties of the engine.                                               *)

Engine == calculation # Idle /\ calculation.kind = "engine"

Priced(code) ==
    {r \in Range(calculation.outcome.results) : r.request.code = code}

MainLineCode(market) ==
    IF market = "handicap" THEN "asian_handicap_main_line"
    ELSE "asian_total_main_line"

\* The main line is the best of all lines, not only of those that were looked
\* at: over every quarter line, two goals beyond the support too, no line is
\* nearer to even odds, or as near and shorter, or as near, as short and
\* lower; and the opposite selection of the main line is its mirror, it wins
\* what the reference loses.
MainLineIsFair ==
    Engine =>
        \A market \in {"handicap", "total"} :
            \A r \in Priced(MainLineCode(market)) :
                LET m    == calculation.matrix
                    best == r.result.reference
                    wide == (m.home + m.away + 3) * 4
                IN  /\ \A line \in - wide .. wide :
                          LET price == Price(m, best.selection, line)
                          IN  \/ market = "total" /\ line < 0
                              \/ ~ HasOdds(price)
                              \/ price = best
                              \/ Nearer(best, price)
                              \/ AsNear(best, price) /\ Precedes(best, price)
                    /\ r.result.opposite.won = best.lost
                    /\ r.result.opposite.lost = best.won
                    /\ r.result.opposite.pushed = best.pushed

\* Markets that are priced on different ways agree where they speak of the
\* same event: the three-way result, double chance and the handicaps of 0 and
\* of half a goal; the totals of half a goal and the Asian totals; both teams
\* scoring and the matrix; a quarter line and the two lines beside it.
MarketsAgree ==
    Engine =>
        LET m        == calculation.matrix
            asian(selection, line) == Price(m, selection, line)
            average(selection, line) ==
                LET below == asian(selection, line - 1)
                    above == asian(selection, line + 1)
                IN  [selection |-> selection, line |-> line,
                     won    |-> (below.won + above.won) \div 2,
                     pushed |-> (below.pushed + above.pushed) \div 2,
                     lost   |-> (below.lost + above.lost) \div 2]
        IN  /\ \A r \in Priced("three_way_result") :
                  /\ 2 * r.result.home = asian("home", -2).won
                  /\ 2 * r.result.draw = asian("home", 0).pushed
                  /\ 2 * r.result.away = asian("away", -2).won
            /\ \A r \in Priced("double_chance") :
                  /\ 2 * r.result.home_or_draw = asian("home", 2).won
                  /\ 2 * r.result.draw_or_away = asian("away", 2).won
                  /\ r.result.home_or_away =
                        m.total - MassOf(m, {s \in DOMAIN m.cell : s[1] = s[2]})
            /\ \A r \in Priced("both_teams_to_score") :
                  r.result.no = m.total -
                      MassOf(m, {s \in DOMAIN m.cell : s[1] * s[2] > 0})
            /\ \A r \in Priced("total_goals") :
                  /\ 2 * r.result.over = asian("over", 2 * r.request.line).won
                  /\ 2 * r.result.under = asian("under", 2 * r.request.line).won
            /\ \A r \in Priced("asian_handicap") \cup Priced("asian_total") :
                  r.request.line % 2 = 1 =>
                      r.result = average(r.request.selection, r.request.line)

-----------------------------------------------------------------------------
(* Properties of Method One.                                               *)

\* The same calculation with the sides exchanged.
MirrorCandidate(candidate) ==
    [candidate EXCEPT !.applies_to = Opposite(candidate.applies_to)]

MirrorRole ==
    [home_production |-> "away_production", home_concession |-> "away_concession",
     away_production |-> "home_production", away_concession |-> "home_concession"]

MirrorOutcome(c) ==
    RunMethodOne([role \in DOMAIN c.series |-> c.series[MirrorRole[role]]],
                 [home |-> c.weights.away, away |-> c.weights.home],
                 {MirrorCandidate(d) : d \in c.candidates})

Exchanged(outcome, mirror) ==
    /\ outcome.error = mirror.error
    /\ outcome.error = "" =>
          /\ outcome.home = mirror.away
          /\ outcome.away = mirror.home
          /\ outcome.publication = mirror.publication

\* Method One treats the sides alike: with home and away exchanged in the
\* series, the weights and the multipliers (the advantage of the field apart),
\* the rates are exchanged, and it is published or refused all the same.  What
\* blocks a calculation is apart too: which series' exclusions count depends on
\* the order of the roles, see the README.
SidesAreTreatedAlike ==
    /\ calculation # Idle
    /\ calculation.kind = "method_one"
    /\ \A role \in DOMAIN calculation.series :
          calculation.series[role].blocking = 0
    /\ \A d \in calculation.candidates : d.category # "home_field_advantage"
    => Exchanged(calculation.outcome, MirrorOutcome(calculation))

-----------------------------------------------------------------------------
(* Properties of the samples.                                              *)

MatchesOf(sample) == [k \in DOMAIN sample |-> sample[k].match]

\* The two components of a team, and those of a reference, come from one
\* selection of matches, whatever is registered while Method Two reads its
\* four of them.
PairsShareOneSelection ==
    ~ Idling /\ request.method = "two" =>
        \A k \in DOMAIN request.evidence :
            MatchesOf(request.evidence[k].production) =
                MatchesOf(request.evidence[k].complement)

\* A request on a target, and what it reads one query after the other.
On(target, r) == [r EXCEPT !.target = target]

Inputs(r) == [k \in DOMAIN Reads(r) |-> Result(r, Reads(r)[k])]

\* No calculation looks ahead: a match that is registered, or corrected, on or
\* after the day of the target (on the day itself, with a greater id) changes
\* nothing that a calculation on it reads, the target's own result included,
\* and refuses none.  (A request of a season without a match is refused until
\* there is one.  What is written does not depend on a request in progress: it
\* is enough to look without one.)
SamplesLookBack ==
    [][Idling /\ matches' # matches => \A target \in Targets \cap Ids :
          (\A i \in DOMAIN matches' :
              \/ i \in Ids /\ matches'[i] = matches[i]
              \/ matches'[i].day > matches[target].day
              \/ matches'[i].day = matches[target].day /\ i >= target)
          => /\ \A side \in {"home", "away"} :
                   MethodOneRows(target, side)' = MethodOneRows(target, side)
             /\ \A r \in Requests : Compatible(On(target, r)) =>
                   /\ Compatible(On(target, r))'
                   /\ Inputs(On(target, r))' = Inputs(On(target, r))]_vars

CompletedUpTo(rows, position) ==
    {k \in 1 .. position : matches[rows[k]].completed}

\* The selectors were written one by one and agree on every table: the matches
\* of Method One's samples are those of Method Two's at the venue (their values
\* may differ, see StatisticRevisions); the completed candidates of Method
\* Three are the newest of them; a win is a goal more scored than conceded; and
\* on one table the reference of what home sides score is that of what away
\* sides concede.
\* (It is enough to look without a request, as above.)
MethodsAgree ==
    Idling => \A target \in Ids : \A side \in {"home", "away"} :
        LET team  == matches[target][side]
            one   == MethodOneRows(target, side)
            two   == MethodTwoRows(target, team, side, NoSeason)
            three == CandidateRows(target, team, side, "target_competition",
                                   NoSeason)
            homes == OfCompetition(MethodTwoRows(target, Anyone, "home", NoSeason),
                                   "home")
            aways == OfCompetition(MethodTwoRows(target, Anyone, "away", NoSeason),
                                   "away")
            metric(m) == Sample(OfTeam(three, team), m)
        IN  /\ one = two
            /\ \A k \in DOMAIN three :
                  LET place == Cardinality(CompletedUpTo(three, k))
                  IN  matches[three[k]].completed =>
                          place \in DOMAIN two /\ two[place] = three[k]
            /\ \A k \in DOMAIN three :
                  LET scored   == metric("goals_scored")[k].value
                      conceded == metric("goals_conceded")[k].value
                      won      == metric("result_win")[k].value
                  IN  IF NoValue \in {scored, conceded} THEN won = NoValue
                      ELSE won = 1 <=> scored > conceded
            /\ MeanOf(Sample(homes, "production")) =
                  MeanOf(Sample(aways, "complement"))
=============================================================================
