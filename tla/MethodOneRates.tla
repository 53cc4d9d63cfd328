--------------------------- MODULE MethodOneRates ----------------------------
(***************************************************************************)
(* Method One: four series of past matches, each with a quality, become    *)
(* two base rates, the base rates take the resolved multipliers, and the   *)
(* adjusted rates are priced when nothing blocks them (package             *)
(* lvfi_pricing, models/samples/contracts.py and models/method_one).       *)
(*                                                                         *)
(* A series is what its snapshot amounts to: count (valid observations),   *)
(* sum (of their values), excluded, blocking (the exclusions among those   *)
(* that block a calculation) and requested.  Weights are tenths.  A rate   *)
(* is a fraction [num, den] and the multipliers it took: the values are    *)
(* 0.9, 1 and 1.1, and low and high count the first and the last.          *)
(***************************************************************************)
EXTENDS Integers, Sequences, FiniteSets

\* MethodOneSeriesRole, in canonical order.
SeriesRoles == <<"home_production", "home_concession",
                 "away_production", "away_concession">>

Sides == {"home", "away"}

\* MultiplierCategory; the advantage of the field is of the home side only.
Categories == {"home_field_advantage", "opponent_strength", "recent_form",
               "squad_availability", "match_pace", "must_win"}

CatalogueEntries ==
    {entry \in Categories \X Sides :
        entry[1] = "home_field_advantage" => entry[2] = "home"}

\* MultiplierScope, the nearest first.
Scopes == <<"match", "competition", "global">>

MultiplierValues == {"low", "neutral", "high"}

-----------------------------------------------------------------------------
(* Quality of a sample: models/samples/contracts.py, _quality.             *)

\* SampleQualityLevel as its rank: empty, insufficient, partial, adequate.
Level(count) ==
    IF count = 0 THEN 0 ELSE IF count < 5 THEN 1 ELSE IF count < 10 THEN 2
    ELSE 3

\* An empty sample is an error and so is each blocking exclusion; only the
\* first forbids the calculation.
Quality(series) ==
    [level   |-> Level(series.count),
     allowed |-> series.count > 0,
     errors  |-> series.blocking + (IF series.count = 0 THEN 1 ELSE 0),
     warned  |-> \/ Level(series.count) \in {1, 2}
                 \/ series.count + series.excluded < series.requested]

-----------------------------------------------------------------------------
(* Averages and base rates: averages.py and base_rates.py.                 *)

\* The four roles exactly, whatever the order they come in (MethodOneRequest).
FourSeries(series) == DOMAIN series = {SeriesRoles[i] : i \in 1 .. 4}

Blocked(series) ==
    \E role \in DOMAIN series : ~ Quality(series[role]).allowed

\* Own production by the own weight plus the opponent's concession by the
\* rest, over a common denominator.
Combined2(production, concession, own) ==
    [num |-> own * production.sum * concession.count
               + (10 - own) * concession.sum * production.count,
     den |-> 10 * production.count * concession.count]

\* Mutant: the away rate takes what the away side itself concedes.
BaseRateOfOneSide(series, weights, side) ==
    IF side = "home"
    THEN Combined2(series["home_production"], series["away_concession"],
                   weights["home"])
    ELSE Combined2(series["away_production"], series["away_concession"],
                   weights["away"])

BaseRate(series, weights, side) ==
    IF side = "home"
    THEN Combined2(series["home_production"], series["away_concession"],
                   weights["home"])
    ELSE Combined2(series["away_production"], series["home_concession"],
                   weights["away"])

\* The quality of the whole: that of the worst series, of several the first
\* in canonical order.  The others' errors are dropped with them.
WorstQuality(series) ==
    LET level(i) == Quality(series[SeriesRoles[i]]).level
        worst    == CHOOSE i \in 1 .. 4 :
                        /\ \A j \in 1 .. 4 : level(i) <= level(j)
                        /\ \A j \in 1 .. i - 1 : level(i) < level(j)
    IN  Quality(series[SeriesRoles[worst]])

-----------------------------------------------------------------------------
(* Multipliers: multipliers.py.                                            *)
(* A candidate: category, applies_to, scope, value, and match and          *)
(* competition, TRUE when they are those of the calculation.               *)

EntryOf(candidate) == <<candidate.category, candidate.applies_to>>

\* _validate_candidate_context
InContext(candidate) ==
    CASE candidate.scope = "match"       -> candidate.match /\
                                              candidate.competition
      [] candidate.scope = "competition" -> candidate.competition
      [] candidate.scope = "global"      -> TRUE

\* Two candidates of one entry and one scope have no precedence.
Ambiguous(candidates) ==
    \E p, q \in candidates :
        p # q /\ EntryOf(p) = EntryOf(q) /\ p.scope = q.scope

Resolvable(candidates) ==
    /\ \A candidate \in candidates :
          /\ EntryOf(candidate) \in CatalogueEntries
          /\ InContext(candidate)
    /\ ~ Ambiguous(candidates)

Rank(scope) == CHOOSE i \in DOMAIN Scopes : Scopes[i] = scope

\* The effective value of an entry: that of the nearest scope, 1 without any.
Resolved(candidates, entry) ==
    LET compatible == {c \in candidates : EntryOf(c) = entry}
    IN  IF compatible = {} THEN "neutral"
        ELSE (CHOOSE c \in compatible :
                \A d \in compatible : Rank(c.scope) <= Rank(d.scope)).value

\* _apply_side: the base rate by every effective value of the side.
AdjustedRate(series, weights, candidates, side) ==
    LET taken(value) == {entry \in CatalogueEntries :
                            /\ entry[2] = side
                            /\ Resolved(candidates, entry) = value}
    IN  [base |-> BaseRate(series, weights, side),
         low  |-> Cardinality(taken("low")),
         high |-> Cardinality(taken("high"))]

-----------------------------------------------------------------------------
(* The method: orchestration.py and pricing.py.                            *)

\* _PUBLICATION_STATE by level; blocked is never reached, an empty series
\* ends the method before.
PublicationState(level) ==
    <<"blocked", "audit_only", "conditional", "publishable">>[level + 1]

\* run_method_one: the result, or the error of the stage that refused.
RunMethodOne(series, weights, candidates) ==
    LET quality == WorstQuality(series)
        failed(error) == [error |-> error]
    IN  IF ~ FourSeries(series) THEN failed("invalid_request")
        ELSE IF Blocked(series) THEN failed("sample_empty")
        ELSE IF ~ Resolvable(candidates) THEN failed("invalid_multiplier")
        ELSE IF quality.errors > 0 THEN failed("blocked")
        ELSE [error       |-> "",
              home        |-> AdjustedRate(series, weights, candidates, "home"),
              away        |-> AdjustedRate(series, weights, candidates, "away"),
              publication |-> PublicationState(quality.level),
              warnings    |-> {role \in DOMAIN series :
                                Quality(series[role]).warned}]
=============================================================================
