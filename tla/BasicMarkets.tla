---------------------------- MODULE BasicMarkets -----------------------------
(***************************************************************************)
(* The markets without a stake to split, and the engine that prices a      *)
(* request of several markets from one matrix (package lvfi_pricing:       *)
(* distributions/goal_difference.py, markets/basic.py, markets/totals.py,  *)
(* markets/contracts.py, engine/contracts.py and engine/orchestrator.py).  *)
(***************************************************************************)
EXTENDS AsianMarkets

\* RequestedMarketCode, in the order the engine prices them.
MarketCodes == <<"three_way_result", "double_chance", "both_teams_to_score",
                 "total_goals", "asian_handicap", "asian_total",
                 "asian_handicap_main_line", "asian_total_main_line">>

\* HalfGoalLine: the approved totals, in halves of a goal.
HalfGoalLines == {1, 3, 5, 7, 9, 11}

\* build_goal_difference_distribution: the matrix by home - away.
GoalDifference(m) ==
    [difference \in -m.away .. m.home |->
        MassOf(m, {score \in DOMAIN m.cell :
                    score[1] - score[2] = difference})]

\* _market: a market whose selections do not hold the mass of the matrix
\* (twice for a double chance) is refused, and the whole request with it.
Market(selections, expected) ==
    IF Sum(LAMBDA s: selections[s], DOMAIN selections) = expected
    THEN {selections} ELSE {}

ThreeWay(m) ==
    LET difference == GoalDifference(m)
        mass(S) == Sum(LAMBDA d: difference[d], S)
    IN  Market([home |-> mass({d \in DOMAIN difference : d > 0}),
                draw |-> difference[0],
                away |-> mass({d \in DOMAIN difference : d < 0})], m.total)

\* Double chance is made from the three-way result, not from the matrix.
DoubleChance(m) ==
    UNION {Market([home_or_draw |-> result.home + result.draw,
                   home_or_away |-> result.home + result.away,
                   draw_or_away |-> result.draw + result.away], 2 * m.total)
            : result \in ThreeWay(m)}

BothTeamsToScore(m) ==
    LET blank(score) == score[1] = 0 \/ score[2] = 0
    IN  Market([yes |-> MassOf(m, {score \in DOMAIN m.cell : ~ blank(score)}),
                no  |-> MassOf(m, {score \in DOMAIN m.cell : blank(score)})],
               m.total)

\* Mutant: the complement of the smaller side is taken from itself.
TotalGoalsOfOneSide(m, line) ==
    LET under == MassOf(m, {score \in DOMAIN m.cell :
                                2 * (score[1] + score[2]) < line})
        over  == MassOf(m, {score \in DOMAIN m.cell :
                                2 * (score[1] + score[2]) > line})
    IN  IF under <= over
        THEN Market([over |-> under, under |-> m.total - under], m.total)
        ELSE Market([over |-> m.total - over, under |-> over], m.total)

\* price_total_goals: the larger side is the complement of the smaller one.
TotalGoals(m, line) ==
    LET under == MassOf(m, {score \in DOMAIN m.cell :
                                2 * (score[1] + score[2]) < line})
        over  == MassOf(m, {score \in DOMAIN m.cell :
                                2 * (score[1] + score[2]) > line})
    IN  IF under <= over
        THEN Market([over |-> m.total - under, under |-> under], m.total)
        ELSE Market([over |-> over, under |-> m.total - over], m.total)

-----------------------------------------------------------------------------
(* The engine.                                                             *)

\* A request of one market; those without a line or a selection have 0, "".
MarketRequest(code, line, selection) ==
    [code |-> code, line |-> line, selection |-> selection]

\* market_request_key orders by code, line, selection; the selections in the
\* order of their names.
SelectionNames == <<"", "away", "home", "over", "under">>

Position(value, names) == CHOOSE i \in DOMAIN names : names[i] = value

KeyBefore(p, q) ==
    LET code(r) == Position(r.code, MarketCodes)
        name(r) == Position(r.selection, SelectionNames)
    IN  \/ code(p) < code(q)
        \/ code(p) = code(q) /\ p.line < q.line
        \/ code(p) = code(q) /\ p.line = q.line /\ name(p) < name(q)

\* PricingRequest.create: a non-empty tuple of distinct requests, put in
\* canonical order: each where those before it leave it.
ValidRequest(requested) == requested # <<>> /\ IsInjective(requested)

CanonicalRequest(requested) ==
    LET Earlier(i) == {k \in DOMAIN requested :
                          KeyBefore(requested[k], requested[i])}
        At(place) == CHOOSE i \in DOMAIN requested :
                        Cardinality(Earlier(i)) = place - 1
    IN  [place \in DOMAIN requested |-> requested[At(place)]]

\* _price_market: the set of the market's result, empty when it is an error.
\* A price whose mass does not add up is one, a price without odds is not.
PriceMarket(m, request) ==
    LET kept(price) == IF KeepsMass(m, price) THEN {price} ELSE {}
    IN  CASE request.code = "three_way_result"    -> ThreeWay(m)
          [] request.code = "double_chance"       -> DoubleChance(m)
          [] request.code = "both_teams_to_score" -> BothTeamsToScore(m)
          [] request.code = "total_goals"         -> TotalGoals(m, request.line)
          [] request.code \in {"asian_handicap", "asian_total"} ->
                kept(Price(m, request.selection, request.line))
          [] request.code = "asian_handicap_main_line" ->
                MainLine(m, "handicap")
          [] request.code = "asian_total_main_line" -> MainLine(m, "total")

\* run_pricing_engine: the results in canonical order, or no result at all as
\* soon as one market is an error.
RunPricingEngine(home, away, requested) ==
    LET m       == Matrix(home, away)
        ordered == CanonicalRequest(requested)
        results == [i \in DOMAIN ordered |-> PriceMarket(m, ordered[i])]
    IN  IF ~ ValidRequest(requested)
        THEN [error |-> "invalid_market", results |-> <<>>]
        ELSE IF \E i \in DOMAIN results : results[i] = {}
        THEN [error |-> "market_failed", results |-> <<>>]
        ELSE [error |-> "", results |->
                [i \in DOMAIN ordered |->
                    [request |-> ordered[i],
                     result  |-> CHOOSE r \in results[i] : TRUE]]]
=============================================================================
