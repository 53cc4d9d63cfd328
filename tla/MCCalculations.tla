--------------------------- MODULE MCCalculations ----------------------------
(* Small inputs: markets, series and a table of up to four matches.        *)
EXTENDS Calculations

\* Every market of the engine at once, alone, twice and none at all.
TotalLines == <<1, 3>>
AllMarkets ==
    <<MarketRequest("asian_total_main_line", 0, ""),
      MarketRequest("asian_handicap", -3, "home"),
      MarketRequest("asian_handicap", 1, "away"),
      MarketRequest("asian_handicap", 2, "home"),
      MarketRequest("asian_total", 3, "over"),
      MarketRequest("asian_total", 5, "under"),
      MarketRequest("asian_total", 8, "over")>>
    \o [i \in DOMAIN TotalLines |->
            MarketRequest("total_goals", TotalLines[i], "")]
    \o <<MarketRequest("both_teams_to_score", 0, ""),
         MarketRequest("asian_handicap_main_line", 0, ""),
         MarketRequest("double_chance", 0, ""),
         MarketRequest("three_way_result", 0, "")>>

MCMarketRequests ==
    {AllMarkets,
     <<>>,
     <<MarketRequest("three_way_result", 0, ""),
       MarketRequest("three_way_result", 0, "")>>,
     <<MarketRequest("asian_handicap_main_line", 0, ""),
       MarketRequest("asian_handicap", 0, "home")>>}

\* A rate of 1/4 that ends at one goal leaves lines that are equally near.
MCScorers ==
    {[rate |-> <<num, 1>>, support |-> support] : num \in 0 .. 2,
                                                  support \in {2, 3}}
    \cup {[rate |-> <<1, 4>>, support |-> 1]}

Series(count, sum, blocking) ==
    [count |-> count, sum |-> sum, excluded |-> blocking, blocking |-> blocking,
     requested |-> 10]

MCSeriesChoices == {Series(0, 0, 0), Series(4, 3, 0), Series(10, 14, 0),
                    Series(9, 8, 1)}

MCWeightChoices == {[home |-> 5, away |-> 5], [home |-> 7, away |-> 4]}

Candidate(category, side, scope, value, in) ==
    [category |-> category, applies_to |-> side, scope |-> scope,
     value |-> value, match |-> in, competition |-> in]

MCCandidateChoices ==
    {{},
     {Candidate("recent_form", "home", "global", "high", TRUE),
      Candidate("recent_form", "home", "match", "low", TRUE),
      Candidate("must_win", "away", "competition", "high", TRUE)},
     {Candidate("home_field_advantage", "home", "global", "high", TRUE)},
     {Candidate("home_field_advantage", "away", "global", "high", TRUE)},
     {Candidate("must_win", "away", "global", "high", TRUE),
      Candidate("must_win", "away", "global", "low", TRUE)},
     {Candidate("match_pace", "home", "match", "high", FALSE)}}

-----------------------------------------------------------------------------
Fixture(day, competition, label, home, away, completed, value) ==
    [day |-> day, competition |-> competition, label |-> label,
     home |-> home, away |-> away, completed |-> completed,
     value |-> [home |-> value[1], away |-> value[2]],
     revised |-> [home |-> Unrevised, away |-> Unrevised]]

MCFixtures ==
    {Fixture(1, "league", "new", "a", "b", TRUE,  <<2, 1>>),
     Fixture(2, "league", "new", "a", "b", FALSE, <<0, 0>>),
     Fixture(2, "league", "new", "b", "a", TRUE,  <<0, 1>>),
     Fixture(1, "league", "old", "a", "b", TRUE,  <<3, 0>>),
     Fixture(1, "cup",    "new", "b", "a", TRUE,  <<1, 0>>)}

MCCorrections == {0, NoValue}

CONSTANT NoMatch \* the target of a request that was not asked yet

Request(method, more) ==
    more @@ [method |-> method, target |-> NoMatch, pc |-> "idle",
             evidence |-> <<>>, half |-> <<>>, answer |-> {},
             previous |-> NoSeason]

Old(competition) == [competition |-> competition, label |-> "old"]

Goals == [comparator |-> "at_least", threshold |-> 1]

MCRequests ==
    {Request("two", [context |-> "venue"]),
     Request("two", [context |-> "overall", previous |-> Old("league")]),
     Request("three", Goals @@ [metric |-> "goals_scored",
                                scope |-> "all_eligible"]),
     Request("sample", Goals @@ [metric |-> "result_win", team |-> "b",
                  venue |-> "overall", scope |-> "target_competition",
                  previous |-> Old("league")])}
=============================================================================
