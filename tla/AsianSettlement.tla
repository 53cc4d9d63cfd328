--------------------------- MODULE AsianSettlement ---------------------------
(***************************************************************************)
(* Settling an Asian handicap or total on a realised score, in integers:   *)
(* lines and margins are counted in quarters of a goal, so that a line of  *)
(* -0.75 is -3 (package lvfi_pricing, settlement/asian.py and              *)
(* settlement/contracts.py).                                               *)
(***************************************************************************)
EXTENDS Integers

\* HandicapSelection and AsianTotalSelection
HandicapSelections == {"home", "away"}

TotalSelections == {"over", "under"}

Selections == HandicapSelections \cup TotalSelections

\* AsianSettlementState
SettlementStates == {"win", "half_win", "push", "half_loss", "loss"}

\* A line of an odd number of quarters is two simple lines, half a stake on
\* each: canonical split.
Components(line) == IF line % 2 = 0 THEN {line} ELSE {line - 1, line + 1}

\* The elementary result of an adjusted margin.
Elementary(quarters) ==
    IF quarters > 0 THEN "win" ELSE IF quarters = 0 THEN "push" ELSE "loss"

\* The margin the selection starts from, in quarters.
Base(score, selection) ==
    CASE selection = "home"  -> (score[1] - score[2]) * 4
      [] selection = "away"  -> (score[2] - score[1]) * 4
      [] selection = "over"  -> (score[1] + score[2]) * 4
      [] selection = "under" -> - (score[1] + score[2]) * 4

\* Mutant: UNDER too has the line against it.
TotalLineSign(selection) == IF selection \in TotalSelections THEN -1 ELSE 1

\* Only OVER has the line against it.
LineSign(selection) == IF selection = "over" THEN -1 ELSE 1

ComponentResults(base, line, sign) ==
    {Elementary(base + sign * quarters) : quarters \in Components(line)}

\* The two halves of the stake make the final state; a win beside a loss is
\* no state at all: settling raises.
Combined(results) ==
    CASE results = {"win"}          -> "win"
      [] results = {"win", "push"}  -> "half_win"
      [] results = {"push"}         -> "push"
      [] results = {"push", "loss"} -> "half_loss"
      [] results = {"loss"}         -> "loss"
      [] OTHER                      -> "impossible"

Settle(score, selection, line) ==
    Combined(ComponentResults(Base(score, selection), line,
                              LineSign(selection)))
==============================================================================
