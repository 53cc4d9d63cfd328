---------------------------- MODULE AsianMarkets -----------------------------
(***************************************************************************)
(* From two scoring rates to the price of an Asian line and to the main    *)
(* line of a market (package lvfi_pricing: distributions/poisson.py,       *)
(* distributions/score_matrix.py, markets/asian.py, markets/main_line.py   *)
(* and markets/asian_contracts.py).                                        *)
(*                                                                         *)
(* Probabilities are integer weights: the factor exp(-rate) / max! is left *)
(* out of every one of them, so that sums and comparisons are exact.  The  *)
(* support of a distribution (where its tail gets below the tolerance) is  *)
(* an input; what lies beyond it stays out of every sum, as in the code.   *)
(***************************************************************************)
EXTENDS AsianSettlement, FiniteSetsExt, SequencesExt

Sum(f(_), S) == MapThenSumSet(f, S)

\* build_poisson_distribution: p(0), then p(k) = p(k-1) * rate / k up to the
\* count where the tail converges.  A rate is a fraction <<num, den>>; p(0) is
\* max! * den^max, so that every division is exact.
Distribution(rate, max) ==
    LET scale[n \in 0 .. max] == IF n = 0 THEN 1 ELSE n * rate[2] * scale[n - 1]
        p[count \in 0 .. max] ==
            IF count = 0 THEN scale[max]
            ELSE (p[count - 1] * rate[1]) \div (count * rate[2])
    IN  p

\* build_score_probability_matrix: the product of the two, not renormalised.
Matrix(home, away) ==
    LET mass(d) == Sum(LAMBDA count: d[count], DOMAIN d)
    IN  [cell  |-> [score \in (DOMAIN home) \X (DOMAIN away) |->
                        home[score[1]] * away[score[2]]],
         home  |-> Max(DOMAIN home),
         away  |-> Max(DOMAIN away),
         total |-> mass(home) * mass(away)]

MassOf(m, scores) == Sum(LAMBDA score: m.cell[score], scores)

-----------------------------------------------------------------------------
(* The price of one selection at one line.                                 *)

\* Mutant: the cache of a handicap forgets who is ahead.
UnsignedStateKey(selection, score) ==
    IF selection \in HandicapSelections
    THEN IF score[1] > score[2] THEN score[1] - score[2]
         ELSE score[2] - score[1]
    ELSE score[1] + score[2]

\* Scores of one key are settled once, at the first of them in row order.
StateKey(selection, score) ==
    IF selection \in HandicapSelections THEN score[1] - score[2]
    ELSE score[1] + score[2]

StateCache(m, selection, line) ==
    LET Scores(key) == {score \in DOMAIN m.cell :
                            StateKey(selection, score) = key}
        FirstOf(key) == CHOOSE score \in Scores(key) :
                            \A other \in Scores(key) : score[1] <= other[1]
    IN  [key \in {StateKey(selection, score) : score \in DOMAIN m.cell} |->
            Settle(FirstOf(key), selection, line)]

\* won, pushed and lost count half stakes; fair odds are 1 + lost / won, and
\* are undefined when nothing is won.
Price(m, selection, line) ==
    LET state == StateCache(m, selection, line)
        mass  == [s \in SettlementStates |->
                    MassOf(m, {score \in DOMAIN m.cell :
                                 state[StateKey(selection, score)] = s})]
    IN  [selection |-> selection, line |-> line,
         won    |-> 2 * mass["win"] + mass["half_win"],
         pushed |-> 2 * mass["push"] + mass["half_win"] + mass["half_loss"],
         lost   |-> 2 * mass["loss"] + mass["half_loss"]]

HasOdds(price) == price.won > 0

\* ExpectedAsianSettlementProfile: what the price holds adds up to the matrix.
KeepsMass(m, price) == price.won + price.pushed + price.lost = 2 * m.total

-----------------------------------------------------------------------------
(* The main line: the candidate whose reference price is nearest to 2.     *)

\* Every quarter line, in increasing order, to one goal beyond the support on
\* each side for a handicap, from zero for a total.
Catalogue(m, market) ==
    LET lowest  == IF market = "handicap" THEN - (m.home + 1) * 4 ELSE 0
        highest == IF market = "handicap" THEN (m.away + 1) * 4
                   ELSE (m.home + m.away + 1) * 4
    IN  [position \in 1 .. highest - lowest + 1 |-> lowest + position - 1]

Magnitude(n) == IF n < 0 THEN -n ELSE n

\* |odds - 2| = |lost - won| / won, compared by cross-multiplication.
Unbalance(price) == Magnitude(price.lost - price.won)

Nearer(p, q) == Unbalance(p) * q.won < Unbalance(q) * p.won

AsNear(p, q) == Unbalance(p) * q.won = Unbalance(q) * p.won

\* Of two as near, the shorter line, then the lower.
Precedes(p, q) ==
    \/ Magnitude(p.line) < Magnitude(q.line)
    \/ /\ Magnitude(p.line) = Magnitude(q.line)
       /\ p.line < q.line

\* Mutant: of two as near, the first met stays.
BetterOnlyWhenNearer(p, best) == Nearer(p, best)

Better(p, best) ==
    \/ Nearer(p, best)
    \/ AsNear(p, best) /\ Precedes(p, best)

ReferenceOf(market) == IF market = "handicap" THEN "home" ELSE "over"

OppositeOf(market) == IF market = "handicap" THEN "away" ELSE "under"

OppositeLine(market, line) == IF market = "handicap" THEN -line ELSE line

\* _select: one pass over the candidates, those without odds left out.
MainLine(m, market) ==
    LET Visit(best, line) ==
            LET price == Price(m, ReferenceOf(market), line)
            IN  IF HasOdds(price) /\ (best = {} \/
                                      \A b \in best : Better(price, b))
                THEN {price} ELSE best
        found == FoldLeft(Visit, {}, Catalogue(m, market))
    IN  {[reference |-> price,
          opposite  |-> Price(m, OppositeOf(market),
                              OppositeLine(market, price.line))]
            : price \in found}
=============================================================================
