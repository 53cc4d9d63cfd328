------------------------- MODULE CalculationsProofs --------------------------
(***************************************************************************)
(* Proofs about Calculations.  The settlement, for every score and every   *)
(* line in quarters of a goal.  Method One, for all series, weights and    *)
(* multipliers: the sides exchanged, what one side took the other takes.   *)
(* The samples, for every table of matches and every sample size: the rows *)
(* of a query are numbered by how many of its matches are newer (so that   *)
(* LIMIT finds one at each place), and a write that is not of the past of  *)
(* a match leaves the matches that its queries select, and their rows.     *)
(* The engine, for every two distributions: sums over the scores that a    *)
(* bet wins on, and the main line as the invariant of a scan; what is      *)
(* defined by recursion, or is a fold, is by induction on sets of numbers  *)
(* and on finite sets (NumbersFollow, FiniteSetsFollow).                   *)
(***************************************************************************)
EXTENDS Calculations, FiniteSetTheorems, TLAPS

-----------------------------------------------------------------------------
(* The settlement. *)

Score == Nat \X Nat

\* A margin is a whole number of goals, and so a multiple of four quarters.
LEMMA BaseIsWholeGoals ==
  ASSUME NEW score \in Score, NEW selection \in Selections
  PROVE  \E goals \in Int : Base(score, selection) = goals * 4
<1>1. score[1] \in Nat /\ score[2] \in Nat
  BY DEF Score
<1>2. CASE selection = "home"
  <2>1. score[1] - score[2] \in Int
    BY <1>1
  <2>2. QED BY <1>2, <2>1 DEF Base
<1>3. CASE selection = "away"
  <2>1. score[2] - score[1] \in Int
    BY <1>1
  <2>2. QED BY <1>3, <2>1 DEF Base
<1>4. CASE selection = "over"
  <2>1. score[1] + score[2] \in Int
    BY <1>1
  <2>2. QED BY <1>4, <2>1 DEF Base
<1>5. CASE selection = "under"
  <2>1. /\ - (score[1] + score[2]) \in Int
        /\ - (score[1] + score[2]) * 4 = (- (score[1] + score[2])) * 4
    BY <1>1
  <2>2. QED BY <1>5, <2>1 DEF Base
<1>6. QED
  BY <1>2, <1>3, <1>4, <1>5
       DEF Selections, HandicapSelections, TotalSelections

\* The halves of the stake in each of the ways they can end.
LEMMA CombinedValues ==
  /\ Combined({"win"}) = "win"
  /\ Combined({"win", "push"}) = "half_win"
  /\ Combined({"push"}) = "push"
  /\ Combined({"push", "loss"}) = "half_loss"
  /\ Combined({"loss"}) = "loss"
<1>1. /\ {"win"} # {"win", "push"} /\ {"win"} # {"push"} /\ {"win"} # {"push", "loss"}
      /\ {"win"} # {"loss"} /\ {"win", "push"} # {"push"}
      /\ {"win", "push"} # {"push", "loss"} /\ {"win", "push"} # {"loss"}
      /\ {"push"} # {"push", "loss"} /\ {"push"} # {"loss"} /\ {"push", "loss"} # {"loss"}
  OBVIOUS
<1>2. QED
  BY <1>1 DEF Combined

\* Two adjusted margins of one bet that differ by half a goal are both even, so that the
\* stake is never half won and half lost.
LEMMA CombinedIsAState ==
  ASSUME NEW goals \in Int, NEW line \in Int, NEW sign \in {1, -1}
  PROVE  Combined(ComponentResults(goals * 4, line, sign)) \in SettlementStates
<1> DEFINE low == goals * 4 + sign * (line - 1)
           high == goals * 4 + sign * (line + 1)
<1>1. CASE line % 2 = 0
  <2>1. ComponentResults(goals * 4, line, sign) = {Elementary(goals * 4 + sign * line)}
    BY <1>1 DEF ComponentResults, Components
  <2>2. Elementary(goals * 4 + sign * line) \in {"win", "push", "loss"}
    BY DEF Elementary
  <2>3. QED
    BY <2>1, <2>2, CombinedValues DEF SettlementStates
<1>2. CASE line % 2 # 0
  <2>1. ComponentResults(goals * 4, line, sign) = {Elementary(low), Elementary(high)}
    BY <1>2 DEF ComponentResults, Components
  <2>2. PICK half \in Int : line = 2 * half + 1
    BY <1>2
  <2>3. \/ low \in Int /\ high = low + 2 /\ low # -1
        \/ high \in Int /\ low = high + 2 /\ high # -1
    <3>1. CASE sign = 1
      BY <3>1, <2>2
    <3>2. CASE sign = -1
      BY <3>2, <2>2
    <3>3. QED BY <3>1, <3>2
  <2>4. {Elementary(low), Elementary(high)} \in
          {{"win"}, {"win", "push"}, {"push", "loss"}, {"loss"}}
    BY <2>3 DEF Elementary
  <2>5. QED
    BY <2>1, <2>4, CombinedValues DEF SettlementStates
<1>3. QED
  BY <1>1, <1>2

\* settle_asian_handicap and settle_asian_total never raise "win beside loss": whatever
\* the score, the selection and the line, the bet ends in one of the five states.
THEOREM SettlementIsTotal ==
  ASSUME NEW score \in Score, NEW selection \in Selections, NEW line \in Int
  PROVE  Settle(score, selection, line) \in SettlementStates
<1>1. PICK goals \in Int : Base(score, selection) = goals * 4
  BY BaseIsWholeGoals
<1>2. LineSign(selection) \in {1, -1}
  BY DEF LineSign
<1>3. QED
  BY <1>1, <1>2, CombinedIsAState DEF Settle

-----------------------------------------------------------------------------
\* The state on the other side of a bet.
OppositeState(state) ==
  CASE state = "win"       -> "loss"
    [] state = "half_win"  -> "half_loss"
    [] state = "push"      -> "push"
    [] state = "half_loss" -> "half_win"
    [] state = "loss"      -> "win"

\* Two selections whose margins and whose lines are opposite.
LEMMA OppositeMargins ==
  ASSUME NEW goals \in Int, NEW line \in Int, NEW other \in Int,
         NEW sign \in {1, -1}, NEW otherSign \in {1, -1},
         otherSign * other = - (sign * line)
  PROVE  Combined(ComponentResults(- (goals * 4), other, otherSign)) =
           OppositeState(Combined(ComponentResults(goals * 4, line, sign)))
<1>1. other = line \/ other = - line
  <2>1. CASE sign = 1 /\ otherSign = 1 BY <2>1
  <2>2. CASE sign = 1 /\ otherSign = -1 BY <2>2
  <2>3. CASE sign = -1 /\ otherSign = 1 BY <2>3
  <2>4. CASE sign = -1 /\ otherSign = -1 BY <2>4
  <2>5. QED BY <2>1, <2>2, <2>3, <2>4
<1>2. CASE line % 2 = 0
  <2>1. other % 2 = 0
    BY <1>1, <1>2
  <2> DEFINE margin == goals * 4 + sign * line
  <2>2. margin \in Int /\ - (goals * 4) + otherSign * other = - margin
    <3>1. CASE sign = 1 BY <3>1
    <3>2. CASE sign = -1 BY <3>2
    <3>3. QED BY <3>1, <3>2
  <2>3. ComponentResults(goals * 4, line, sign) = {Elementary(margin)}
    BY <1>2 DEF ComponentResults, Components
  <2>4. ComponentResults(- (goals * 4), other, otherSign) = {Elementary(- margin)}
    BY <2>1, <2>2 DEF ComponentResults, Components
  <2>5. CASE margin > 0
    <3>1. Elementary(margin) = "win" /\ Elementary(- margin) = "loss"
      BY <2>2, <2>5 DEF Elementary
    <3>2. QED BY <2>2, <2>3, <2>4, <3>1, CombinedValues DEF OppositeState
  <2>6. CASE margin = 0
    <3>1. Elementary(margin) = "push" /\ Elementary(- margin) = "push"
      BY <2>6 DEF Elementary
    <3>2. QED BY <2>2, <2>3, <2>4, <3>1, CombinedValues DEF OppositeState
  <2>7. CASE margin < 0
    <3>1. Elementary(margin) = "loss" /\ Elementary(- margin) = "win"
      BY <2>2, <2>7 DEF Elementary
    <3>2. QED BY <2>2, <2>3, <2>4, <3>1, CombinedValues DEF OppositeState
  <2>8. QED
    BY <2>2, <2>5, <2>6, <2>7
<1>3. CASE line % 2 # 0
  <2>1. other % 2 # 0
    BY <1>1, <1>3
  <2> DEFINE low == goals * 4 + sign * line - 1
             high == goals * 4 + sign * line + 1
  <2>2. PICK half \in Int : line = 2 * half + 1
    BY <1>3
  <2>3. low \in Int /\ high = low + 2 /\ low # -1
    <3>1. CASE sign = 1 BY <3>1, <2>2
    <3>2. CASE sign = -1 BY <3>2, <2>2
    <3>3. QED BY <3>1, <3>2
  <2>4. ComponentResults(goals * 4, line, sign) = {Elementary(low), Elementary(high)}
    <3>1. ComponentResults(goals * 4, line, sign) =
            {Elementary(goals * 4 + sign * (line - 1)),
             Elementary(goals * 4 + sign * (line + 1))}
      BY <1>3 DEF ComponentResults, Components
    <3>2. {goals * 4 + sign * (line - 1), goals * 4 + sign * (line + 1)} = {low, high}
      <4>1. CASE sign = 1 BY <4>1
      <4>2. CASE sign = -1 BY <4>2
      <4>3. QED BY <4>1, <4>2
    <3>3. QED BY <3>1, <3>2
  <2>5. ComponentResults(- (goals * 4), other, otherSign) =
          {Elementary(- low), Elementary(- high)}
    <3>1. ComponentResults(- (goals * 4), other, otherSign) =
            {Elementary(- (goals * 4) + otherSign * (other - 1)),
             Elementary(- (goals * 4) + otherSign * (other + 1))}
      BY <2>1 DEF ComponentResults, Components
    <3>2. {- (goals * 4) + otherSign * (other - 1), - (goals * 4) + otherSign * (other + 1)}
            = {- low, - high}
      <4>1. CASE sign = 1 /\ otherSign = 1 BY <4>1
      <4>2. CASE sign = 1 /\ otherSign = -1 BY <4>2
      <4>3. CASE sign = -1 /\ otherSign = 1 BY <4>3
      <4>4. CASE sign = -1 /\ otherSign = -1 BY <4>4
      <4>5. QED BY <4>1, <4>2, <4>3, <4>4
    <3>3. QED BY <3>1, <3>2
  <2>6. CASE low > 0
    <3>1. /\ Elementary(low) = "win" /\ Elementary(high) = "win"
          /\ Elementary(- low) = "loss" /\ Elementary(- high) = "loss"
      BY <2>3, <2>6 DEF Elementary
    <3>2. QED BY <2>4, <2>5, <3>1, CombinedValues DEF OppositeState
  <2>7. CASE low = 0
    <3>1. /\ Elementary(low) = "push" /\ Elementary(high) = "win"
          /\ Elementary(- low) = "push" /\ Elementary(- high) = "loss"
      BY <2>3, <2>7 DEF Elementary
    <3>2. QED BY <2>4, <2>5, <3>1, CombinedValues DEF OppositeState
  <2>8. CASE high = 0
    <3>1. /\ Elementary(low) = "loss" /\ Elementary(high) = "push"
          /\ Elementary(- low) = "win" /\ Elementary(- high) = "push"
      BY <2>3, <2>8 DEF Elementary
    <3>2. QED BY <2>4, <2>5, <3>1, CombinedValues DEF OppositeState
  <2>9. CASE high < 0
    <3>1. /\ Elementary(low) = "loss" /\ Elementary(high) = "loss"
          /\ Elementary(- low) = "win" /\ Elementary(- high) = "win"
      BY <2>3, <2>9 DEF Elementary
    <3>2. QED BY <2>4, <2>5, <3>1, CombinedValues DEF OppositeState
  <2>10. QED
    BY <2>3, <2>6, <2>7, <2>8, <2>9
<1>4. QED
  BY <1>2, <1>3

\* A bet and the bet against it settle in opposite states: HOME at a line and AWAY at
\* the line of the other sign, OVER and UNDER at the same line.  The book of
\* price_market rests on it: what one side wins the other loses, half for half.
THEOREM SidesAreOpposite ==
  ASSUME NEW score \in Score, NEW line \in Int
  PROVE  /\ Settle(score, "away", - line) = OppositeState(Settle(score, "home", line))
         /\ Settle(score, "under", line) = OppositeState(Settle(score, "over", line))
<1>1. score[1] \in Nat /\ score[2] \in Nat
  BY DEF Score
<1>2. /\ Base(score, "away") = - ((score[1] - score[2]) * 4)
      /\ Base(score, "home") = (score[1] - score[2]) * 4
      /\ Base(score, "under") = - ((score[1] + score[2]) * 4)
      /\ Base(score, "over") = (score[1] + score[2]) * 4
  BY <1>1 DEF Base
<1>3. /\ LineSign("away") = 1 /\ LineSign("home") = 1
      /\ LineSign("under") = 1 /\ LineSign("over") = -1
  BY DEF LineSign
<1>4. Settle(score, "away", - line) = OppositeState(Settle(score, "home", line))
  <2> DEFINE goals == score[1] - score[2]
  <2>1. goals \in Int /\ - line \in Int /\ 1 * (- line) = - (1 * line)
    BY <1>1
  <2>2. Combined(ComponentResults(- (goals * 4), - line, 1)) =
          OppositeState(Combined(ComponentResults(goals * 4, line, 1)))
    <3> HIDE DEF goals
    <3> QED BY <2>1, OppositeMargins
  <2>3. QED
    BY <1>2, <1>3, <2>2 DEF Settle
<1>5. Settle(score, "under", line) = OppositeState(Settle(score, "over", line))
  <2>1. score[1] + score[2] \in Int /\ 1 * line = - ((-1) * line)
    BY <1>1
  <2>2. QED
    BY <1>2, <1>3, <2>1, OppositeMargins DEF Settle
<1>6. QED
  BY <1>4, <1>5

-----------------------------------------------------------------------------
(* Method One: the sides exchanged. *)

Candidates ==
  [category : Categories, applies_to : Sides, scope : {"match", "competition", "global"},
   value : MultiplierValues, match : BOOLEAN, competition : BOOLEAN]

\* Multipliers that are resolved, without the advantage of the field.
Symmetric(candidates) ==
  /\ candidates \in SUBSET Candidates
  /\ \A d \in candidates : d.category # "home_field_advantage"

MirrorEntry(entry) == <<entry[1], Opposite(entry[2])>>

LEMMA Ranks ==
  Rank("match") = 1 /\ Rank("competition") = 2 /\ Rank("global") = 3
<1>1. DOMAIN Scopes = 1 .. 3
  BY DEF Scopes
<1>2. Scopes[1] = "match" /\ Scopes[2] = "competition" /\ Scopes[3] = "global"
  BY DEF Scopes
<1>3. \A i \in 1 .. 3 : i = 1 \/ i = 2 \/ i = 3
  OBVIOUS
<1>4. QED
  BY <1>1, <1>2, <1>3 DEF Rank

LEMMA MirrorOfCandidate ==
  ASSUME NEW d \in Candidates
  PROVE  /\ MirrorCandidate(d) \in Candidates
         /\ MirrorCandidate(d).category = d.category
         /\ MirrorCandidate(d).scope = d.scope
         /\ MirrorCandidate(d).value = d.value
         /\ MirrorCandidate(d).match = d.match
         /\ MirrorCandidate(d).competition = d.competition
         /\ MirrorCandidate(d).applies_to = Opposite(d.applies_to)
         /\ EntryOf(MirrorCandidate(d)) = MirrorEntry(EntryOf(d))
         /\ MirrorCandidate(MirrorCandidate(d)) = d
<1>1. d.applies_to \in Sides /\ Opposite(d.applies_to) \in Sides
      /\ Opposite(Opposite(d.applies_to)) = d.applies_to
  BY DEF Candidates, Sides, Opposite
<1>2. /\ MirrorCandidate(d) \in Candidates
      /\ MirrorCandidate(d).category = d.category
      /\ MirrorCandidate(d).scope = d.scope
      /\ MirrorCandidate(d).value = d.value
      /\ MirrorCandidate(d).match = d.match
      /\ MirrorCandidate(d).competition = d.competition
      /\ MirrorCandidate(d).applies_to = Opposite(d.applies_to)
  BY <1>1 DEF MirrorCandidate, Candidates
<1>3. EntryOf(MirrorCandidate(d)) = MirrorEntry(EntryOf(d))
  BY <1>2 DEF EntryOf, MirrorEntry
<1>4. MirrorCandidate(MirrorCandidate(d)) = d
  <2>1. MirrorCandidate(MirrorCandidate(d)) =
          [MirrorCandidate(d) EXCEPT !.applies_to = d.applies_to]
    BY <1>1, <1>2 DEF MirrorCandidate
  <2>2. [[d EXCEPT !.applies_to = Opposite(d.applies_to)]
            EXCEPT !.applies_to = d.applies_to] = d
    BY DEF Candidates
  <2>3. QED BY <2>1, <2>2 DEF MirrorCandidate
<1>5. QED
  BY <1>2, <1>3, <1>4

MirrorOf(candidates) == {MirrorCandidate(d) : d \in candidates}

LEMMA MirrorIsSymmetric ==
  ASSUME NEW candidates, Symmetric(candidates)
  PROVE  /\ Symmetric(MirrorOf(candidates))
         /\ MirrorOf(MirrorOf(candidates)) = candidates
BY MirrorOfCandidate DEF Symmetric, MirrorOf

LEMMA MirrorEntryOfEntry ==
  ASSUME NEW p \in Candidates, NEW q \in Candidates
  PROVE  /\ MirrorEntry(EntryOf(p)) = MirrorEntry(EntryOf(q)) <=> EntryOf(p) = EntryOf(q)
BY DEF MirrorEntry, EntryOf, Opposite, Candidates, Sides

LEMMA MirrorResolvable ==
  ASSUME NEW candidates, Symmetric(candidates), Resolvable(candidates)
  PROVE  Resolvable(MirrorOf(candidates))
<1>1. \A d \in candidates : d \in Candidates
  BY DEF Symmetric
<1>2. \A c \in MirrorOf(candidates) : \E d \in candidates : c = MirrorCandidate(d)
  BY DEF MirrorOf
<1>3. ASSUME NEW d \in candidates
      PROVE  /\ EntryOf(MirrorCandidate(d)) \in CatalogueEntries
             /\ InContext(MirrorCandidate(d))
  <2>1. d.category \in Categories /\ d.category # "home_field_advantage"
        /\ Opposite(d.applies_to) \in Sides
    BY <1>1 DEF Symmetric, Candidates, Opposite, Sides
  <2>2. EntryOf(MirrorCandidate(d)) \in CatalogueEntries
    BY <1>1, <2>1, MirrorOfCandidate DEF EntryOf, CatalogueEntries
  <2>3. d.scope \in {"match", "competition", "global"} /\ InContext(d)
    BY <1>1 DEF Resolvable, Candidates
  <2>4. InContext(MirrorCandidate(d))
    BY <1>1, <2>3, MirrorOfCandidate DEF InContext
  <2>5. QED BY <2>2, <2>4
<1>4. ~ Ambiguous(MirrorOf(candidates))
  <2> SUFFICES ASSUME NEW p \in candidates, NEW q \in candidates,
                      MirrorCandidate(p) # MirrorCandidate(q),
                      EntryOf(MirrorCandidate(p)) = EntryOf(MirrorCandidate(q)),
                      MirrorCandidate(p).scope = MirrorCandidate(q).scope
               PROVE  FALSE
    BY <1>2 DEF Ambiguous
  <2>1. p # q /\ p.scope = q.scope /\ EntryOf(p) = EntryOf(q)
    BY <1>1, MirrorOfCandidate, MirrorEntryOfEntry
  <2>2. QED BY <2>1 DEF Resolvable, Ambiguous
<1>5. QED
  BY <1>2, <1>3, <1>4 DEF Resolvable

\* The candidate of the nearest scope decides an entry.
LEMMA NearestDecides ==
  ASSUME NEW candidates \in SUBSET Candidates, ~ Ambiguous(candidates), NEW entry,
         NEW c \in candidates, EntryOf(c) = entry,
         \A d \in candidates : EntryOf(d) = entry => Rank(c.scope) <= Rank(d.scope)
  PROVE  Resolved(candidates, entry) = c.value
<1> DEFINE compatible == {d \in candidates : EntryOf(d) = entry}
           nearest == CHOOSE p \in compatible :
                        \A d \in compatible : Rank(p.scope) <= Rank(d.scope)
<1>1. c \in compatible /\ \A d \in compatible : Rank(c.scope) <= Rank(d.scope)
  OBVIOUS
<1>2. nearest \in compatible /\ \A d \in compatible : Rank(nearest.scope) <= Rank(d.scope)
  BY <1>1
<1>3. c.scope \in {"match", "competition", "global"}
      /\ nearest.scope \in {"match", "competition", "global"}
  BY <1>2 DEF Candidates
<1>4. Rank(c.scope) <= Rank(nearest.scope) /\ Rank(nearest.scope) <= Rank(c.scope)
  BY <1>1, <1>2
<1>5. c.scope = nearest.scope
  <2> HIDE DEF nearest
  <2> QED BY <1>3, <1>4, Ranks
<1>6. nearest = c
  <2>1. nearest \in candidates /\ EntryOf(nearest) = entry
    BY <1>2
  <2> HIDE DEF nearest
  <2>2. QED BY <1>5, <2>1 DEF Ambiguous
<1>7. Resolved(candidates, entry) = nearest.value
  BY <1>1 DEF Resolved
<1>8. QED BY <1>6, <1>7

LEMMA NearestExists ==
  ASSUME NEW candidates \in SUBSET Candidates, NEW entry,
         \E d \in candidates : EntryOf(d) = entry
  PROVE  \E c \in candidates :
            /\ EntryOf(c) = entry
            /\ \A d \in candidates : EntryOf(d) = entry => Rank(c.scope) <= Rank(d.scope)
<1>1. \A d \in candidates : Rank(d.scope) \in {1, 2, 3}
  BY Ranks DEF Candidates
<1>2. CASE \E d \in candidates : EntryOf(d) = entry /\ Rank(d.scope) = 1
  BY <1>1, <1>2
<1>3. CASE /\ ~ \E d \in candidates : EntryOf(d) = entry /\ Rank(d.scope) = 1
           /\ \E d \in candidates : EntryOf(d) = entry /\ Rank(d.scope) = 2
  BY <1>1, <1>3
<1>4. CASE \A d \in candidates : EntryOf(d) = entry => Rank(d.scope) = 3
  BY <1>4
<1>5. QED
  BY <1>1, <1>2, <1>3, <1>4

LEMMA MirrorResolved ==
  ASSUME NEW candidates, Symmetric(candidates), Resolvable(candidates),
         NEW entry \in Categories \X Sides
  PROVE  Resolved(MirrorOf(candidates), MirrorEntry(entry)) = Resolved(candidates, entry)
<1>1. candidates \in SUBSET Candidates /\ MirrorOf(candidates) \in SUBSET Candidates
  BY MirrorIsSymmetric DEF Symmetric
<1>2. \A d \in Candidates :
         EntryOf(MirrorCandidate(d)) = MirrorEntry(entry) <=> EntryOf(d) = entry
  <2>1. \A d \in Candidates :
           MirrorEntry(EntryOf(d)) = MirrorEntry(entry) <=> EntryOf(d) = entry
    BY DEF MirrorEntry, EntryOf, Opposite, Candidates, Sides
  <2>2. QED BY <2>1, MirrorOfCandidate
<1>3. CASE \E d \in candidates : EntryOf(d) = entry
  <2>1. PICK c \in candidates :
            /\ EntryOf(c) = entry
            /\ \A d \in candidates : EntryOf(d) = entry => Rank(c.scope) <= Rank(d.scope)
    BY <1>1, <1>3, NearestExists
  <2>2. Resolved(candidates, entry) = c.value
    BY <1>1, <2>1, NearestDecides DEF Resolvable
  <2>3. /\ MirrorCandidate(c) \in MirrorOf(candidates)
        /\ EntryOf(MirrorCandidate(c)) = MirrorEntry(entry)
    BY <1>1, <1>2, <2>1 DEF MirrorOf
  <2>4. \A d \in MirrorOf(candidates) : EntryOf(d) = MirrorEntry(entry) =>
           Rank(MirrorCandidate(c).scope) <= Rank(d.scope)
    <3> SUFFICES ASSUME NEW d \in candidates,
                        EntryOf(MirrorCandidate(d)) = MirrorEntry(entry)
                 PROVE  Rank(MirrorCandidate(c).scope) <= Rank(MirrorCandidate(d).scope)
      BY DEF MirrorOf
    <3>1. EntryOf(d) = entry /\ MirrorCandidate(c).scope = c.scope
          /\ MirrorCandidate(d).scope = d.scope
      BY <1>1, <1>2, MirrorOfCandidate
    <3>2. QED BY <2>1, <3>1
  <2>5. ~ Ambiguous(MirrorOf(candidates))
    BY MirrorResolvable DEF Resolvable
  <2>6. Resolved(MirrorOf(candidates), MirrorEntry(entry)) = MirrorCandidate(c).value
    BY <1>1, <2>3, <2>4, <2>5, NearestDecides
  <2>7. MirrorCandidate(c).value = c.value
    BY <1>1, MirrorOfCandidate
  <2>8. QED BY <2>2, <2>6, <2>7
<1>4. CASE ~ \E d \in candidates : EntryOf(d) = entry
  <2>1. ~ \E d \in MirrorOf(candidates) : EntryOf(d) = MirrorEntry(entry)
    BY <1>1, <1>2, <1>4 DEF MirrorOf
  <2>2. QED BY <1>4, <2>1 DEF Resolved
<1>5. QED BY <1>3, <1>4

LEMMA EntriesAreFinite == IsFiniteSet(CatalogueEntries)
<1>1. IsFiniteSet(Sides)
  <2>1. IsFiniteSet({"home"})
    BY FS_Singleton
  <2>2. IsFiniteSet({"home"} \cup {"away"})
    BY <2>1, FS_AddElement
  <2>3. {"home"} \cup {"away"} = Sides
    BY DEF Sides
  <2>4. QED BY <2>2, <2>3
<1>2. IsFiniteSet(Categories)
  <2> DEFINE A == {"home_field_advantage"} \cup {"opponent_strength"}
             B == A \cup {"recent_form"}
             C == B \cup {"squad_availability"}
             D == C \cup {"match_pace"}
  <2>1. IsFiniteSet({"home_field_advantage"})
    BY FS_Singleton
  <2>2. IsFiniteSet(A)
    BY <2>1, FS_AddElement
  <2>3. IsFiniteSet(B)
    BY <2>2, FS_AddElement
  <2>4. IsFiniteSet(C)
    BY <2>3, FS_AddElement
  <2>5. IsFiniteSet(D)
    BY <2>4, FS_AddElement
  <2>6. IsFiniteSet(D \cup {"must_win"})
    BY <2>5, FS_AddElement
  <2>7. D \cup {"must_win"} = Categories
    BY DEF Categories
  <2>8. QED BY <2>6, <2>7
<1>3. IsFiniteSet(Categories \X Sides)
  BY <1>1, <1>2, FS_Product
<1>4. CatalogueEntries \in SUBSET (Categories \X Sides)
  BY DEF CatalogueEntries
<1>5. QED
  BY <1>3, <1>4, FS_Subset

\* The entries of a side that an effective value of a multiplier is taken for.
Taken(candidates, side, value) ==
  {entry \in CatalogueEntries : entry[2] = side /\ Resolved(candidates, entry) = value}

\* An entry that takes a value other than 1 is not the advantage of the field.
LEMMA TakenHasCandidate ==
  ASSUME NEW candidates, Symmetric(candidates), NEW side, NEW value, value # "neutral",
         NEW entry \in Taken(candidates, side, value)
  PROVE  entry[1] # "home_field_advantage"
<1>1. \E d \in candidates : EntryOf(d) = entry
  BY DEF Taken, Resolved
<1>2. QED
  BY <1>1 DEF EntryOf, Symmetric

LEMMA MirrorTakes ==
  ASSUME NEW candidates, Symmetric(candidates), Resolvable(candidates),
         NEW side \in Sides, NEW value, value # "neutral",
         NEW entry \in Taken(candidates, side, value)
  PROVE  MirrorEntry(entry) \in Taken(MirrorOf(candidates), Opposite(side), value)
<1>1. entry \in Categories \X Sides /\ entry[2] = side
  BY DEF Taken, CatalogueEntries
<1>2. entry[1] # "home_field_advantage"
  BY TakenHasCandidate
<1>3. MirrorEntry(entry) \in CatalogueEntries /\ MirrorEntry(entry)[2] = Opposite(side)
  BY <1>1, <1>2 DEF CatalogueEntries, MirrorEntry, Opposite, Sides
<1>4. Resolved(MirrorOf(candidates), MirrorEntry(entry)) = value
  BY <1>1, MirrorResolved DEF Taken
<1>5. QED
  BY <1>3, <1>4 DEF Taken

\* The sides take as many multipliers of a value as the other ones do in the mirror.
LEMMA MirrorTaken ==
  ASSUME NEW candidates, Symmetric(candidates), Resolvable(candidates),
         NEW side \in Sides, NEW value, value # "neutral"
  PROVE  Cardinality(Taken(MirrorOf(candidates), Opposite(side), value)) =
           Cardinality(Taken(candidates, side, value))
<1> DEFINE T == Taken(candidates, side, value)
           M == Taken(MirrorOf(candidates), Opposite(side), value)
           f == [entry \in T |-> MirrorEntry(entry)]
<1>1. \A entry \in Categories \X Sides : MirrorEntry(MirrorEntry(entry)) = entry
  BY DEF MirrorEntry, Opposite, Sides
<1>2. T \subseteq Categories \X Sides /\ M \subseteq Categories \X Sides
  BY DEF Taken, CatalogueEntries
<1>3. \A entry \in T : MirrorEntry(entry) \in M
  BY MirrorTakes
<1>4. \A entry \in M : MirrorEntry(entry) \in T
  <2>1. /\ Symmetric(MirrorOf(candidates)) /\ MirrorOf(MirrorOf(candidates)) = candidates
        /\ Resolvable(MirrorOf(candidates))
    BY MirrorIsSymmetric, MirrorResolvable
  <2>2. Opposite(side) \in Sides /\ Opposite(Opposite(side)) = side
    BY DEF Opposite, Sides
  <2>3. QED
    BY <2>1, <2>2, MirrorTakes
<1>5. IsFiniteSet(T)
  <2>1. T \in SUBSET CatalogueEntries
    BY DEF Taken
  <2>2. QED BY <2>1, EntriesAreFinite, FS_Subset
<1> HIDE DEF T, M
<1>6. f \in [T -> M] /\ \A entry \in T : f[entry] = MirrorEntry(entry)
  BY <1>3
<1>7. f \in Injection(T, M)
  BY <1>1, <1>2, <1>6 DEF Injection, IsInjective
<1>8. f \in Surjection(T, M)
  BY <1>1, <1>2, <1>4, <1>6 DEF Surjection
<1>9. ExistsBijection(T, M)
  BY <1>7, <1>8 DEF ExistsBijection, Bijection
<1>10. QED
  BY <1>5, <1>9, FS_Bijection DEF T, M

-----------------------------------------------------------------------------
(* The series exchanged. *)

Snapshots == [count : Nat, sum : Nat, excluded : Nat, blocking : Nat, requested : Nat]

Roles == {"home_production", "home_concession", "away_production", "away_concession"}

MirrorSeries(series) == [role \in DOMAIN series |-> series[MirrorRole[role]]]

MirrorWeights(weights) == [home |-> weights.away, away |-> weights.home]

LEMMA RolesInOrder ==
  /\ SeriesRoles[1] = "home_production" /\ SeriesRoles[2] = "home_concession"
  /\ SeriesRoles[3] = "away_production" /\ SeriesRoles[4] = "away_concession"
  /\ \A i \in 1 .. 4 : i = 1 \/ i = 2 \/ i = 3 \/ i = 4
  /\ {SeriesRoles[i] : i \in 1 .. 4} = Roles
  /\ Range(SeriesRoles) = Roles
<1>1. /\ SeriesRoles[1] = "home_production" /\ SeriesRoles[2] = "home_concession"
      /\ SeriesRoles[3] = "away_production" /\ SeriesRoles[4] = "away_concession"
      /\ DOMAIN SeriesRoles = 1 .. 4
  BY DEF SeriesRoles
<1>2. \A i \in 1 .. 4 : i = 1 \/ i = 2 \/ i = 3 \/ i = 4
  OBVIOUS
<1>3. 1 \in 1 .. 4 /\ 2 \in 1 .. 4 /\ 3 \in 1 .. 4 /\ 4 \in 1 .. 4
  OBVIOUS
<1>4. {SeriesRoles[i] : i \in 1 .. 4} = Roles
  BY <1>1, <1>2, <1>3 DEF Roles
<1>5. Range(SeriesRoles) = Roles
  BY <1>1, <1>4 DEF Range
<1>6. QED
  BY <1>1, <1>2, <1>4, <1>5

LEMMA MirrorOfSeries ==
  ASSUME NEW series \in [Roles -> Snapshots]
  PROVE  /\ MirrorSeries(series) \in [Roles -> Snapshots]
         /\ MirrorSeries(series)["home_production"] = series["away_production"]
         /\ MirrorSeries(series)["home_concession"] = series["away_concession"]
         /\ MirrorSeries(series)["away_production"] = series["home_production"]
         /\ MirrorSeries(series)["away_concession"] = series["home_concession"]
BY DEF MirrorSeries, MirrorRole, Roles

\* The quality of the whole has the least level, and its role's.
LEMMA WorstLevel ==
  ASSUME NEW series \in [Roles -> Snapshots]
  PROVE  \E role \in Roles :
            /\ WorstQuality(series) = Quality(series[role])
            /\ \A other \in Roles :
                  Quality(series[role]).level <= Quality(series[other]).level
<1> DEFINE level(i) == Quality(series[SeriesRoles[i]]).level
           first(i) == /\ \A j \in 1 .. 4 : level(i) <= level(j)
                       /\ \A j \in 1 .. i - 1 : level(i) < level(j)
           worst == CHOOSE i \in 1 .. 4 : first(i)
<1>1. \A i \in 1 .. 4 : level(i) \in Nat
  BY RolesInOrder DEF Quality, Level
<1>2. \E i \in 1 .. 4 : first(i)
  <2> HIDE DEF level
  <2>0. level(1) \in Nat /\ level(2) \in Nat /\ level(3) \in Nat /\ level(4) \in Nat
    BY <1>1
  <2>1. CASE level(1) <= level(2) /\ level(1) <= level(3) /\ level(1) <= level(4)
    BY <2>0, <2>1, RolesInOrder
  <2>2. CASE level(2) < level(1) /\ level(2) <= level(3) /\ level(2) <= level(4)
    <3>1. first(2)
      BY <2>0, <2>2, RolesInOrder
    <3>2. QED BY <3>1
  <2>3. CASE level(3) < level(1) /\ level(3) < level(2) /\ level(3) <= level(4)
    <3>1. \A j \in 1 .. 2 : j = 1 \/ j = 2
      OBVIOUS
    <3>2. first(3)
      BY <2>0, <2>3, <3>1, RolesInOrder
    <3>3. QED BY <3>2
  <2>4. CASE level(4) < level(1) /\ level(4) < level(2) /\ level(4) < level(3)
    <3>1. \A j \in 1 .. 3 : j = 1 \/ j = 2 \/ j = 3
      OBVIOUS
    <3>2. first(4)
      BY <2>0, <2>4, <3>1, RolesInOrder
    <3>3. QED BY <3>2
  <2>5. QED BY <2>0, <2>1, <2>2, <2>3, <2>4
<1>3. worst \in 1 .. 4 /\ first(worst)
  BY <1>2
<1>4. WorstQuality(series) = Quality(series[SeriesRoles[worst]])
  BY DEF WorstQuality
<1>5. SeriesRoles[worst] \in Roles
  <2> HIDE DEF worst
  <2> QED BY <1>3, RolesInOrder DEF Roles
<1>6. \A other \in Roles : \E j \in 1 .. 4 : other = SeriesRoles[j]
  BY RolesInOrder
<1>7. \A other \in Roles :
         Quality(series[SeriesRoles[worst]]).level <= Quality(series[other]).level
  <2>1. \A j \in 1 .. 4 : level(worst) <= level(j)
    BY <1>3
  <2> HIDE DEF worst
  <2>2. QED BY <1>6, <2>1
<1>8. QED
  BY <1>4, <1>5, <1>7

LEMMA MirrorLevel ==
  ASSUME NEW series \in [Roles -> Snapshots]
  PROVE  WorstQuality(MirrorSeries(series)).level = WorstQuality(series).level
<1> DEFINE mirror == MirrorSeries(series)
<1>1. mirror \in [Roles -> Snapshots]
  BY MirrorOfSeries
<1>2. /\ \A role \in Roles : \E other \in Roles : mirror[other] = series[role]
      /\ \A role \in Roles : \E other \in Roles : series[other] = mirror[role]
  BY MirrorOfSeries DEF Roles
<1>3. PICK p \in Roles : /\ WorstQuality(series) = Quality(series[p])
                         /\ \A other \in Roles :
                              Quality(series[p]).level <= Quality(series[other]).level
  BY WorstLevel
<1> HIDE DEF mirror
<1>4. PICK q \in Roles : /\ WorstQuality(mirror) = Quality(mirror[q])
                         /\ \A other \in Roles :
                              Quality(mirror[q]).level <= Quality(mirror[other]).level
  BY <1>1, WorstLevel
<1>5. /\ Quality(series[p]).level <= Quality(mirror[q]).level
      /\ Quality(mirror[q]).level <= Quality(series[p]).level
  BY <1>2, <1>3, <1>4
<1>6. Quality(series[p]).level \in Nat /\ Quality(mirror[q]).level \in Nat
  BY DEF Quality, Level
<1>7. Quality(series[p]).level = Quality(mirror[q]).level
  BY <1>5, <1>6
<1>8. QED BY <1>3, <1>4, <1>7 DEF mirror

LEMMA MirrorBlocked ==
  ASSUME NEW series \in [Roles -> Snapshots]
  PROVE  Blocked(MirrorSeries(series)) <=> Blocked(series)
<1>1. /\ DOMAIN series = Roles /\ DOMAIN MirrorSeries(series) = Roles
      /\ \A role \in Roles : \E other \in Roles : MirrorSeries(series)[other] = series[role]
      /\ \A role \in Roles : \E other \in Roles : series[other] = MirrorSeries(series)[role]
  BY MirrorOfSeries DEF Roles
<1>2. QED
  BY <1>1 DEF Blocked

LEMMA MirrorRate ==
  ASSUME NEW series \in [Roles -> Snapshots], NEW weights, NEW candidates,
         Symmetric(candidates), Resolvable(candidates), NEW side \in Sides
  PROVE  AdjustedRate(MirrorSeries(series), MirrorWeights(weights), MirrorOf(candidates),
                      Opposite(side))
           = AdjustedRate(series, weights, candidates, side)
<1>1. BaseRate(MirrorSeries(series), MirrorWeights(weights), Opposite(side)) =
        BaseRate(series, weights, side)
  BY MirrorOfSeries DEF BaseRate, MirrorWeights, Opposite, Sides
<1>2. \A value : value # "neutral" =>
         Cardinality(Taken(MirrorOf(candidates), Opposite(side), value)) =
           Cardinality(Taken(candidates, side, value))
  BY MirrorTaken
<1>3. \A some, w, multipliers, s :
         AdjustedRate(some, w, multipliers, s) =
           [base |-> BaseRate(some, w, s),
            low  |-> Cardinality(Taken(multipliers, s, "low")),
            high |-> Cardinality(Taken(multipliers, s, "high"))]
  BY DEF AdjustedRate, Taken
<1>4. QED
  BY <1>1, <1>2, <1>3

\* The method on the mirror: refused alike, or the rates exchanged.
LEMMA MirrorRuns ==
  ASSUME NEW series \in [Roles -> Snapshots], NEW weights, NEW candidates,
         Symmetric(candidates), \A role \in Roles : series[role].blocking = 0
  PROVE  Exchanged(RunMethodOne(series, weights, candidates),
                   RunMethodOne(MirrorSeries(series), MirrorWeights(weights),
                                MirrorOf(candidates)))
<1> DEFINE S == MirrorSeries(series)
           W == MirrorWeights(weights)
           M == MirrorOf(candidates)
           outcome == RunMethodOne(series, weights, candidates)
           mirror == RunMethodOne(S, W, M)
<1>1. S \in [Roles -> Snapshots] /\ \A role \in Roles : S[role].blocking = 0
  BY MirrorOfSeries DEF Roles
<1>2. FourSeries(series) /\ FourSeries(S)
  BY <1>1, RolesInOrder DEF FourSeries
<1>3. Blocked(S) <=> Blocked(series)
  BY MirrorBlocked
<1>4. Resolvable(M) <=> Resolvable(candidates)
  <2>1. Resolvable(candidates) => Resolvable(M)
    BY MirrorResolvable
  <2>2. Symmetric(M) /\ MirrorOf(M) = candidates
    BY MirrorIsSymmetric
  <2> HIDE DEF M
  <2>3. Resolvable(M) => Resolvable(candidates)
    BY <2>2, MirrorResolvable
  <2>4. QED BY <2>1, <2>3
<1>5. CASE Blocked(series)
  <2>1. outcome = [error |-> "sample_empty"] /\ mirror = [error |-> "sample_empty"]
    BY <1>2, <1>3, <1>5 DEF RunMethodOne
  <2> HIDE DEF outcome, mirror
  <2>2. Exchanged(outcome, mirror)
    BY <2>1 DEF Exchanged
  <2>3. QED BY <2>2 DEF outcome, mirror
<1>6. CASE ~ Blocked(series) /\ ~ Resolvable(candidates)
  <2>1. /\ outcome = [error |-> "invalid_multiplier"]
        /\ mirror = [error |-> "invalid_multiplier"]
    BY <1>2, <1>3, <1>4, <1>6 DEF RunMethodOne
  <2> HIDE DEF outcome, mirror
  <2>2. Exchanged(outcome, mirror)
    BY <2>1 DEF Exchanged
  <2>3. QED BY <2>2 DEF outcome, mirror
<1>7. CASE ~ Blocked(series) /\ Resolvable(candidates)
  <2>1. \A some \in [Roles -> Snapshots] :
           (~ Blocked(some) /\ \A role \in Roles : some[role].blocking = 0)
             => ~ (WorstQuality(some).errors > 0)
    <3> SUFFICES ASSUME NEW some \in [Roles -> Snapshots], ~ Blocked(some),
                        \A role \in Roles : some[role].blocking = 0
                 PROVE  WorstQuality(some).errors = 0
      OBVIOUS
    <3>1. PICK role \in Roles : WorstQuality(some) = Quality(some[role])
      BY WorstLevel
    <3>2. some[role].blocking = 0 /\ some[role].count \in Nat /\ some[role].count > 0
      BY DEF Blocked, Quality, Snapshots
    <3>3. Quality(some[role]).errors = 0
      BY <3>2 DEF Quality
    <3>4. QED BY <3>1, <3>3
  <2>2. ~ (WorstQuality(series).errors > 0) /\ ~ (WorstQuality(S).errors > 0)
    BY <1>1, <1>3, <1>7, <2>1
  <2>3. outcome = [error |-> "",
                   home |-> AdjustedRate(series, weights, candidates, "home"),
                   away |-> AdjustedRate(series, weights, candidates, "away"),
                   publication |-> PublicationState(WorstQuality(series).level),
                   warnings |-> {role \in DOMAIN series : Quality(series[role]).warned}]
    BY <1>2, <1>7, <2>2 DEF RunMethodOne
  <2>4. mirror = [error |-> "",
                  home |-> AdjustedRate(S, W, M, "home"),
                  away |-> AdjustedRate(S, W, M, "away"),
                  publication |-> PublicationState(WorstQuality(S).level),
                  warnings |-> {role \in DOMAIN S : Quality(S[role]).warned}]
    BY <1>2, <1>3, <1>4, <1>7, <2>2 DEF RunMethodOne
  <2>5. WorstQuality(S).level = WorstQuality(series).level
    BY MirrorLevel
  <2>6. /\ AdjustedRate(S, W, M, "away") = AdjustedRate(series, weights, candidates, "home")
        /\ AdjustedRate(S, W, M, "home") = AdjustedRate(series, weights, candidates, "away")
    <3>1. /\ "home" \in Sides /\ "away" \in Sides
          /\ Opposite("home") = "away" /\ Opposite("away") = "home"
      BY DEF Sides, Opposite
    <3>2. \A side \in Sides : AdjustedRate(S, W, M, Opposite(side)) =
                                AdjustedRate(series, weights, candidates, side)
      BY <1>7, MirrorRate
    <3>3. QED BY <3>1, <3>2
  <2> HIDE DEF outcome, mirror
  <2>7. Exchanged(outcome, mirror)
    BY <2>3, <2>4, <2>5, <2>6 DEF Exchanged
  <2>8. QED BY <2>7 DEF outcome, mirror
<1>8. QED
  BY <1>5, <1>6, <1>7

\* A calculation of Method One is what the method makes of what it was given.
MethodOneRan ==
  calculation # Idle /\ calculation.kind = "method_one" =>
    \E series \in [Roles -> Snapshots], weights \in WeightChoices,
       candidates \in SUBSET Candidates :
       /\ calculation.series = series
       /\ calculation.weights = weights
       /\ calculation.candidates = candidates
       /\ calculation.outcome = RunMethodOne(series, weights, candidates)

LEMMA RanIsTreatedAlike ==
  ASSUME MethodOneRan
  PROVE  SidesAreTreatedAlike
<1> SUFFICES ASSUME calculation # Idle, calculation.kind = "method_one",
                    \A role \in DOMAIN calculation.series :
                       calculation.series[role].blocking = 0,
                    \A d \in calculation.candidates : d.category # "home_field_advantage"
             PROVE  Exchanged(calculation.outcome, MirrorOutcome(calculation))
  BY DEF SidesAreTreatedAlike
<1>1. PICK series \in [Roles -> Snapshots], weights \in WeightChoices,
           candidates \in SUBSET Candidates :
              /\ calculation.series = series
              /\ calculation.weights = weights
              /\ calculation.candidates = candidates
              /\ calculation.outcome = RunMethodOne(series, weights, candidates)
  BY DEF MethodOneRan
<1>2. MirrorOutcome(calculation) =
        RunMethodOne(MirrorSeries(series), MirrorWeights(weights), MirrorOf(candidates))
  BY <1>1 DEF MirrorOutcome, MirrorSeries, MirrorWeights, MirrorOf
<1>3. Symmetric(candidates) /\ \A role \in Roles : series[role].blocking = 0
  BY <1>1 DEF Symmetric
<1>4. QED
  BY <1>1, <1>2, <1>3, MirrorRuns

LEMMA StepRuns ==
  ASSUME MethodOneRan, [Next]_vars
  PROVE  MethodOneRan'
<1>1. CASE calculation' = calculation
  BY <1>1 DEF MethodOneRan
<1>2. CASE calculation' = Idle
  BY <1>2 DEF MethodOneRan
<1>3. ASSUME NEW home, NEW away, NEW requested, PriceMarkets(home, away, requested)
      PROVE  MethodOneRan'
  <2>1. calculation'.kind = "engine"
    BY <1>3 DEF PriceMarkets
  <2>2. QED BY <2>1 DEF MethodOneRan
<1>4. ASSUME NEW series \in [Range(SeriesRoles) -> SeriesChoices],
             NEW weights \in WeightChoices, NEW candidates \in CandidateChoices,
             CalculateMethodOne(series, weights, candidates)
      PROVE  MethodOneRan'
  <2>1. series \in [Roles -> Snapshots]
    BY RolesInOrder, MethodOneAssumption DEF Snapshots
  <2>2. Range(Scopes) = {"match", "competition", "global"}
    <3>1. DOMAIN Scopes = 1 .. 3 /\ 1 \in 1 .. 3 /\ 2 \in 1 .. 3 /\ 3 \in 1 .. 3
          /\ \A i \in 1 .. 3 : i = 1 \/ i = 2 \/ i = 3
      BY DEF Scopes
    <3>2. Scopes[1] = "match" /\ Scopes[2] = "competition" /\ Scopes[3] = "global"
      BY DEF Scopes
    <3>3. QED BY <3>1, <3>2 DEF Range
  <2>3. candidates \in SUBSET Candidates
    BY <2>2, MethodOneAssumption DEF Candidates
  <2>4. /\ calculation'.series = series
        /\ calculation'.weights = weights
        /\ calculation'.candidates = candidates
        /\ calculation'.outcome = RunMethodOne(series, weights, candidates)
    BY <1>4 DEF CalculateMethodOne
  <2>5. QED
    BY <2>1, <2>3, <2>4 DEF MethodOneRan
<1>5. QED
  BY <1>1, <1>2, <1>3, <1>4 DEF Next, Return, vars

\* run_method_one treats the sides alike, for all series, weights and multipliers:
\* with the series of the sides exchanged, and every multiplier but the advantage of
\* the field given to the other side, each side gets the rate the other had.  It runs
\* every check, blend and look-up of a multiplier once for each side.
THEOREM MethodOneIsEven == Spec => []SidesAreTreatedAlike
<1>1. Init => MethodOneRan
  BY DEF Init, MethodOneRan
<1>2. MethodOneRan /\ [Next]_vars => MethodOneRan'
  BY StepRuns
<1>3. MethodOneRan => SidesAreTreatedAlike
  BY RanIsTreatedAlike
<1>4. QED
  BY <1>1, <1>2, <1>3, PTL DEF Spec

-----------------------------------------------------------------------------
(* The newest of a set of matches. *)

Table == matches \in Seq(Matches)

LEMMA TableIsFinite ==
  ASSUME Table, NEW S \in SUBSET Ids
  PROVE  /\ IsFiniteSet(S)
         /\ Cardinality(S) \in Nat
         /\ S \subseteq Nat
         /\ \A i \in S : matches[i] \in Matches /\ matches[i].day \in Int
<1>1. Ids = 1 .. Len(matches) /\ Len(matches) \in Nat
  BY DEF Table, Ids
<1>2. IsFiniteSet(Ids)
  BY <1>1, FS_Interval
<1>3. IsFiniteSet(S)
  BY <1>2, FS_Subset
<1>4. Cardinality(S) \in Nat
  BY <1>3, FS_CardinalityType
<1>5. S \subseteq Nat
  BY <1>1
<1>6. \A i \in S : matches[i] \in Matches
  BY <1>1 DEF Table
<1>7. \A i \in S : matches[i].day \in Int
  BY <1>6 DEF Matches
<1>8. QED
  BY <1>3, <1>4, <1>5, <1>6, <1>7

LEMMA CountIsInterval ==
  ASSUME NEW n \in Nat
  PROVE  IsFiniteSet(0..(n - 1)) /\ Cardinality(0..(n - 1)) = n
<1>1. 0 \in Int /\ n - 1 \in Int
  OBVIOUS
<1>2. /\ IsFiniteSet(0..(n - 1))
      /\ Cardinality(0..(n - 1)) = IF 0 > n - 1 THEN 0 ELSE (n - 1) - 0 + 1
  BY <1>1, FS_Interval
<1>3. QED BY <1>2

Ahead(S, i) == Cardinality(Newer(S, i))

\* Counting the newer ones numbers a set of matches from 0 on.
LEMMA AheadNumbers ==
  ASSUME Table, NEW S \in SUBSET Ids
  PROVE  /\ \A i \in S : Ahead(S, i) \in 0 .. Cardinality(S) - 1
         /\ \A i, j \in S : Ahead(S, i) = Ahead(S, j) => i = j
         /\ \A i, j \in S : Recent(i, j) <=> Ahead(S, i) < Ahead(S, j)
         /\ \A v \in 0 .. Cardinality(S) - 1 : \E i \in S : Ahead(S, i) = v
<1> DEFINE n == Cardinality(S)
           rank == [i \in S |-> Ahead(S, i)]
<1>0. /\ IsFiniteSet(S) /\ n \in Nat /\ S \subseteq Nat
      /\ \A i \in S : matches[i].day \in Int
  BY TableIsFinite
<1>1. \A i \in S : IsFiniteSet(Newer(S, i)) /\ Ahead(S, i) \in Nat
  <2> SUFFICES ASSUME NEW i \in S
               PROVE IsFiniteSet(Newer(S, i)) /\ Ahead(S, i) \in Nat
    OBVIOUS
  <2>1. Newer(S, i) \in SUBSET S
    BY DEF Newer
  <2>2. IsFiniteSet(Newer(S, i))
    BY <1>0, <2>1, FS_Subset
  <2>3. QED BY <2>2, FS_CardinalityType DEF Ahead
<1>2. \A i \in S : Ahead(S, i) \in 0 .. n - 1
  <2> SUFFICES ASSUME NEW i \in S PROVE Ahead(S, i) \in 0 .. n - 1
    OBVIOUS
  <2>1. ~ Recent(i, i)
    BY <1>0 DEF Recent
  <2>2. Newer(S, i) \in SUBSET S /\ S # Newer(S, i)
    BY <2>1 DEF Newer
  <2>3. Ahead(S, i) <= n /\ n # Ahead(S, i)
    BY <1>0, <2>2, FS_Subset DEF Ahead
  <2>4. QED BY <2>3, <1>0, <1>1
<1>3. \A i, j \in S : Recent(i, j) => Ahead(S, i) < Ahead(S, j)
  <2> SUFFICES ASSUME NEW i \in S, NEW j \in S, Recent(i, j)
               PROVE Ahead(S, i) < Ahead(S, j)
    OBVIOUS
  <2>1. \A x \in S : Recent(x, i) => Recent(x, j)
    BY <1>0 DEF Recent
  <2>2. i \in Newer(S, j) /\ i \notin Newer(S, i)
    BY <1>0 DEF Newer, Recent
  <2>3. Newer(S, i) \in SUBSET Newer(S, j) /\ Newer(S, j) # Newer(S, i)
    <3>1. Newer(S, i) \subseteq Newer(S, j)
      BY <2>1 DEF Newer
    <3>2. QED BY <3>1, <2>2
  <2>4. IsFiniteSet(Newer(S, j))
    BY <1>1
  <2>5. /\ Ahead(S, i) <= Ahead(S, j) /\ Ahead(S, j) # Ahead(S, i)
    BY <2>3, <2>4, FS_Subset DEF Ahead
  <2>6. QED BY <2>5, <1>1
<1>4. \A i, j \in S : Ahead(S, i) = Ahead(S, j) => i = j
  <2> SUFFICES ASSUME NEW i \in S, NEW j \in S, i # j
               PROVE Ahead(S, i) # Ahead(S, j)
    OBVIOUS
  <2>1. Recent(i, j) \/ Recent(j, i)
    BY <1>0 DEF Recent
  <2>2. Ahead(S, i) < Ahead(S, j) \/ Ahead(S, j) < Ahead(S, i)
    BY <2>1, <1>3
  <2>3. QED BY <2>2, <1>1
<1>5. rank \in [S -> 0..(n - 1)] /\ \A i \in S : rank[i] = Ahead(S, i)
  BY <1>2
<1>6. IsFiniteSet(0..(n - 1)) /\ Cardinality(0..(n - 1)) = n
  BY <1>0, CountIsInterval
<1>7. rank \in Injection(S, 0..(n - 1))
  <2>1. \A i, j \in S : rank[i] = rank[j] => i = j
    BY <1>4
  <2>2. QED BY <1>5, <2>1 DEF Injection, IsInjective
<1>8. rank \in Surjection(S, 0..(n - 1))
  BY <1>6, <1>7, FS_Injection
<1>9. \A v \in 0..(n - 1) : \E i \in S : rank[i] = v
  BY <1>8 DEF Surjection
<1>10. \A v \in 0..(n - 1) : \E i \in S : Ahead(S, i) = v
  BY <1>9
<1>11. \A i, j \in S : Recent(i, j) <=> Ahead(S, i) < Ahead(S, j)
  <2> SUFFICES ASSUME NEW i \in S, NEW j \in S, Ahead(S, i) < Ahead(S, j)
               PROVE Recent(i, j)
    BY <1>3
  <2>1. ~ Recent(j, i) /\ i # j
    BY <1>1, <1>3
  <2>2. QED BY <1>0, <2>1 DEF Recent
<1>12. QED
  BY <1>2, <1>4, <1>10, <1>11

LEMMA MinOfTwo ==
  ASSUME NEW a \in Nat, NEW b \in Nat
  PROVE  /\ Min({a, b}) \in Nat
         /\ \A k \in Nat : k <= Min({a, b}) <=> (k <= a /\ k <= b)
<1>1. CASE a <= b
  <2>1. Min({a, b}) = a
    BY <1>1 DEF Min
  <2>2. QED BY <1>1, <2>1
<1>2. CASE b <= a
  <2>1. Min({a, b}) = b
    BY <1>2 DEF Min
  <2>2. QED BY <1>2, <2>1
<1>3. QED BY <1>1, <1>2

\* The rows of a query are of the set it selects from; the one at a position has as many
\* newer ones as come before it, and a match is at the position its newer ones leave it.
LEMMA LatestRows ==
  ASSUME Table, NEW S \in SUBSET Ids
  PROVE  /\ \E n \in Nat : DOMAIN Latest(S) = 1 .. n
         /\ Latest(S) \in Seq(S)
         /\ \A p \in Nat : p \in DOMAIN Latest(S) <=>
                              p >= 1 /\ p <= SampleSize /\ p <= Cardinality(S)
         /\ \A p \in DOMAIN Latest(S) :
               Latest(S)[p] \in S /\ Ahead(S, Latest(S)[p]) = p - 1
         /\ \A i \in S : Ahead(S, i) < SampleSize =>
               /\ Ahead(S, i) + 1 \in DOMAIN Latest(S)
               /\ Latest(S)[Ahead(S, i) + 1] = i
<1> DEFINE n == Cardinality(S)
           m == Min({SampleSize, n})
           L == Latest(S)
<1>0. n \in Nat /\ SampleSize \in Nat
  BY TableIsFinite, FixturesAssumption
<1>1. m \in Nat /\ \A k \in Nat : k <= m <=> k <= SampleSize /\ k <= n
  BY <1>0, MinOfTwo
<1>2. DOMAIN L = 1 .. m /\ \A p \in 1 .. m : L[p] = The(At(S, p))
  BY DEF Latest
<1>3. \A p \in Nat : p \in DOMAIN L <=> p >= 1 /\ p <= SampleSize /\ p <= n
  <2> HIDE DEF m, L, n
  <2> QED BY <1>1, <1>2
<1>4. \A i \in S : Ahead(S, i) \in 0 .. n - 1
  BY AheadNumbers
<1>5. \A i, j \in S : Ahead(S, i) = Ahead(S, j) => i = j
  BY AheadNumbers
<1>6. \A v \in 0 .. n - 1 : \E i \in S : Ahead(S, i) = v
  BY AheadNumbers
<1>7. \A p : \A i : i \in At(S, p) => i \in S /\ Ahead(S, i) = p - 1
  BY DEF At, Ahead
<1>8. \A p \in 1 .. m : L[p] \in S /\ Ahead(S, L[p]) = p - 1
  <2> SUFFICES ASSUME NEW p \in 1 .. m PROVE L[p] \in At(S, p)
    BY <1>7
  <2>1. p - 1 \in 0 .. n - 1
    <3> HIDE DEF m, n
    <3> QED BY <1>0, <1>1
  <2>2. PICK i \in S : Ahead(S, i) = p - 1
    BY <2>1, <1>6
  <2>3. i \in At(S, p)
    BY <2>2 DEF At, Ahead
  <2>4. The(At(S, p)) \in At(S, p)
    BY <2>3 DEF The
  <2>5. QED BY <2>4, <1>2
<1>9. \A i \in S : Ahead(S, i) < SampleSize =>
         Ahead(S, i) + 1 \in DOMAIN L /\ L[Ahead(S, i) + 1] = i
  <2> SUFFICES ASSUME NEW i \in S, Ahead(S, i) < SampleSize
               PROVE Ahead(S, i) + 1 \in DOMAIN L /\ L[Ahead(S, i) + 1] = i
    OBVIOUS
  <2> DEFINE a == Ahead(S, i)
  <2>1. a \in 0 .. n - 1 /\ a < SampleSize
    BY <1>4
  <2> HIDE DEF m, n, a, L
  <2>2. a + 1 \in 1 .. m /\ (a + 1) - 1 = a
    BY <1>0, <1>1, <2>1
  <2>3. L[a + 1] \in S /\ Ahead(S, L[a + 1]) = a
    BY <2>2, <1>8
  <2>4. L[a + 1] = i
    BY <2>3, <1>5 DEF a
  <2>5. QED BY <2>2, <2>4, <1>2 DEF a
<1>10. L \in Seq(S)
  <2>1. L = [p \in 1 .. m |-> L[p]]
    BY DEF Latest
  <2> HIDE DEF m, L
  <2>2. L \in [1 .. m -> S]
    BY <2>1, <1>8
  <2>3. QED BY <1>1, <2>2
<1>11. QED
  BY <1>1, <1>2, <1>3, <1>8, <1>9, <1>10

-----------------------------------------------------------------------------
(* What a calculation reads of the past. *)

Past(target) == {i \in Ids : Before(i, target)}

\* A step that leaves the past of a match alone, and of the match what places it.
KeepsPast(target) ==
  /\ target \in Ids /\ Ids \subseteq Ids'
  /\ matches'[target].day = matches[target].day
  /\ matches'[target].competition = matches[target].competition
  /\ matches'[target].label = matches[target].label
  /\ matches'[target].home = matches[target].home
  /\ matches'[target].away = matches[target].away
  /\ Past(target)' = Past(target)
  /\ \A i \in Past(target) : matches'[i] = matches[i]

LEMMA EligibleKept ==
  ASSUME NEW target, KeepsPast(target), NEW team, NEW venue, NEW scope, NEW previous
  PROVE  /\ Eligible(target, team, venue, scope, previous)' =
              Eligible(target, team, venue, scope, previous)
         /\ Eligible(target, team, venue, scope, previous) \subseteq Past(target)
<1>1. \A i : i \in Eligible(target, team, venue, scope, previous) <=>
        /\ i \in Past(target)
        /\ PlaysAt(i, team, venue)
        /\ scope = "target_competition" =>
              matches[i].competition = matches[target].competition
        /\ InSeason(i, target, previous)
  BY DEF Eligible, Past
<1>2. \A i : i \in Eligible(target, team, venue, scope, previous)' <=>
        /\ i \in Past(target)'
        /\ PlaysAt(i, team, venue)'
        /\ scope = "target_competition" =>
              matches'[i].competition = matches'[target].competition
        /\ InSeason(i, target, previous)'
  BY DEF Eligible, Past
<1>3. \A i \in Past(target) : PlaysAt(i, team, venue)' <=> PlaysAt(i, team, venue)
  BY DEF KeepsPast, PlaysAt
<1>4. \A i \in Past(target) :
         InSeason(i, target, previous)' <=> InSeason(i, target, previous)
  BY DEF KeepsPast, InSeason
<1>5. \A i : i \in Eligible(target, team, venue, scope, previous)' <=>
             i \in Eligible(target, team, venue, scope, previous)
  BY <1>1, <1>2, <1>3, <1>4 DEF KeepsPast
<1>6. QED
  BY <1>1, <1>5

LEMMA LatestKept ==
  ASSUME NEW S, \A i \in S : matches'[i] = matches[i]
  PROVE  Latest(S)' = Latest(S)
<1>1. \A i, j \in S : Recent(i, j)' <=> Recent(i, j)
  BY DEF Recent
<1>2. \A i \in S : Newer(S, i)' = Newer(S, i)
  BY <1>1 DEF Newer
<1>3. \A p : At(S, p)' = At(S, p)
  BY <1>2 DEF At
<1>4. QED
  BY <1>3 DEF Latest

LEMMA MethodTwoRowsKept ==
  ASSUME NEW target, KeepsPast(target), NEW team, NEW venue, NEW previous
  PROVE  MethodTwoRows(target, team, venue, previous)' =
           MethodTwoRows(target, team, venue, previous)
<1> DEFINE E == Eligible(target, team, venue, "target_competition", previous)
<1>1. PICK S : S = {i \in E : matches[i].completed}
  OBVIOUS
<1>2. E' = E /\ E \subseteq Past(target)
  BY EligibleKept
<1>3. \A i \in E : matches'[i] = matches[i]
  BY <1>2 DEF KeepsPast
<1>4. S = {i \in E' : matches'[i].completed}
  BY <1>1, <1>2, <1>3
<1>5. Latest(S)' = Latest(S)
  BY <1>1, <1>3, LatestKept
<1>6. MethodTwoRows(target, team, venue, previous) = Latest(S)
  BY <1>1 DEF MethodTwoRows
<1>7. MethodTwoRows(target, team, venue, previous)' = Latest(S)'
  BY <1>4 DEF MethodTwoRows
<1>8. QED
  BY <1>5, <1>6, <1>7

LEMMA CandidateRowsKept ==
  ASSUME NEW target, KeepsPast(target), NEW team, NEW venue, NEW scope, NEW previous
  PROVE  CandidateRows(target, team, venue, scope, previous)' =
           CandidateRows(target, team, venue, scope, previous)
<1>1. PICK S : S = Eligible(target, team, venue, scope, previous)
  OBVIOUS
<1>2. /\ S = Eligible(target, team, venue, scope, previous)'
      /\ S \subseteq Past(target)
  BY <1>1, EligibleKept
<1>3. Latest(S)' = Latest(S)
  <2>1. \A i \in S : matches'[i] = matches[i]
    BY <1>2 DEF KeepsPast
  <2>2. QED BY <2>1, LatestKept
<1>4. CandidateRows(target, team, venue, scope, previous) = Latest(S)
  BY <1>1 DEF CandidateRows
<1>5. CandidateRows(target, team, venue, scope, previous)' = Latest(S)'
  BY <1>2 DEF CandidateRows
<1>6. QED
  BY <1>3, <1>4, <1>5

LEMMA MethodOneRowsKept ==
  ASSUME NEW target, KeepsPast(target), NEW side \in {"home", "away"}
  PROVE  MethodOneRows(target, side)' = MethodOneRows(target, side)
<1>1. PICK S : S = {i \in Past(target) :
                      /\ matches[i].completed
                      /\ matches[i].competition = matches[target].competition
                      /\ matches[i].label = matches[target].label
                      /\ matches[i][side] = matches[target][side]}
  OBVIOUS
<1>2. S = {i \in Past(target)' :
              /\ matches'[i].completed
              /\ matches'[i].competition = matches'[target].competition
              /\ matches'[i].label = matches'[target].label
              /\ matches'[i][side] = matches'[target][side]}
  <2>1. matches'[target][side] = matches[target][side]
    BY DEF KeepsPast
  <2>2. QED BY <1>1, <2>1 DEF KeepsPast
<1>3. Latest(S)' = Latest(S)
  <2>1. \A i \in S : matches'[i] = matches[i]
    BY <1>1 DEF KeepsPast
  <2>2. QED BY <2>1, LatestKept
<1>4. MethodOneRows(target, side) = Latest(S)
  <2>1. S = {i \in Ids :
                /\ Before(i, target)
                /\ matches[i].completed
                /\ matches[i].competition = matches[target].competition
                /\ matches[i].label = matches[target].label
                /\ matches[i][side] = matches[target][side]}
    BY <1>1 DEF Past
  <2>2. QED BY <2>1 DEF MethodOneRows
<1>5. MethodOneRows(target, side)' = Latest(S)'
  <2>1. S = {i \in Ids' :
                /\ Before(i, target)'
                /\ matches'[i].completed
                /\ matches'[i].competition = matches'[target].competition
                /\ matches'[i].label = matches'[target].label
                /\ matches'[i][side] = matches'[target][side]}
    BY <1>2 DEF Past
  <2>2. QED BY <2>1 DEF MethodOneRows
<1>6. QED
  BY <1>3, <1>4, <1>5

Measures ==
  {"production", "complement", "goals_scored", "goals_conceded", "result_win"}

\* Observations of the past keep their values.
LEMMA SampleKept ==
  ASSUME NEW target, KeepsPast(target), NEW component \in Measures, NEW seen,
         \A k \in DOMAIN seen : seen[k].match \in Past(target)
  PROVE  Sample(seen, component)' = Sample(seen, component)
<1>1. \A i \in Past(target) : \A side : Value(i, side)' = Value(i, side)
  BY DEF KeepsPast, Value
<1>2. \A k \in DOMAIN seen :
         Observed(seen[k], component)' = Observed(seen[k], component)
  BY <1>1 DEF Observed
<1>3. QED
  BY <1>2 DEF Sample

LEMMA PairKept ==
  ASSUME NEW target, KeepsPast(target), NEW seen,
         \A k \in DOMAIN seen : seen[k].match \in Past(target)
  PROVE  Pair(seen)' = Pair(seen)
<1>1. /\ Sample(seen, "production")' = Sample(seen, "production")
      /\ Sample(seen, "complement")' = Sample(seen, "complement")
  BY SampleKept DEF Measures
<1>2. QED
  BY <1>1 DEF Pair

LEMMA OfTeamKept ==
  ASSUME NEW target, KeepsPast(target), NEW rows, NEW team,
         \A k \in DOMAIN rows : rows[k] \in Past(target)
  PROVE  /\ OfTeam(rows, team)' = OfTeam(rows, team)
         /\ \A k \in DOMAIN OfTeam(rows, team) :
               OfTeam(rows, team)[k].match \in Past(target)
<1>1. \A k \in DOMAIN rows : OwnSide(rows[k], team)' = OwnSide(rows[k], team)
  BY DEF KeepsPast, OwnSide
<1>2. QED
  BY <1>1 DEF OfTeam

\* Half of an even number, and of the odd one before it, is a place of a sequence.
LEMMA HalfPlaces ==
  ASSUME NEW n \in Nat, NEW k \in 1 .. 2 * n
  PROVE  (k + 1) \div 2 \in 1 .. n
OBVIOUS

LEMMA OfCompetitionMatches ==
  ASSUME NEW S, NEW rows \in Seq(S), NEW venue
  PROVE  \A k \in DOMAIN OfCompetition(rows, venue) :
            OfCompetition(rows, venue)[k].match \in S
<1>1. Len(rows) \in Nat /\ DOMAIN rows = 1 .. Len(rows)
      /\ \A k \in 1 .. Len(rows) : rows[k] \in S
  OBVIOUS
<1>2. CASE venue = "overall"
  <2>1. \A k \in 1 .. 2 * Len(rows) : (k + 1) \div 2 \in 1 .. Len(rows)
    BY <1>1, HalfPlaces
  <2>2. \A k \in 1 .. 2 * Len(rows) : rows[(k + 1) \div 2] \in S
    BY <1>1, <2>1
  <2>3. QED
    BY <1>2, <2>2 DEF OfCompetition
<1>3. CASE venue # "overall"
  BY <1>1, <1>3 DEF OfCompetition
<1>4. QED
  BY <1>2, <1>3

LEMMA RowsArePast ==
  ASSUME Table, NEW target, NEW team, NEW venue, NEW scope, NEW previous
  PROVE  /\ MethodTwoRows(target, team, venue, previous) \in Seq(Past(target))
         /\ CandidateRows(target, team, venue, scope, previous) \in Seq(Past(target))
<1>1. \A any : Eligible(target, team, venue, any, previous) \subseteq Past(target)
  BY DEF Eligible, Past
<1>2. Past(target) \subseteq Ids
  BY DEF Past
<1>3. \A S \in SUBSET Past(target) : Latest(S) \in Seq(Past(target))
  <2> SUFFICES ASSUME NEW S \in SUBSET Past(target)
               PROVE  Latest(S) \in Seq(Past(target))
    OBVIOUS
  <2>1. Latest(S) \in Seq(S)
    BY <1>2, LatestRows
  <2>2. QED BY <2>1
<1>4. {i \in Eligible(target, team, venue, "target_competition", previous) :
          matches[i].completed} \in SUBSET Past(target)
  BY <1>1
<1>5. QED
  BY <1>1, <1>3, <1>4 DEF MethodTwoRows, CandidateRows

LEMMA ResultKept ==
  ASSUME Table, NEW target, KeepsPast(target), NEW r, r.target = target,
         r.method # "two" => r.metric \in Measures, NEW read
  PROVE  Result(r, read)' = Result(r, read)
<1> DEFINE tworows == MethodTwoRows(target, read.of, read.venue, r.previous)
           candidates == CandidateRows(target, read.of, read.venue, r.scope, r.previous)
<1>1. PICK rows : rows = tworows
  OBVIOUS
<1>2. PICK list : list = candidates
  OBVIOUS
<1>3. tworows' = rows /\ candidates' = list
  BY <1>1, <1>2, MethodTwoRowsKept, CandidateRowsKept
<1>4. rows \in Seq(Past(target)) /\ list \in Seq(Past(target))
  BY <1>1, <1>2, RowsArePast
<1>5. /\ \A k \in DOMAIN rows : rows[k] \in Past(target)
      /\ \A k \in DOMAIN list : list[k] \in Past(target)
  BY <1>4
<1>6. CASE r.method # "two"
  <2>1. PICK seen : seen = OfTeam(list, read.of)
    OBVIOUS
  <2>2. /\ OfTeam(list, read.of)' = seen
        /\ \A k \in DOMAIN seen : seen[k].match \in Past(target)
    BY <1>5, <2>1, OfTeamKept
  <2>3. Sample(seen, r.metric)' = Sample(seen, r.metric)
    BY <1>6, <2>2, SampleKept
  <2>4. Result(r, read) = Sample(seen, r.metric)
    BY <1>2, <1>6, <2>1 DEF Result
  <2>5. Result(r, read)' = Sample(seen, r.metric)'
    BY <1>3, <1>6, <2>2 DEF Result
  <2>6. QED BY <2>3, <2>4, <2>5
<1>7. CASE r.method = "two" /\ read.of = Anyone
  <2>1. PICK seen : seen = OfCompetition(rows, read.venue)
    OBVIOUS
  <2>2. \A k \in DOMAIN seen : seen[k].match \in Past(target)
    BY <1>4, <2>1, OfCompetitionMatches
  <2>3. Pair(seen)' = Pair(seen)
    BY <2>2, PairKept
  <2>4. Result(r, read) = Pair(seen)
    BY <1>1, <1>7, <2>1 DEF Result
  <2>5. Result(r, read)' = Pair(seen)'
    BY <1>3, <1>7, <2>1 DEF Result
  <2>6. QED BY <2>3, <2>4, <2>5
<1>8. CASE r.method = "two" /\ read.of # Anyone
  <2>1. PICK seen : seen = OfTeam(rows, read.of)
    OBVIOUS
  <2>2. /\ OfTeam(rows, read.of)' = seen
        /\ \A k \in DOMAIN seen : seen[k].match \in Past(target)
    BY <1>5, <2>1, OfTeamKept
  <2>3. Pair(seen)' = Pair(seen)
    BY <2>2, PairKept
  <2>4. Result(r, read) = Pair(seen)
    BY <1>1, <1>8, <2>1 DEF Result
  <2>5. Result(r, read)' = Pair(seen)'
    BY <1>3, <1>8, <2>2 DEF Result
  <2>6. QED BY <2>3, <2>4, <2>5
<1>9. QED
  BY <1>6, <1>7, <1>8

\* What a request reads does not change with a step that keeps its past.
LEMMA InputsKept ==
  ASSUME Table, NEW target, KeepsPast(target), NEW r \in Requests
  PROVE  Inputs(On(target, r))' = Inputs(On(target, r))
<1>1. PICK a : a = On(target, r)
  OBVIOUS
<1>2. a.target = target /\ a.method = r.method /\ a.metric = r.metric
  BY <1>1, RequestsAssumption DEF On
<1>3. Reads(a)' = Reads(a)
  <2>1. /\ matches'[target].home = matches[target].home
        /\ matches'[target].away = matches[target].away
    BY DEF KeepsPast
  <2>2. a.method \in {"two", "three", "sample"}
    BY <1>2, RequestsAssumption
  <2>3. QED BY <1>2, <2>1, <2>2 DEF Reads
<1>4. \A read : Result(a, read)' = Result(a, read)
  <2>1. a.method # "two" => a.metric \in Measures
    BY <1>2, RequestsAssumption DEF Measures
  <2>2. QED BY <1>2, <2>1, ResultKept
<1>5. PICK reads : reads = Reads(a)
  OBVIOUS
<1>6. Reads(a)' = reads
  BY <1>3, <1>5
<1>7. Inputs(a) = [k \in DOMAIN reads |-> Result(a, reads[k])]
  BY <1>5 DEF Inputs
<1>8. Inputs(a)' = [k \in DOMAIN reads |-> Result(a, reads[k])']
  BY <1>6 DEF Inputs
<1>9. Inputs(a)' = Inputs(a)
  BY <1>4, <1>7, <1>8
<1>10. QED
  BY <1>1, <1>9

-----------------------------------------------------------------------------
(* The writers. *)

\* What a write does to the matches that are there.
KeepsPlaces ==
  /\ Ids \subseteq Ids'
  /\ \A i \in Ids : /\ matches'[i].day = matches[i].day
                    /\ matches'[i].competition = matches[i].competition
                    /\ matches'[i].label = matches[i].label
                    /\ matches'[i].home = matches[i].home
                    /\ matches'[i].away = matches[i].away

LEMMA RegisterKeeps ==
  ASSUME Table, NEW fixture \in Fixtures, Register(fixture)
  PROVE  Table' /\ KeepsPlaces
<1>1. fixture \in Matches
  BY FixturesAssumption
<1>2. matches' = Append(matches, fixture)
  BY DEF Register
<1>3. Table'
  BY <1>1, <1>2 DEF Table
<1>4. /\ Ids = 1 .. Len(matches) /\ Ids' = 1 .. Len(matches) + 1 /\ Len(matches) \in Nat
      /\ \A i \in Ids : matches'[i] = matches[i]
  BY <1>1, <1>2 DEF Table, Ids
<1>5. QED
  BY <1>3, <1>4 DEF KeepsPlaces

LEMMA CorrectKeeps ==
  ASSUME Table, NEW i \in Ids, NEW side \in {"home", "away"}, NEW value \in Corrections,
         NEW newest \in BOOLEAN, Correct(i, side, value, newest)
  PROVE  Table' /\ KeepsPlaces
<1> DEFINE old == matches[i]
           values == [old.value EXCEPT ![side] = IF value = NoValue THEN @ ELSE value]
           revised == [old.revised EXCEPT ![side] = IF newest THEN value ELSE @]
           valued == [old EXCEPT !.value = values]
           new == Corrected(old, side, value, newest)
<1>1. old \in Matches /\ Ids = 1 .. Len(matches)
  BY DEF Table, Ids
<1>2. matches' = [matches EXCEPT ![i] = new]
  BY DEF Correct
<1>3. value \in Int \cup {NoValue}
  BY FixturesAssumption
<1>4. values \in [{"home", "away"} -> Int \cup {NoValue}]
  <2>1. old.value \in [{"home", "away"} -> Int \cup {NoValue}]
    BY <1>1 DEF Matches
  <2>2. old.value[side] \in Int \cup {NoValue}
    BY <2>1
  <2>3. QED BY <1>3, <2>1, <2>2
<1>5. revised \in [{"home", "away"} -> Int \cup {NoValue, Unrevised}]
  <2>1. old.revised \in [{"home", "away"} -> Int \cup {NoValue, Unrevised}]
    BY <1>1 DEF Matches
  <2>2. old.revised[side] \in Int \cup {NoValue, Unrevised}
    BY <2>1
  <2>3. QED BY <1>3, <2>1, <2>2
<1>6. /\ new \in Matches
      /\ new.day = old.day /\ new.competition = old.competition
      /\ new.label = old.label /\ new.home = old.home /\ new.away = old.away
  <2>1. new = [valued EXCEPT !.revised = revised]
    BY <1>1 DEF Corrected, Matches
  <2> HIDE DEF values, revised, new
  <2>2. /\ valued \in Matches
        /\ valued.day = old.day /\ valued.competition = old.competition
        /\ valued.label = old.label /\ valued.home = old.home /\ valued.away = old.away
    BY <1>1, <1>4 DEF Matches
  <2> HIDE DEF valued
  <2>3. QED BY <1>5, <2>1, <2>2 DEF Matches
<1> HIDE DEF new
<1>7. Table'
  <2>1. new \in Matches /\ i \in 1 .. Len(matches) /\ matches \in Seq(Matches)
    BY <1>1, <1>6 DEF Table
  <2>2. [matches EXCEPT ![i] = new] \in Seq(Matches)
    BY <2>1
  <2>3. QED BY <1>2, <2>2 DEF Table
<1>8. /\ Ids' = Ids
      /\ \A j \in Ids : matches'[j] = IF j = i THEN new ELSE matches[j]
  BY <1>1, <1>2 DEF Ids, Table
<1>9. QED
  BY <1>6, <1>7, <1>8 DEF KeepsPlaces

LEMMA StepKeeps ==
  ASSUME Table, [Next]_vars
  PROVE  Table' /\ KeepsPlaces
<1>1. CASE matches' = matches
  BY <1>1 DEF Table, KeepsPlaces, Ids
<1>2. CASE \E fixture \in Fixtures : Register(fixture)
  BY <1>2, RegisterKeeps
<1>3. CASE \E i \in Ids, side \in {"home", "away"}, value \in Corrections,
             newest \in BOOLEAN : Correct(i, side, value, newest)
  BY <1>3, CorrectKeeps
<1>4. QED
  BY <1>1, <1>2, <1>3
     DEF Next, PriceMarkets, CalculateMethodOne, Return, SamplesNext, Ask, Refuse, Read,
         Answer, Reply, sampleVars, vars

LEMMA LaterWritesKeepThePast ==
  ASSUME Table, Table', KeepsPlaces, NEW target \in Ids,
         \A i \in DOMAIN matches' :
            \/ i \in Ids /\ matches'[i] = matches[i]
            \/ matches'[i].day > matches[target].day
            \/ matches'[i].day = matches[target].day /\ i >= target
  PROVE  KeepsPast(target)
<1>1. /\ \A i \in Ids : i \in Nat /\ matches[i].day \in Int
      /\ \A i \in Ids' : i \in Nat /\ matches'[i].day \in Int
  <2>1. \A row \in Matches : row.day \in Int
    BY DEF Matches
  <2>2. /\ \A i \in Ids : i \in Nat /\ matches[i] \in Matches
        /\ \A i \in Ids' : i \in Nat /\ matches'[i] \in Matches
    BY DEF Table, Ids
  <2>3. QED BY <2>1, <2>2
<1>2. Ids' = DOMAIN matches'
  BY DEF Ids
<1>3. \A i \in Past(target)' : i \in Ids /\ matches'[i] = matches[i]
  <2> SUFFICES ASSUME NEW i \in Ids', Before(i, target)'
               PROVE  i \in Ids /\ matches'[i] = matches[i]
    BY DEF Past
  <2>1. \/ matches'[i].day < matches[target].day
        \/ matches'[i].day = matches[target].day /\ i < target
    BY DEF Before, KeepsPlaces
  <2>2. /\ matches'[i].day \in Int /\ matches[target].day \in Int
        /\ i \in Nat /\ target \in Nat
    BY <1>1
  <2>3. QED
    BY <1>2, <2>1, <2>2
<1>4. \A i \in Ids : i \in Past(target)' <=> i \in Past(target)
  BY DEF KeepsPlaces, Past, Before
<1>5. Past(target)' = Past(target)
  <2>1. Past(target) \subseteq Ids
    BY DEF Past
  <2>2. QED BY <1>3, <1>4, <2>1
<1>6. QED
  BY <1>3, <1>5 DEF KeepsPast, KeepsPlaces

\* A season that has a match keeps it.
LEMMA CompatibleKept ==
  ASSUME KeepsPlaces, NEW target \in Ids, NEW r, r.target = target, Compatible(r)
  PROVE  Compatible(r)'
<1>1. /\ matches'[target].competition = matches[target].competition
      /\ matches'[target].home = matches[target].home
      /\ matches'[target].away = matches[target].away
  BY DEF KeepsPlaces
<1>2. r.method = "sample" => r.team \in {matches'[target].home, matches'[target].away}
  BY <1>1 DEF Compatible
<1>3. ASSUME r.previous # NoSeason
      PROVE  /\ r.previous.competition = matches'[target].competition
             /\ \E i \in Ids' : /\ matches'[i].competition = r.previous.competition
                                /\ matches'[i].label = r.previous.label
  <2>1. PICK i \in Ids : /\ matches[i].competition = r.previous.competition
                         /\ matches[i].label = r.previous.label
    BY <1>3 DEF Compatible
  <2>2. i \in Ids' /\ matches'[i].competition = matches[i].competition
        /\ matches'[i].label = matches[i].label
    BY DEF KeepsPlaces
  <2>3. QED BY <1>1, <1>3, <2>1, <2>2 DEF Compatible
<1>4. QED
  BY <1>2, <1>3 DEF Compatible

\* No calculation looks ahead.
LEMMA StepLooksBack ==
  ASSUME Table, [Next]_vars, NEW target \in Targets \cap Ids,
         \A i \in DOMAIN matches' :
            \/ i \in Ids /\ matches'[i] = matches[i]
            \/ matches'[i].day > matches[target].day
            \/ matches'[i].day = matches[target].day /\ i >= target
  PROVE  /\ \A side \in {"home", "away"} :
               MethodOneRows(target, side)' = MethodOneRows(target, side)
         /\ \A r \in Requests : Compatible(On(target, r)) =>
               /\ Compatible(On(target, r))'
               /\ Inputs(On(target, r))' = Inputs(On(target, r))
<1>1. Table' /\ KeepsPlaces
  BY StepKeeps
<1>2. KeepsPast(target)
  BY <1>1, LaterWritesKeepThePast
<1>3. \A side \in {"home", "away"} :
         MethodOneRows(target, side)' = MethodOneRows(target, side)
  BY <1>2, MethodOneRowsKept
<1>4. ASSUME NEW r \in Requests, Compatible(On(target, r))
      PROVE  /\ Compatible(On(target, r))'
             /\ Inputs(On(target, r))' = Inputs(On(target, r))
  <2>1. PICK a : a = On(target, r)
    OBVIOUS
  <2>2. a.target = target /\ Compatible(a)
    BY <1>4, <2>1, RequestsAssumption DEF On
  <2>3. Compatible(a)'
    BY <1>1, <2>2, CompatibleKept
  <2>4. QED
    BY <1>2, <2>1, <2>3, InputsKept
<1>5. QED
  BY <1>3, <1>4

-----------------------------------------------------------------------------
(* The selectors agree. *)

\* The samples of Method One are those of Method Two at the venue.
LEMMA OneIsTwo ==
  ASSUME Table, NEW target \in Ids, NEW side \in {"home", "away"}
  PROVE  MethodOneRows(target, side) =
           MethodTwoRows(target, matches[target][side], side, NoSeason)
<1> DEFINE team == matches[target][side]
<1>1. team # Anyone
  <2>1. matches[target] \in Matches
    BY DEF Table, Ids
  <2>2. team \in FieldOf("home") \cup FieldOf("away")
    BY <2>1 DEF Matches
  <2>3. QED BY <2>2, FixturesAssumption
<1>2. \A i : PlaysAt(i, team, side) <=> matches[i][side] = team
  BY <1>1 DEF PlaysAt
<1>3. {i \in Ids : /\ Before(i, target)
                   /\ matches[i].completed
                   /\ matches[i].competition = matches[target].competition
                   /\ matches[i].label = matches[target].label
                   /\ matches[i][side] = team}
      = {i \in Eligible(target, team, side, "target_competition", NoSeason) :
            matches[i].completed}
  BY <1>2 DEF Eligible, InSeason
<1>4. QED
  BY <1>3 DEF MethodOneRows, MethodTwoRows

\* Of the newest matches of a set, the completed ones are the newest of its completed.
LEMMA CompletedAreNewest ==
  ASSUME Table, NEW S \in SUBSET Ids, NEW C, C = {i \in S : matches[i].completed},
         NEW k \in DOMAIN Latest(S), matches[Latest(S)[k]].completed
  PROVE  /\ Cardinality(CompletedUpTo(Latest(S), k)) \in DOMAIN Latest(C)
         /\ Latest(C)[Cardinality(CompletedUpTo(Latest(S), k))] = Latest(S)[k]
<1> DEFINE L == Latest(S)
           x == L[k]
           U == CompletedUpTo(L, k)
           V == U \ {k}
           f == [j \in V |-> L[j]]
<1>1. /\ k \in Nat /\ k >= 1 /\ k <= SampleSize /\ k <= Cardinality(S)
      /\ x \in S /\ Ahead(S, x) = k - 1
      /\ SampleSize \in Nat /\ Cardinality(S) \in Nat
  <2>1. k \in Nat
    <3>1. \E n \in Nat : DOMAIN L = 1 .. n
      BY LatestRows
    <3>2. QED BY <3>1
  <2>2. k >= 1 /\ k <= SampleSize /\ k <= Cardinality(S)
    BY <2>1, LatestRows
  <2>3. x \in S /\ Ahead(S, x) = k - 1
    BY LatestRows
  <2>4. QED BY <2>1, <2>2, <2>3, TableIsFinite, FixturesAssumption
<1>2. \A j \in 1 .. k : j \in DOMAIN L /\ L[j] \in S /\ Ahead(S, L[j]) = j - 1
  <2>1. \A j \in 1 .. k : j \in Nat /\ j >= 1 /\ j <= SampleSize /\ j <= Cardinality(S)
    BY <1>1
  <2>2. \A j \in 1 .. k : j \in DOMAIN L
    BY <2>1, LatestRows
  <2>3. QED BY <2>2, LatestRows
<1>3. C \in SUBSET Ids /\ x \in C
  BY <1>1
<1>4. IsFiniteSet(1 .. k) /\ Cardinality(1 .. k) = k
  <2>1. 1 \in Int /\ k \in Int /\ ~ (1 > k) /\ k - 1 + 1 = k
    BY <1>1
  <2>2. QED BY <2>1, FS_Interval
<1>5. /\ IsFiniteSet(U) /\ Cardinality(U) \in Nat /\ Cardinality(U) <= k
      /\ k \in U /\ U \subseteq 1 .. k
  <2>1. U \in SUBSET (1 .. k) /\ k \in U
    BY <1>1 DEF CompletedUpTo
  <2>2. IsFiniteSet(U) /\ Cardinality(U) <= k
    BY <1>4, <2>1, FS_Subset
  <2>3. QED BY <2>1, <2>2, FS_CardinalityType
<1>6. IsFiniteSet(V) /\ Cardinality(V) = Cardinality(U) - 1
  BY <1>5, FS_RemoveElement
<1>7. \A j \in V : j \in 1 .. k - 1 /\ matches[L[j]].completed
  <2>1. \A j \in V : j \in 1 .. k /\ j # k
    BY <1>5
  <2>2. \A j \in 1 .. k : j # k => j \in 1 .. k - 1
    BY <1>1
  <2>3. QED BY <2>1, <2>2 DEF CompletedUpTo
<1>8. f \in Bijection(V, Newer(C, x))
  <2>1. \A j \in V : L[j] \in Newer(C, x)
    <3> SUFFICES ASSUME NEW j \in V PROVE L[j] \in C /\ Recent(L[j], x)
      BY DEF Newer
    <3>1. j \in 1 .. k /\ j - 1 < k - 1 /\ matches[L[j]].completed
      BY <1>1, <1>7
    <3>2. L[j] \in S /\ Ahead(S, L[j]) < Ahead(S, x)
      BY <1>1, <1>2, <3>1
    <3>3. Recent(L[j], x)
      BY <1>1, <3>2, AheadNumbers
    <3>4. QED BY <3>1, <3>2, <3>3
  <2>2. \A i, j \in V : L[i] = L[j] => i = j
    <3> SUFFICES ASSUME NEW i \in V, NEW j \in V, L[i] = L[j] PROVE i = j
      OBVIOUS
    <3>1. i \in 1 .. k /\ j \in 1 .. k /\ i \in Nat /\ j \in Nat
      BY <1>5
    <3>2. i - 1 = j - 1
      BY <1>2, <3>1
    <3>3. QED BY <3>1, <3>2
  <2>3. \A y \in Newer(C, x) : \E j \in V : L[j] = y
    <3> SUFFICES ASSUME NEW y \in Newer(C, x) PROVE \E j \in V : L[j] = y
      OBVIOUS
    <3>1. y \in S /\ matches[y].completed /\ Recent(y, x)
      BY DEF Newer
    <3>2. Ahead(S, y) < Ahead(S, x) /\ Ahead(S, y) \in 0 .. Cardinality(S) - 1
      BY <1>1, <3>1, AheadNumbers
    <3> DEFINE j == Ahead(S, y) + 1
    <3>3. j \in 1 .. k /\ j # k /\ Ahead(S, y) < SampleSize
      BY <1>1, <3>2
    <3>4. L[j] = y
      BY <3>1, <3>3, LatestRows
    <3>5. j \in V
      BY <3>1, <3>3, <3>4 DEF CompletedUpTo
    <3>6. QED BY <3>4, <3>5
  <2> HIDE DEF V, L, x
  <2>4. f \in [V -> Newer(C, x)] /\ \A j \in V : f[j] = L[j]
    BY <2>1
  <2>5. f \in Injection(V, Newer(C, x))
    BY <2>2, <2>4 DEF Injection, IsInjective
  <2>6. f \in Surjection(V, Newer(C, x))
    BY <2>3, <2>4 DEF Surjection
  <2>7. QED BY <2>5, <2>6 DEF Bijection
<1>9. Ahead(C, x) = Cardinality(V)
  <2>1. ExistsBijection(V, Newer(C, x))
    BY <1>8 DEF ExistsBijection
  <2>2. QED BY <1>6, <2>1, FS_Bijection DEF Ahead
<1>10. Ahead(C, x) + 1 = Cardinality(U) /\ Ahead(C, x) < SampleSize
  <2> HIDE DEF U, V, x
  <2> QED BY <1>1, <1>5, <1>6, <1>9
<1>11. Ahead(C, x) + 1 \in DOMAIN Latest(C) /\ Latest(C)[Ahead(C, x) + 1] = x
  <2> HIDE DEF x
  <2> QED BY <1>3, <1>10, LatestRows
<1>12. QED
  BY <1>10, <1>11

\* A win is a goal more scored than conceded, and unknown with either of them.
LEMMA WinIsAGoalMore ==
  ASSUME NEW rows, NEW team, NEW k \in DOMAIN rows
  PROVE  LET metric(m) == Sample(OfTeam(rows, team), m)
             scored   == metric("goals_scored")[k].value
             conceded == metric("goals_conceded")[k].value
             won      == metric("result_win")[k].value
         IN  IF NoValue \in {scored, conceded} THEN won = NoValue
             ELSE won = 1 <=> scored > conceded
<1> DEFINE o == OfTeam(rows, team)[k]
           own == Value(o.match, o.side)
           others == Value(o.match, Opposite(o.side))
<1>1. \A m : Sample(OfTeam(rows, team), m)[k].value = Observed(o, m)
  BY DEF Sample, OfTeam
<1>2. /\ Observed(o, "goals_scored") = own
      /\ Observed(o, "goals_conceded") = others
      /\ Observed(o, "result_win") = IF NoValue \in {own, others} THEN NoValue
                                     ELSE IF own > others THEN 1 ELSE 0
  BY DEF Observed
<1>3. QED
  <2> HIDE DEF own, others, o
  <2> QED BY <1>1, <1>2

\* What the home sides score is what the away sides concede.
LEMMA HomesAreAways ==
  ASSUME NEW target
  PROVE  Sample(OfCompetition(MethodTwoRows(target, Anyone, "home", NoSeason), "home"),
                "production") =
         Sample(OfCompetition(MethodTwoRows(target, Anyone, "away", NoSeason), "away"),
                "complement")
<1>1. \A i, venue : PlaysAt(i, Anyone, venue)
  BY DEF PlaysAt
<1>2. Eligible(target, Anyone, "home", "target_competition", NoSeason) =
        Eligible(target, Anyone, "away", "target_competition", NoSeason)
  BY <1>1 DEF Eligible
<1>3. PICK rows : rows = MethodTwoRows(target, Anyone, "home", NoSeason)
  OBVIOUS
<1>4. rows = MethodTwoRows(target, Anyone, "away", NoSeason)
  BY <1>2, <1>3 DEF MethodTwoRows
<1> DEFINE homes == OfCompetition(rows, "home")
           aways == OfCompetition(rows, "away")
<1>5. /\ homes = [k \in DOMAIN rows |-> [match |-> rows[k], side |-> "home"]]
      /\ aways = [k \in DOMAIN rows |-> [match |-> rows[k], side |-> "away"]]
  BY DEF OfCompetition
<1>6. \A k \in DOMAIN rows :
         /\ Observed(homes[k], "production") = Value(rows[k], "home")
         /\ Observed(aways[k], "complement") = Value(rows[k], "home")
  BY <1>5 DEF Observed, Opposite
<1>7. /\ DOMAIN homes = DOMAIN rows /\ DOMAIN aways = DOMAIN rows
      /\ \A k \in DOMAIN rows : homes[k].match = rows[k] /\ aways[k].match = rows[k]
  BY <1>5
<1>8. Sample(homes, "production") = Sample(aways, "complement")
  <2> HIDE DEF homes, aways
  <2> QED BY <1>6, <1>7 DEF Sample
<1>9. QED
  BY <1>3, <1>4, <1>8

LEMMA TableMethodsAgree ==
  ASSUME Table
  PROVE  MethodsAgree
<1> SUFFICES ASSUME NEW target \in Ids, NEW side \in {"home", "away"}
    PROVE LET team  == matches[target][side]
              one   == MethodOneRows(target, side)
              two   == MethodTwoRows(target, team, side, NoSeason)
              three == CandidateRows(target, team, side, "target_competition",
                                     NoSeason)
              homes == OfCompetition(MethodTwoRows(target, Anyone, "home", NoSeason),
                                     "home")
              aways == OfCompetition(MethodTwoRows(target, Anyone, "away", NoSeason),
                                     "away")
              metric(m) == Sample(OfTeam(three, team), m)
          IN  /\ one = two
              /\ \A k \in DOMAIN three :
                    LET place == Cardinality(CompletedUpTo(three, k))
                    IN  matches[three[k]].completed =>
                            place \in DOMAIN two /\ two[place] = three[k]
              /\ \A k \in DOMAIN three :
                    LET scored   == metric("goals_scored")[k].value
                        conceded == metric("goals_conceded")[k].value
                        won      == metric("result_win")[k].value
                    IN  IF NoValue \in {scored, conceded} THEN won = NoValue
                        ELSE won = 1 <=> scored > conceded
              /\ MeanOf(Sample(homes, "production")) =
                    MeanOf(Sample(aways, "complement"))
  BY DEF MethodsAgree
<1> DEFINE team == matches[target][side]
           one   == MethodOneRows(target, side)
           two   == MethodTwoRows(target, team, side, NoSeason)
           S     == Eligible(target, team, side, "target_competition", NoSeason)
           three == CandidateRows(target, team, side, "target_competition", NoSeason)
<1>1. one = two
  BY OneIsTwo
<1>2. \A k \in DOMAIN three :
         LET place == Cardinality(CompletedUpTo(three, k))
         IN  matches[three[k]].completed => place \in DOMAIN two /\ two[place] = three[k]
  <2>1. PICK C : C = {i \in S : matches[i].completed}
    OBVIOUS
  <2>2. S \in SUBSET Ids
    BY DEF Eligible
  <2>3. three = Latest(S) /\ two = Latest(C)
    BY <2>1 DEF CandidateRows, MethodTwoRows
  <2> HIDE DEF S, three, two
  <2>4. QED BY <2>1, <2>2, <2>3, CompletedAreNewest
<1>3. \A k \in DOMAIN three :
         LET metric(m) == Sample(OfTeam(three, team), m)
             scored   == metric("goals_scored")[k].value
             conceded == metric("goals_conceded")[k].value
             won      == metric("result_win")[k].value
         IN  IF NoValue \in {scored, conceded} THEN won = NoValue
             ELSE won = 1 <=> scored > conceded
  BY WinIsAGoalMore
<1>4. QED
  BY <1>1, <1>2, <1>3, HomesAreAways

-----------------------------------------------------------------------------
(* The reads of Method Two. *)

\* A request in progress has its fields, and what it read is a sequence.
Asked ==
  ~ Idling =>
    /\ {"method", "pc", "evidence", "answer"} \subseteq DOMAIN request
    /\ \E Evidence : request.evidence \in Seq(Evidence)

\* A component and its complement are made from the same observations.
LEMMA PairIsOneSelection ==
  ASSUME NEW seen
  PROVE  MatchesOf(Pair(seen).production) = MatchesOf(Pair(seen).complement)
BY DEF Pair, MatchesOf, Sample

LEMMA MethodTwoReadsPairs ==
  ASSUME NEW r, r.method = "two", NEW read
  PROVE  MatchesOf(Result(r, read).production) = MatchesOf(Result(r, read).complement)
<1>1. \E seen : Result(r, read) = Pair(seen)
  BY DEF Result
<1>2. QED
  BY <1>1, PairIsOneSelection

LEMMA ReadsSharesSelections ==
  ASSUME Asked, PairsShareOneSelection, Read
  PROVE  Asked' /\ PairsShareOneSelection'
<1> DEFINE new == Result(request, Reads(request)[Len(request.evidence) + 1])
<1>1. PICK result : result = new
  OBVIOUS
<1>2. PICK Evidence : request.evidence \in Seq(Evidence)
  BY DEF Asked, Read
<1>3. PICK old : old = request.evidence
  OBVIOUS
<1>4. request' = [request EXCEPT !.evidence = Append(old, result)]
  BY <1>1, <1>3 DEF Read
<1>5. /\ {"method", "pc", "evidence", "answer"} \subseteq DOMAIN request'
      /\ request'.method = request.method
      /\ request'.evidence = Append(old, result)
  BY <1>4 DEF Asked, Read
<1>6. old \in Seq(Evidence \cup {result}) /\ result \in Evidence \cup {result}
  BY <1>2, <1>3
<1>7. Append(old, result) \in Seq(Evidence \cup {result})
  BY <1>6
<1>8. Asked'
  BY <1>5, <1>7 DEF Asked
<1>9. ASSUME request'.method = "two", NEW k \in DOMAIN request'.evidence
      PROVE  MatchesOf(request'.evidence[k].production) =
               MatchesOf(request'.evidence[k].complement)
  <2>1. DOMAIN old = 1 .. Len(old) /\ Len(old) \in Nat
        /\ DOMAIN request'.evidence = 1 .. Len(old) + 1
    BY <1>5, <1>6
  <2>2. CASE k \in DOMAIN old
    <3>1. request'.evidence[k] = request.evidence[k] /\ k \in DOMAIN request.evidence
      BY <1>3, <1>5, <1>6, <2>2
    <3>2. ~ Idling /\ request.method = "two"
      BY <1>5, <1>9 DEF Read
    <3>3. MatchesOf(request.evidence[k].production) =
             MatchesOf(request.evidence[k].complement)
      BY <3>1, <3>2 DEF PairsShareOneSelection
    <3>4. QED BY <3>1, <3>3
  <2>3. CASE k = Len(old) + 1
    <3>1. request'.evidence[k] = result
      BY <1>5, <1>6, <2>3
    <3>2. MatchesOf(result.production) = MatchesOf(result.complement)
      BY <1>1, <1>5, <1>9, MethodTwoReadsPairs
    <3>3. QED BY <3>1, <3>2
  <2>4. QED BY <2>1, <2>2, <2>3
<1>10. PairsShareOneSelection'
  BY <1>9 DEF PairsShareOneSelection, MatchesOf
<1>11. QED
  BY <1>8, <1>10

LEMMA StepSharesSelections ==
  ASSUME Asked, PairsShareOneSelection, [Next]_vars
  PROVE  Asked' /\ PairsShareOneSelection'
<1>1. CASE request' = request
  <2>1. Idling' <=> Idling
    BY <1>1 DEF Idling
  <2>2. Asked'
    BY <1>1, <2>1 DEF Asked
  <2>3. PairsShareOneSelection'
    BY <1>1, <2>1 DEF PairsShareOneSelection, MatchesOf
  <2>4. QED BY <2>2, <2>3
<1>2. ASSUME NEW r \in Requests, NEW target \in Targets, Ask(r, target)
      PROVE  Asked' /\ PairsShareOneSelection'
  <2> DEFINE pc == IF target \in Ids THEN "reading" ELSE "done"
             answer == IF target \in Ids THEN r.answer ELSE "not_found"
  <2>1. request' = [r EXCEPT !.target = target, !.pc = pc, !.answer = answer]
    BY <1>2 DEF Ask
  <2>2. /\ {"method", "pc", "evidence", "answer"} \subseteq DOMAIN request'
        /\ request'.evidence = <<>>
    <3> HIDE DEF pc, answer
    <3> QED BY <2>1, RequestsAssumption
  <2>3. <<>> \in Seq({}) /\ \A k : k \notin DOMAIN <<>>
    OBVIOUS
  <2>4. Asked'
    BY <2>2, <2>3 DEF Asked
  <2>5. PairsShareOneSelection'
    BY <2>2, <2>3 DEF PairsShareOneSelection
  <2>6. QED BY <2>4, <2>5
<1>3. CASE Refuse \/ Answer
  <2>1. PICK answer : request' = [request EXCEPT !.pc = "done", !.answer = answer]
    BY <1>3 DEF Refuse, Answer
  <2>2. ~ Idling
    BY <1>3 DEF Refuse, Answer
  <2>3. /\ DOMAIN request' = DOMAIN request
        /\ request'.evidence = request.evidence /\ request'.method = request.method
    BY <2>1, <2>2 DEF Asked
  <2>4. Asked'
    BY <2>2, <2>3 DEF Asked
  <2>5. PairsShareOneSelection'
    BY <2>2, <2>3 DEF PairsShareOneSelection, MatchesOf
  <2>6. QED BY <2>4, <2>5
<1>4. CASE Read
  BY <1>4, ReadsSharesSelections
<1>5. CASE Reply
  BY <1>5 DEF Reply, Idling, Asked, PairsShareOneSelection
<1>6. QED
  BY <1>1, <1>2, <1>3, <1>4, <1>5
     DEF Next, PriceMarkets, CalculateMethodOne, Return, SamplesNext, Register, Correct,
         sampleVars, vars

SamplesIInv == Table /\ Asked /\ PairsShareOneSelection

LEMMA SamplesInductive == Spec => []SamplesIInv
<1>1. Init => SamplesIInv
  <2>1. <<>> \in Seq(Matches)
    OBVIOUS
  <2>2. QED
    BY <2>1 DEF Init, SamplesInit, SamplesIInv, Table, Asked, PairsShareOneSelection, Idling
<1>2. SamplesIInv /\ [Next]_vars => SamplesIInv'
  BY StepKeeps, StepSharesSelections DEF SamplesIInv
<1>3. QED
  BY <1>1, <1>2, PTL DEF Spec

\* _method_two_candidates and get_competition_reference_pair are called one after the
\* other while the table is written: both components of a team, or of a reference, have
\* their matches from one query, for every table and every request.
THEOREM SelectionsAreShared == Spec => []PairsShareOneSelection
<1>1. SamplesIInv => PairsShareOneSelection
  BY DEF SamplesIInv
<1>2. QED BY <1>1, SamplesInductive, PTL

\* The selectors of Methods One, Two and Three (get_samples, _method_two_rows and
\* list_candidates) agree on every table of matches, for every sample size: three
\* queries that are written separately see the same past of a team.
THEOREM SelectorsAgree == Spec => []MethodsAgree
<1>1. SamplesIInv => MethodsAgree
  BY TableMethodsAgree DEF SamplesIInv
<1>2. QED BY <1>1, SamplesInductive, PTL

\* No calculation looks ahead, for every table of matches and every sample size: what
\* is registered or corrected on or after a match changes nothing that get_samples and
\* the reads of Methods Two and Three select and compute for it.
THEOREM CalculationsLookBack == Spec => SamplesLookBack
<1>1. SamplesIInv /\ [Next]_vars =>
        [Idling /\ matches' # matches => \A target \in Targets \cap Ids :
          (\A i \in DOMAIN matches' :
              \/ i \in Ids /\ matches'[i] = matches[i]
              \/ matches'[i].day > matches[target].day
              \/ matches'[i].day = matches[target].day /\ i >= target)
          => /\ \A side \in {"home", "away"} :
                   MethodOneRows(target, side)' = MethodOneRows(target, side)
             /\ \A r \in Requests : Compatible(On(target, r)) =>
                   /\ Compatible(On(target, r))'
                   /\ Inputs(On(target, r))' = Inputs(On(target, r))]_vars
  BY StepLooksBack DEF SamplesIInv
<1>2. QED BY <1>1, SamplesInductive, PTL DEF Spec, SamplesLookBack

-----------------------------------------------------------------------------
(* Induction, with sets for predicates, and what a fold computes. *)

LEMMA LeastNumber ==
  ASSUME NEW S \in SUBSET Nat, S # {}
  PROVE  \E n \in S : \A k \in S : n <= k
<1> DEFINE starts == {0 .. n : n \in S}
<1>1. starts \subseteq FiniteSubsetsOf(Nat) /\ starts # {}
  <2>1. ASSUME NEW n \in S PROVE 0 .. n \in SUBSET Nat /\ IsFiniteSet(0 .. n)
    BY FS_Interval
  <2>2. QED BY <2>1 DEF FiniteSubsetsOf
<1>2. IsWellFoundedOn(StrictSubsetOrdering(Nat), FiniteSubsetsOf(Nat))
  BY FS_StrictSubsetOrderingWellFounded
<1>3. PICK least \in starts :
         \A start \in starts : ~ (<<start, least>> \in StrictSubsetOrdering(Nat))
  <2> HIDE DEF starts
  <2> QED BY <1>1, <1>2, WFMin
<1>4. PICK n \in S : least = 0 .. n
  OBVIOUS
<1>5. ASSUME NEW k \in S, k < n PROVE FALSE
  <2>1. /\ 0 .. k \in SUBSET Nat /\ 0 .. n \in SUBSET Nat
        /\ 0 .. k \subseteq 0 .. n /\ 0 .. k # 0 .. n
    <3>1. n \in 0 .. n /\ n \notin 0 .. k
      BY <1>5
    <3>2. QED BY <1>5, <3>1
  <2>2. <<0 .. k, 0 .. n>> \in StrictSubsetOrdering(Nat)
    BY <2>1 DEF StrictSubsetOrdering
  <2>3. QED BY <1>3, <1>4, <2>2
<1>6. QED
  BY <1>5

\* A set of numbers with zero and with the next of each has them all.
LEMMA NumbersFollow ==
  ASSUME NEW S, 0 \in S, \A n \in Nat : n \in S => n + 1 \in S
  PROVE  Nat \subseteq S
<1> DEFINE rest == Nat \ S
<1>1. SUFFICES ASSUME rest # {} PROVE FALSE
  OBVIOUS
<1>2. PICK n \in rest : \A k \in rest : n <= k
  BY <1>1, LeastNumber
<1>3. n - 1 \in Nat /\ ~ (n <= n - 1)
  BY <1>2
<1>4. n - 1 \in S
  BY <1>2, <1>3
<1>5. QED
  BY <1>2, <1>3, <1>4

\* A set of finite sets with the empty one, in which a set is with its elements but one.
LEMMA FiniteSetsFollow ==
  ASSUME NEW T, IsFiniteSet(T), NEW S, {} \in S,
         \A U \in SUBSET T : U # {} /\ (\A x \in U : U \ {x} \in S) => U \in S
  PROVE  T \in S
<1> DEFINE sizes == {n \in Nat : \A U \in SUBSET T : Cardinality(U) = n => U \in S}
<1>1. \A U \in SUBSET T : IsFiniteSet(U) /\ Cardinality(U) \in Nat
  BY FS_Subset, FS_CardinalityType
<1>2. 0 \in sizes
  BY <1>1, FS_EmptySet
<1>3. ASSUME NEW n \in Nat, n \in sizes PROVE n + 1 \in sizes
  <2>1. SUFFICES ASSUME NEW U \in SUBSET T, Cardinality(U) = n + 1 PROVE U \in S
    OBVIOUS
  <2>2. U # {}
    BY <1>1, <1>3, <2>1, FS_EmptySet
  <2>3. ASSUME NEW x \in U PROVE U \ {x} \in S
    <3>1. Cardinality(U \ {x}) = n
      BY <1>1, <1>3, <2>1, FS_RemoveElement
    <3>2. QED BY <1>3, <3>1
  <2>4. QED BY <2>2, <2>3
<1>4. Nat \subseteq sizes
  <2> HIDE DEF sizes
  <2> QED BY <1>2, <1>3, NumbersFollow
<1>5. QED
  BY <1>1, <1>4

Folded(T, V, base, pick, next) ==
  \E iter \in [SUBSET T -> V] :
     iter = [U \in SUBSET T |->
               IF U = {} THEN base
               ELSE next[<<pick[U], iter[U \ {pick[U]}]>>]]

\* A fold over a finite set is defined: next takes the element that pick takes from a
\* set, and what the fold makes of the others.
LEMMA FoldExists ==
  ASSUME NEW T, IsFiniteSet(T), NEW V, NEW base \in V,
         NEW pick, \A U \in SUBSET T : U # {} => pick[U] \in U,
         NEW next \in [T \X V -> V]
  PROVE  Folded(T, V, base, pick, next)
<1> DEFINE Upto(n, iter) ==
             \A U \in SUBSET T : Cardinality(U) <= n =>
                iter[U] = IF U = {} THEN base
                          ELSE next[<<pick[U], iter[U \ {pick[U]}]>>]
           good == {n \in Nat : \E iter \in [SUBSET T -> V] : Upto(n, iter)}
<1>1. \A U \in SUBSET T : IsFiniteSet(U) /\ Cardinality(U) \in Nat
                          /\ Cardinality(U) <= Cardinality(T)
  BY FS_Subset, FS_CardinalityType
<1>2. 0 \in good
  <2>1. [U \in SUBSET T |-> base] \in [SUBSET T -> V]
    OBVIOUS
  <2>2. Upto(0, [U \in SUBSET T |-> base])
    BY <1>1, FS_EmptySet
  <2>3. QED BY <2>1, <2>2
<1>3. ASSUME NEW n \in Nat, n \in good PROVE n + 1 \in good
  <2>1. PICK iter \in [SUBSET T -> V] : Upto(n, iter)
    BY <1>3
  <2> DEFINE more == [U \in SUBSET T |->
                        IF U = {} THEN base
                        ELSE next[<<pick[U], iter[U \ {pick[U]}]>>]]
  <2>2. more \in [SUBSET T -> V]
    <3>1. ASSUME NEW U \in SUBSET T, U # {}
          PROVE  next[<<pick[U], iter[U \ {pick[U]}]>>] \in V
      <4>1. pick[U] \in T /\ iter[U \ {pick[U]}] \in V
        BY <3>1
      <4>2. QED BY <4>1
    <3>2. QED BY <3>1
  <2>3. ASSUME NEW U \in SUBSET T, Cardinality(U) <= n PROVE more[U] = iter[U]
    BY <2>1, <2>3
  <2>4. Upto(n + 1, more)
    <3>1. SUFFICES ASSUME NEW U \in SUBSET T, Cardinality(U) <= n + 1, U # {}
                   PROVE  more[U] = next[<<pick[U], more[U \ {pick[U]}]>>]
      BY DEF Upto
    <3>2. /\ pick[U] \in U /\ U \ {pick[U]} \in SUBSET T
          /\ Cardinality(U \ {pick[U]}) <= n
      <4>1. Cardinality(U \ {pick[U]}) = Cardinality(U) - 1
        BY <1>1, <3>1, FS_RemoveElement
      <4>2. QED BY <1>1, <1>3, <3>1, <4>1
    <3>3. more[U \ {pick[U]}] = iter[U \ {pick[U]}]
      BY <2>3, <3>2
    <3>4. QED BY <3>1, <3>3
  <2>5. \E other \in [SUBSET T -> V] : Upto(n + 1, other)
    <3> HIDE DEF more, Upto
    <3> QED BY <2>2, <2>4
  <2>6. n + 1 \in Nat
    BY <1>3
  <2>7. QED
    <3> HIDE DEF Upto
    <3> QED BY <2>5, <2>6
<1>4. Cardinality(T) \in good
  <2> HIDE DEF good
  <2> QED BY <1>1, <1>2, <1>3, NumbersFollow
<1>5. PICK iter \in [SUBSET T -> V] : Upto(Cardinality(T), iter)
  BY <1>4
<1>6. iter = [U \in SUBSET T |->
                IF U = {} THEN base
                ELSE next[<<pick[U], iter[U \ {pick[U]}]>>]]
  BY <1>1, <1>5
<1>7. QED
  BY <1>6 DEF Folded

-----------------------------------------------------------------------------
(* Sums over finite sets. *)

Total(g, S) == Sum(LAMBDA x : g[x], S)

Numbers(g, S) == IsFiniteSet(S) /\ \A x \in S : g[x] \in Nat

AnyOf(S) == CHOOSE x \in S : TRUE

\* What a sum unfolds to.
Summing(g, S, iter) ==
  iter = [U \in SUBSET S |->
            IF U = {} THEN 0 ELSE g[AnyOf(U)] + iter[U \ {AnyOf(U)}]]

LEMMA SumIsSumming ==
  ASSUME NEW g, NEW S, Numbers(g, S)
  PROVE  \E iter \in [SUBSET S -> Nat] :
            Summing(g, S, iter) /\ Total(g, S) = iter[S]
<1> DEFINE pick == [U \in SUBSET S |-> AnyOf(U)]
           next == [p \in S \X Nat |-> g[p[1]] + p[2]]
<1>1. \A U \in SUBSET S : U # {} => pick[U] \in U
  BY DEF AnyOf
<1>2. next \in [S \X Nat -> Nat]
  BY DEF Numbers
<1>3. PICK iter \in [SUBSET S -> Nat] :
         iter = [U \in SUBSET S |->
                   IF U = {} THEN 0 ELSE next[<<pick[U], iter[U \ {pick[U]}]>>]]
  <2>1. 0 \in Nat /\ IsFiniteSet(S)
    BY DEF Numbers
  <2>2. Folded(S, Nat, 0, pick, next)
    <3> HIDE DEF pick, next
    <3> QED BY <1>1, <1>2, <2>1, FoldExists
  <2>3. QED BY <2>2 DEF Folded
<1>4. \A U \in SUBSET S : U # {} =>
         next[<<pick[U], iter[U \ {pick[U]}]>>] = g[AnyOf(U)] + iter[U \ {AnyOf(U)}]
  <2>1. SUFFICES ASSUME NEW U \in SUBSET S, U # {}
                 PROVE  next[<<pick[U], iter[U \ {pick[U]}]>>] =
                          g[AnyOf(U)] + iter[U \ {AnyOf(U)}]
    OBVIOUS
  <2>2. pick[U] = AnyOf(U) /\ AnyOf(U) \in S /\ iter[U \ {AnyOf(U)}] \in Nat
    BY <1>1, <2>1
  <2>3. QED BY <2>2
<1>5. Summing(g, S, iter)
  BY <1>3, <1>4 DEF Summing
<1>6. PICK sum : sum = CHOOSE f : Summing(g, S, f)
  OBVIOUS
<1>7. Summing(g, S, sum)
  BY <1>5, <1>6
<1>8. Total(g, S) = sum[S]
  <2>1. Total(g, S) =
          (CHOOSE f : f = [U \in SUBSET S |->
                             IF U = {} THEN 0
                             ELSE g[CHOOSE x \in U : TRUE]
                                    + f[U \ {CHOOSE x \in U : TRUE}]])[S]
    BY DEF Total, Sum, MapThenSumSet, MapThenFoldSet
  <2>2. Total(g, S) = (CHOOSE f : Summing(g, S, f))[S]
    BY <2>1 DEF Summing, AnyOf
  <2>3. QED BY <1>6, <2>2
<1>9. \A U \in SUBSET S : sum[U] = iter[U]
  <2> DEFINE same == {U \in SUBSET S : sum[U] = iter[U]}
  <2>1. {} \in same
    BY <1>5, <1>7 DEF Summing
  <2>2. ASSUME NEW U \in SUBSET S, U # {}, \A x \in U : U \ {x} \in same
        PROVE  U \in same
    <3>1. AnyOf(U) \in U
      BY <2>2 DEF AnyOf
    <3>2. sum[U] = g[AnyOf(U)] + sum[U \ {AnyOf(U)}]
      BY <1>7, <2>2 DEF Summing
    <3>3. iter[U] = g[AnyOf(U)] + iter[U \ {AnyOf(U)}]
      BY <1>5, <2>2 DEF Summing
    <3>4. QED BY <2>2, <3>1, <3>2, <3>3
  <2>3. ASSUME NEW W \in SUBSET S PROVE W \in same
    <3>1. IsFiniteSet(W)
      BY FS_Subset DEF Numbers
    <3>2. \A U \in SUBSET W : U # {} /\ (\A x \in U : U \ {x} \in same) => U \in same
      BY <2>2
    <3>3. QED
      <4> HIDE DEF same
      <4> QED BY <2>1, <3>1, <3>2, FiniteSetsFollow
  <2>4. QED BY <2>3
<1>10. QED
  BY <1>5, <1>8, <1>9

LEMMA TotalEmpty == \A g : Total(g, {}) = 0
<1>1. SUFFICES ASSUME NEW g PROVE Total(g, {}) = 0
  OBVIOUS
<1>2. Numbers(g, {})
  BY FS_EmptySet DEF Numbers
<1>3. PICK iter \in [SUBSET {} -> Nat] : Summing(g, {}, iter) /\ Total(g, {}) = iter[{}]
  BY <1>2, SumIsSumming
<1>4. QED BY <1>3 DEF Summing

\* A sum is that of all elements but one, and that one.
LEMMA TotalUnfolds ==
  ASSUME NEW g, NEW S, Numbers(g, S)
  PROVE  /\ Total(g, S) \in Nat
         /\ S # {} => /\ AnyOf(S) \in S
                      /\ Total(g, S) = g[AnyOf(S)] + Total(g, S \ {AnyOf(S)})
<1>1. PICK iter \in [SUBSET S -> Nat] : Summing(g, S, iter) /\ Total(g, S) = iter[S]
  BY SumIsSumming
<1>2. Total(g, S) \in Nat
  BY <1>1
<1>3. ASSUME S # {}
      PROVE  AnyOf(S) \in S /\ Total(g, S) = g[AnyOf(S)] + Total(g, S \ {AnyOf(S)})
  <2>1. AnyOf(S) \in S
    BY <1>3 DEF AnyOf
  <2>2. PICK rest : rest = S \ {AnyOf(S)}
    OBVIOUS
  <2>3. Numbers(g, rest) /\ rest \in SUBSET S
    BY <2>2, FS_Subset DEF Numbers
  <2>4. PICK other \in [SUBSET rest -> Nat] :
           Summing(g, rest, other) /\ Total(g, rest) = other[rest]
    BY <2>3, SumIsSumming
  <2> DEFINE same == {U \in SUBSET rest : other[U] = iter[U]}
  <2>5. {} \in same
    BY <1>1, <2>4 DEF Summing
  <2>6. ASSUME NEW U \in SUBSET rest, U # {} /\ \A x \in U : U \ {x} \in same
        PROVE  U \in same
    <3>1. AnyOf(U) \in U
      BY <2>6 DEF AnyOf
    <3>2. other[U] = g[AnyOf(U)] + other[U \ {AnyOf(U)}]
      BY <2>4, <2>6 DEF Summing
    <3>3. iter[U] = g[AnyOf(U)] + iter[U \ {AnyOf(U)}]
      BY <1>1, <2>3, <2>6 DEF Summing
    <3>4. QED BY <2>6, <3>1, <3>2, <3>3
  <2>7. rest \in same
    <3> HIDE DEF same
    <3> QED BY <2>3, <2>5, <2>6, FiniteSetsFollow DEF Numbers
  <2>8. iter[S] = g[AnyOf(S)] + iter[rest]
    BY <1>1, <1>3, <2>2 DEF Summing
  <2>9. QED BY <1>1, <2>1, <2>2, <2>4, <2>7, <2>8
<1>4. QED BY <1>2, <1>3

LEMMA TotalWithout ==
  ASSUME NEW g, NEW S, Numbers(g, S), NEW x \in S
  PROVE  Total(g, S) = g[x] + Total(g, S \ {x})
<1> DEFINE fine == {U \in SUBSET S :
                      \A y \in U : Total(g, U) = g[y] + Total(g, U \ {y})}
<1>1. \A U \in SUBSET S : Numbers(g, U) /\ Total(g, U) \in Nat
  <2>1. \A U \in SUBSET S : Numbers(g, U)
    BY FS_Subset DEF Numbers
  <2>2. QED BY <2>1, TotalUnfolds
<1>2. {} \in fine
  OBVIOUS
<1>3. ASSUME NEW U \in SUBSET S, U # {} /\ \A y \in U : U \ {y} \in fine
      PROVE  U \in fine
  <2>1. SUFFICES ASSUME NEW y \in U PROVE Total(g, U) = g[y] + Total(g, U \ {y})
    OBVIOUS
  <2>2. PICK c : c = AnyOf(U)
    OBVIOUS
  <2>3. c \in U /\ Total(g, U) = g[c] + Total(g, U \ {c})
    BY <1>1, <1>3, <2>2, TotalUnfolds
  <2>4. CASE y = c
    BY <2>3, <2>4
  <2>5. CASE y # c
    <3>1. /\ Total(g, U \ {c}) = g[y] + Total(g, (U \ {c}) \ {y})
          /\ Total(g, U \ {y}) = g[c] + Total(g, (U \ {y}) \ {c})
      BY <1>3, <2>3, <2>5
    <3>2. (U \ {c}) \ {y} = (U \ {y}) \ {c}
      OBVIOUS
    <3>3. PICK both : both = Total(g, (U \ {c}) \ {y})
      OBVIOUS
    <3>4. both \in Nat /\ g[c] \in Nat /\ g[y] \in Nat
      <4>1. (U \ {c}) \ {y} \in SUBSET S
        OBVIOUS
      <4>2. QED BY <1>1, <2>3, <3>3, <4>1 DEF Numbers
    <3>5. QED BY <2>3, <3>1, <3>2, <3>3, <3>4
  <2>6. QED BY <2>4, <2>5
<1>4. S \in fine
  <2> HIDE DEF fine
  <2> QED BY <1>2, <1>3, FiniteSetsFollow DEF Numbers
<1>5. QED
  BY <1>4

-----------------------------------------------------------------------------
(* Sums over the parts of a set. *)

LEMMA TotalOfSubset ==
  ASSUME NEW g, NEW S, Numbers(g, S), NEW U \in SUBSET S
  PROVE  Numbers(g, U) /\ Total(g, U) \in Nat
<1>1. Numbers(g, U)
  BY FS_Subset DEF Numbers
<1>2. QED BY <1>1, TotalUnfolds

LEMMA TotalUnion ==
  ASSUME NEW g, NEW S, Numbers(g, S), NEW A \in SUBSET S, NEW B \in SUBSET S,
         A \cap B = {}
  PROVE  Total(g, A \cup B) = Total(g, A) + Total(g, B)
<1> DEFINE fine == {U \in SUBSET B : Total(g, A \cup U) = Total(g, A) + Total(g, U)}
<1>1. {} \in fine
  <2>1. Total(g, {}) = 0 /\ Total(g, A) \in Nat /\ A \cup {} = A
    BY TotalEmpty, TotalOfSubset
  <2>2. QED BY <2>1
<1>2. ASSUME NEW U \in SUBSET B, U # {}, \A x \in U : U \ {x} \in fine
      PROVE  U \in fine
  <2>1. PICK x \in U : U \ {x} \in fine
    BY <1>2
  <2>2. Total(g, U) = g[x] + Total(g, U \ {x})
    <3>1. Numbers(g, U)
      BY TotalOfSubset
    <3>2. QED BY <3>1, TotalWithout
  <2>3. Total(g, A \cup U) = g[x] + Total(g, A \cup (U \ {x}))
    <3>1. Numbers(g, A \cup U) /\ x \in A \cup U
      BY TotalOfSubset
    <3>2. (A \cup U) \ {x} = A \cup (U \ {x})
      OBVIOUS
    <3>3. QED BY <3>1, <3>2, TotalWithout
  <2>4. /\ Total(g, A \cup (U \ {x})) = Total(g, A) + Total(g, U \ {x})
        /\ Total(g, A) \in Nat /\ Total(g, U \ {x}) \in Nat /\ g[x] \in Nat
    BY <2>1, TotalOfSubset DEF Numbers
  <2>5. QED BY <2>2, <2>3, <2>4
<1>3. B \in fine
  <2>1. IsFiniteSet(B)
    BY FS_Subset DEF Numbers
  <2> HIDE DEF fine
  <2> QED BY <1>1, <1>2, <2>1, FiniteSetsFollow
<1>4. QED BY <1>3

\* What two sets have in common counts twice.
LEMMA TotalOfBoth ==
  ASSUME NEW g, NEW S, Numbers(g, S), NEW A \in SUBSET S, NEW B \in SUBSET S
  PROVE  Total(g, A) + Total(g, B) = Total(g, A \cup B) + Total(g, A \cap B)
<1>1. Total(g, A \cup B) = Total(g, A) + Total(g, B \ A)
  <2>1. A \cap (B \ A) = {} /\ A \cup (B \ A) = A \cup B /\ B \ A \in SUBSET S
    OBVIOUS
  <2>2. QED BY <2>1, TotalUnion
<1>2. Total(g, B) = Total(g, A \cap B) + Total(g, B \ A)
  <2>1. (A \cap B) \cap (B \ A) = {} /\ (A \cap B) \cup (B \ A) = B
        /\ A \cap B \in SUBSET S /\ B \ A \in SUBSET S
    OBVIOUS
  <2>2. QED BY <2>1, TotalUnion
<1>3. /\ Total(g, A) \in Nat /\ Total(g, B) \in Nat /\ Total(g, B \ A) \in Nat
      /\ Total(g, A \cap B) \in Nat /\ Total(g, A \cup B) \in Nat
  <2>1. B \ A \in SUBSET S /\ A \cap B \in SUBSET S /\ A \cup B \in SUBSET S
    OBVIOUS
  <2>2. QED BY <2>1, TotalOfSubset
<1>4. QED BY <1>1, <1>2, <1>3

Keyed(S, key, d) == {x \in S : key[x] = d}

\* Summing by key first, and then over the keys.
LEMMA TotalByKey ==
  ASSUME NEW g, NEW S, Numbers(g, S), NEW key, NEW D, IsFiniteSet(D),
         NEW h, \A d \in D : h[d] = Total(g, Keyed(S, key, d))
  PROVE  Total(h, D) = Total(g, {x \in S : key[x] \in D})
<1> DEFINE Of(U) == {x \in S : key[x] \in U}
           fine == {U \in SUBSET D : Total(h, U) = Total(g, Of(U))}
<1>1. Numbers(h, D)
  <2>1. ASSUME NEW d \in D PROVE h[d] \in Nat
    <3>1. Keyed(S, key, d) \in SUBSET S
      BY DEF Keyed
    <3>2. QED BY <3>1, TotalOfSubset
  <2>2. QED BY <2>1 DEF Numbers
<1>2. {} \in fine
  <2>1. Of({}) = {}
    OBVIOUS
  <2>2. Total(h, {}) = 0 /\ Total(g, {}) = 0
    BY TotalEmpty
  <2>3. QED BY <2>1, <2>2
<1>3. ASSUME NEW U \in SUBSET D, U # {}, \A d \in U : U \ {d} \in fine
      PROVE  U \in fine
  <2>1. PICK d \in U : U \ {d} \in fine
    BY <1>3
  <2>2. Total(h, U) = h[d] + Total(h, U \ {d})
    <3>1. Numbers(h, U)
      BY <1>1, TotalOfSubset
    <3>2. QED BY <3>1, TotalWithout
  <2>3. Total(g, Of(U)) = Total(g, Keyed(S, key, d)) + Total(g, Of(U \ {d}))
    <3>1. /\ Keyed(S, key, d) \cap Of(U \ {d}) = {}
          /\ Keyed(S, key, d) \cup Of(U \ {d}) = Of(U)
          /\ Keyed(S, key, d) \in SUBSET S /\ Of(U \ {d}) \in SUBSET S
      BY DEF Keyed
    <3>2. PICK one, others, all : /\ one = Keyed(S, key, d) /\ others = Of(U \ {d})
                                  /\ all = Of(U)
      OBVIOUS
    <3>3. /\ one \cap others = {} /\ one \cup others = all
          /\ one \in SUBSET S /\ others \in SUBSET S
      <4> HIDE DEF Of
      <4> QED BY <3>1, <3>2
    <3>4. Total(g, all) = Total(g, one) + Total(g, others)
      BY <3>3, TotalUnion
    <3> HIDE DEF Of
    <3>5. QED BY <3>2, <3>4
  <2>4. Total(h, U \ {d}) = Total(g, Of(U \ {d}))
    BY <2>1
  <2>5. h[d] = Total(g, Keyed(S, key, d))
    OBVIOUS
  <2> HIDE DEF Of
  <2>6. Total(h, U) = Total(g, Of(U))
    BY <2>2, <2>3, <2>4, <2>5
  <2>7. QED BY <2>6
<1>4. D \in fine
  <2> HIDE DEF fine
  <2> QED BY <1>2, <1>3, FiniteSetsFollow
<1>5. QED BY <1>4

AreThree(S, a, b, c) == S = {a, b, c} /\ a # b /\ a # c /\ b # c

LEMMA TotalOfThree ==
  ASSUME NEW g, NEW a, NEW b, NEW c, NEW S, AreThree(S, a, b, c),
         g[a] \in Nat, g[b] \in Nat, g[c] \in Nat
  PROVE  Total(g, S) = g[a] + g[b] + g[c]
<1>0. S = {a, b, c} /\ a # b /\ a # c /\ b # c
  BY DEF AreThree
<1>1. Numbers(g, S) /\ Numbers(g, {b, c}) /\ Numbers(g, {c})
  <2>1. IsFiniteSet({}) /\ IsFiniteSet({c})
    BY FS_EmptySet, FS_Singleton
  <2>2. IsFiniteSet({c} \cup {b})
    BY <2>1, FS_AddElement
  <2>3. IsFiniteSet(({c} \cup {b}) \cup {a})
    BY <2>2, FS_AddElement
  <2>4. {c} \cup {b} = {b, c} /\ ({c} \cup {b}) \cup {a} = S
    BY <1>0
  <2>5. QED BY <1>0, <2>1, <2>2, <2>3, <2>4 DEF Numbers
<1>2. S \ {a} = {b, c} /\ {b, c} \ {b} = {c} /\ {c} \ {c} = {}
  BY <1>0
<1>3. Total(g, S) = g[a] + Total(g, {b, c})
  BY <1>0, <1>1, <1>2, TotalWithout
<1>4. Total(g, {b, c}) = g[b] + Total(g, {c})
  BY <1>0, <1>1, <1>2, TotalWithout
<1>5. Total(g, {c}) = g[c] + Total(g, {})
  BY <1>0, <1>1, <1>2, TotalWithout
<1>6. QED
  BY <1>3, <1>4, <1>5, TotalEmpty

Products(cell, H, home, A, away) ==
  \A h \in H, a \in A : cell[<<h, a>>] = home[h] * away[a]

\* A matrix of products holds the product of the two masses.
LEMMA TotalOfProducts ==
  ASSUME NEW H, NEW A, NEW home, NEW away, Numbers(home, H), Numbers(away, A),
         NEW cell, Products(cell, H, home, A, away)
  PROVE  Total(cell, H \X A) = Total(home, H) * Total(away, A)
<1>0. \A h \in H, a \in A : cell[<<h, a>>] = home[h] * away[a]
  BY DEF Products
<1>1. Numbers(cell, H \X A)
  <2>1. IsFiniteSet(H \X A)
    BY FS_Product DEF Numbers
  <2>2. ASSUME NEW p \in H \X A PROVE cell[p] \in Nat
    <3>1. PICK h \in H, a \in A : p = <<h, a>>
      OBVIOUS
    <3>2. home[h] \in Nat /\ away[a] \in Nat
      BY DEF Numbers
    <3>3. home[h] * away[a] \in Nat
      BY <3>2
    <3>4. QED BY <1>0, <3>1, <3>3
  <2>3. QED BY <2>1, <2>2 DEF Numbers
<1>2. ASSUME NEW h \in H PROVE Total(cell, {h} \X A) = home[h] * Total(away, A)
  <2> DEFINE fine == {U \in SUBSET A : Total(cell, {h} \X U) = home[h] * Total(away, U)}
  <2>0. home[h] \in Nat
    BY DEF Numbers
  <2>1. {} \in fine
    <3>1. {h} \X {} = {} /\ home[h] * 0 = 0
      BY <2>0
    <3>2. QED BY <3>1, TotalEmpty
  <2>2. ASSUME NEW U \in SUBSET A, U # {}, \A a \in U : U \ {a} \in fine
        PROVE  U \in fine
    <3>1. PICK a \in U : U \ {a} \in fine
      BY <2>2
    <3>2. Total(away, U) = away[a] + Total(away, U \ {a})
      <4>1. Numbers(away, U)
        BY TotalOfSubset
      <4>2. QED BY <4>1, TotalWithout
    <3>3. Total(cell, {h} \X U) = cell[<<h, a>>] + Total(cell, {h} \X (U \ {a}))
      <4>1. {h} \X U \in SUBSET (H \X A) /\ <<h, a>> \in {h} \X U
        OBVIOUS
      <4>2. ({h} \X U) \ {<<h, a>>} = {h} \X (U \ {a})
        OBVIOUS
      <4>3. Numbers(cell, {h} \X U)
        BY <1>1, <4>1, TotalOfSubset
      <4>4. QED BY <4>1, <4>2, <4>3, TotalWithout
    <3>4. /\ Total(cell, {h} \X (U \ {a})) = home[h] * Total(away, U \ {a})
          /\ cell[<<h, a>>] = home[h] * away[a]
      BY <1>0, <3>1
    <3>5. away[a] \in Nat /\ Total(away, U \ {a}) \in Nat
      BY TotalOfSubset DEF Numbers
    <3>6. \A x, y, z \in Nat : x * y + x * z = x * (y + z)
      OBVIOUS
    <3>7. QED BY <2>0, <3>2, <3>3, <3>4, <3>5, <3>6
  <2>3. A \in fine
    <3> HIDE DEF fine
    <3> QED BY <2>1, <2>2, FiniteSetsFollow DEF Numbers
  <2>4. QED BY <2>3
<1> DEFINE fine == {U \in SUBSET H : Total(cell, U \X A) = Total(home, U) * Total(away, A)}
<1>3. Total(away, A) \in Nat
  BY TotalUnfolds
<1>4. {} \in fine
  <2>1. {} \X A = {} /\ 0 * Total(away, A) = 0
    BY <1>3
  <2>2. QED BY <2>1, TotalEmpty
<1>5. ASSUME NEW U \in SUBSET H, U # {}, \A h \in U : U \ {h} \in fine
      PROVE  U \in fine
  <2>1. PICK h \in U : U \ {h} \in fine
    BY <1>5
  <2>2. Total(home, U) = home[h] + Total(home, U \ {h})
    <3>1. Numbers(home, U)
      BY TotalOfSubset
    <3>2. QED BY <3>1, TotalWithout
  <2>3. Total(cell, U \X A) = Total(cell, {h} \X A) + Total(cell, (U \ {h}) \X A)
    <3>1. /\ {h} \X A \in SUBSET (H \X A) /\ (U \ {h}) \X A \in SUBSET (H \X A)
          /\ ({h} \X A) \cap ((U \ {h}) \X A) = {}
          /\ ({h} \X A) \cup ((U \ {h}) \X A) = U \X A
      OBVIOUS
    <3>2. QED BY <1>1, <3>1, TotalUnion
  <2>4. Total(cell, (U \ {h}) \X A) = Total(home, U \ {h}) * Total(away, A)
    BY <2>1
  <2>5. Total(cell, {h} \X A) = home[h] * Total(away, A)
    BY <1>2
  <2>6. home[h] \in Nat /\ Total(home, U \ {h}) \in Nat
    BY TotalOfSubset DEF Numbers
  <2>7. \A x, y, z \in Nat : x * z + y * z = (x + y) * z
    OBVIOUS
  <2>8. QED BY <1>3, <2>2, <2>3, <2>4, <2>5, <2>6, <2>7
<1>6. H \in fine
  <2> HIDE DEF fine
  <2> QED BY <1>4, <1>5, FiniteSetsFollow DEF Numbers
<1>7. QED BY <1>6

-----------------------------------------------------------------------------
(* The matrix has weights that are natural numbers. *)

Counted(max, V, base, next) ==
  \E f \in [0 .. max -> V] :
     f = [n \in 0 .. max |-> IF n = 0 THEN base ELSE next[<<n, f[n - 1]>>]]

\* A function that is defined from the number before is.
LEMMA CountExists ==
  ASSUME NEW max \in Nat, NEW V, NEW base \in V,
         NEW next \in [(1 .. max) \X V -> V]
  PROVE  Counted(max, V, base, next)
<1> DEFINE Upto(n, f) == f = [k \in 0 .. n |-> IF k = 0 THEN base
                                               ELSE next[<<k, f[k - 1]>>]]
           good == {n \in Nat : n <= max => \E f \in [0 .. n -> V] : Upto(n, f)}
<1>1. 0 \in good
  <2>1. [k \in 0 .. 0 |-> base] \in [0 .. 0 -> V]
    OBVIOUS
  <2>2. Upto(0, [k \in 0 .. 0 |-> base])
    OBVIOUS
  <2>3. QED BY <2>1, <2>2
<1>2. ASSUME NEW n \in Nat, n \in good PROVE n + 1 \in good
  <2>1. SUFFICES ASSUME n + 1 <= max PROVE \E f \in [0 .. n + 1 -> V] : Upto(n + 1, f)
    OBVIOUS
  <2>2. PICK f \in [0 .. n -> V] : Upto(n, f)
    BY <1>2, <2>1
  <2> DEFINE more == [k \in 0 .. n + 1 |-> IF k = 0 THEN base
                                           ELSE next[<<k, f[k - 1]>>]]
  <2>3. more \in [0 .. n + 1 -> V]
    <3>1. ASSUME NEW k \in 0 .. n + 1, k # 0 PROVE next[<<k, f[k - 1]>>] \in V
      <4>1. k \in 1 .. max /\ f[k - 1] \in V
        BY <2>1, <3>1
      <4>2. QED BY <4>1
    <3>2. QED BY <3>1
  <2>4. ASSUME NEW k \in 0 .. n PROVE more[k] = f[k]
    BY <2>2
  <2>5. ASSUME NEW k \in 0 .. n + 1, k # 0
        PROVE  more[k] = next[<<k, more[k - 1]>>]
    <3>1. k - 1 \in 0 .. n
      BY <2>5
    <3>2. more[k - 1] = f[k - 1]
      BY <2>4, <3>1
    <3>3. QED BY <2>5, <3>2
  <2>6. Upto(n + 1, more)
    BY <2>5
  <2>7. QED
    <3> HIDE DEF more, Upto
    <3> QED BY <2>3, <2>6
<1>3. Nat \subseteq good
  <2> HIDE DEF good
  <2> QED BY <1>1, <1>2, NumbersFollow
<1>4. QED
  BY <1>3 DEF Counted

Rates == Nat \X (Nat \ {0})

LEMMA ScaleIsNatural ==
  ASSUME NEW den \in Nat, NEW max \in Nat, NEW scale,
         scale = CHOOSE f : f = [n \in 0 .. max |->
                                   IF n = 0 THEN 1 ELSE n * den * f[n - 1]]
  PROVE  scale \in [0 .. max -> Nat]
<1> DEFINE Scales(f) == f = [n \in 0 .. max |->
                               IF n = 0 THEN 1 ELSE n * den * f[n - 1]]
           next == [p \in (1 .. max) \X Nat |-> p[1] * den * p[2]]
<1>1. next \in [(1 .. max) \X Nat -> Nat]
  <2>1. ASSUME NEW p \in (1 .. max) \X Nat PROVE p[1] * den * p[2] \in Nat
    <3>1. p[1] \in Nat /\ p[2] \in Nat
      OBVIOUS
    <3>2. p[1] * den \in Nat
      BY <3>1
    <3>3. QED BY <3>1, <3>2
  <2>2. QED BY <2>1
<1>2. PICK f \in [0 .. max -> Nat] :
         f = [n \in 0 .. max |-> IF n = 0 THEN 1 ELSE next[<<n, f[n - 1]>>]]
  <2>1. Counted(max, Nat, 1, next)
    <3> HIDE DEF next
    <3> QED BY <1>1, CountExists
  <2>2. QED BY <2>1 DEF Counted
<1>3. \A n \in 0 .. max : n # 0 => next[<<n, f[n - 1]>>] = n * den * f[n - 1]
  <2>1. SUFFICES ASSUME NEW n \in 0 .. max, n # 0
                 PROVE  next[<<n, f[n - 1]>>] = n * den * f[n - 1]
    OBVIOUS
  <2>2. n \in 1 .. max /\ f[n - 1] \in Nat
    BY <2>1
  <2>3. QED BY <2>2
<1>4. Scales(f)
  <2> HIDE DEF next
  <2> QED BY <1>2, <1>3
<1>5. Scales(scale)
  <2>1. scale = CHOOSE g : Scales(g)
    OBVIOUS
  <2> HIDE DEF Scales
  <2> QED BY <1>4, <2>1
<1> DEFINE natural == {n \in Nat : n <= max => scale[n] \in Nat}
<1>6. 0 \in natural
  <2>1. 0 \in 0 .. max
    OBVIOUS
  <2>2. scale[0] = 1
    BY <1>5, <2>1
  <2>3. QED BY <2>2
<1>7. ASSUME NEW n \in Nat, n \in natural PROVE n + 1 \in natural
  <2>1. SUFFICES ASSUME n + 1 <= max PROVE scale[n + 1] \in Nat
    OBVIOUS
  <2>2. n + 1 \in 0 .. max /\ n + 1 # 0 /\ (n + 1) - 1 = n
    BY <2>1
  <2>3. scale[n + 1] = (n + 1) * den * scale[n]
    BY <1>5, <2>2
  <2>4. scale[n] \in Nat /\ (n + 1) * den \in Nat
    BY <1>7, <2>1
  <2>5. QED BY <2>3, <2>4
<1>8. Nat \subseteq natural
  <2> HIDE DEF natural
  <2> QED BY <1>6, <1>7, NumbersFollow
<1>9. \A n \in 0 .. max : scale[n] \in Nat
  <2>1. \A n \in 0 .. max : n \in Nat /\ n <= max
    OBVIOUS
  <2>2. QED BY <1>8, <2>1
<1>10. DOMAIN scale = 0 .. max /\ scale = [n \in DOMAIN scale |-> scale[n]]
  BY <1>5
<1>11. QED
  BY <1>9, <1>10

\* The weights of a distribution.
LEMMA DistributionIsNatural ==
  ASSUME NEW rate \in Rates, NEW max \in Nat
  PROVE  Distribution(rate, max) \in [0 .. max -> Nat]
<1>1. rate[1] \in Nat /\ rate[2] \in Nat /\ rate[2] # 0
  BY DEF Rates
<1>2. PICK scale : scale = CHOOSE f : f = [n \in 0 .. max |->
                              IF n = 0 THEN 1 ELSE n * rate[2] * f[n - 1]]
  OBVIOUS
<1>3. scale \in [0 .. max -> Nat]
  BY <1>1, <1>2, ScaleIsNatural
<1>4. PICK first \in Nat : first = scale[max]
  BY <1>3
<1> DEFINE Weighs(f) == f = [n \in 0 .. max |->
                               IF n = 0 THEN first
                               ELSE (f[n - 1] * rate[1]) \div (n * rate[2])]
           next == [p \in (1 .. max) \X Nat |-> (p[2] * rate[1]) \div (p[1] * rate[2])]
<1>5. PICK p : p = Distribution(rate, max)
  OBVIOUS
<1>6. p = CHOOSE f : Weighs(f)
  BY <1>2, <1>4, <1>5 DEF Distribution
<1>7. ASSUME NEW n \in 1 .. max, NEW weight \in Nat
      PROVE  (weight * rate[1]) \div (n * rate[2]) \in Nat
  <2>1. weight * rate[1] \in Nat /\ n * rate[2] \in Nat
    BY <1>1
  <2>2. n * rate[2] # 0
    BY <1>1
  <2>3. \A a, b \in Nat : b # 0 => a \div b \in Nat
    OBVIOUS
  <2>4. QED BY <2>1, <2>2, <2>3
<1>8. PICK f \in [0 .. max -> Nat] :
         f = [n \in 0 .. max |-> IF n = 0 THEN first ELSE next[<<n, f[n - 1]>>]]
  <2>1. next \in [(1 .. max) \X Nat -> Nat]
    BY <1>7
  <2>2. Counted(max, Nat, first, next)
    <3> HIDE DEF next
    <3> QED BY <2>1, CountExists
  <2>3. QED BY <2>2 DEF Counted
<1>9. \A n \in 0 .. max : n # 0 =>
         next[<<n, f[n - 1]>>] = (f[n - 1] * rate[1]) \div (n * rate[2])
  <2>1. SUFFICES ASSUME NEW n \in 0 .. max, n # 0
                 PROVE  next[<<n, f[n - 1]>>] =
                          (f[n - 1] * rate[1]) \div (n * rate[2])
    OBVIOUS
  <2>2. n \in 1 .. max /\ f[n - 1] \in Nat
    BY <2>1
  <2>3. QED BY <2>2
<1>10. Weighs(f)
  <2> HIDE DEF next
  <2> QED BY <1>8, <1>9
<1>11. Weighs(p)
  <2> HIDE DEF Weighs
  <2> QED BY <1>6, <1>10
<1> DEFINE natural == {n \in Nat : n <= max => p[n] \in Nat}
<1>12. 0 \in natural
  <2>1. 0 \in 0 .. max
    OBVIOUS
  <2>2. p[0] = first
    BY <1>11, <2>1
  <2>3. QED BY <2>2
<1>13. ASSUME NEW n \in Nat, n \in natural PROVE n + 1 \in natural
  <2>1. SUFFICES ASSUME n + 1 <= max PROVE p[n + 1] \in Nat
    OBVIOUS
  <2>2. n + 1 \in 1 .. max /\ n + 1 # 0 /\ (n + 1) - 1 = n
    BY <2>1
  <2>3. p[n + 1] = (p[n] * rate[1]) \div ((n + 1) * rate[2])
    BY <1>11, <2>2
  <2>4. p[n] \in Nat
    BY <1>13, <2>1
  <2>5. QED BY <1>7, <2>2, <2>3, <2>4
<1>14. Nat \subseteq natural
  <2> HIDE DEF natural
  <2> QED BY <1>12, <1>13, NumbersFollow
<1>15. p \in [0 .. max -> Nat]
  <2>1. \A n \in 0 .. max : p[n] \in Nat
    <3>1. \A n \in 0 .. max : n \in Nat /\ n <= max
      OBVIOUS
    <3>2. QED BY <1>14, <3>1
  <2>2. DOMAIN p = 0 .. max /\ p = [n \in DOMAIN p |-> p[n]]
    BY <1>11
  <2>3. QED BY <2>1, <2>2
<1>16. QED
  BY <1>5, <1>15

-----------------------------------------------------------------------------
(* The price of a line. *)

Scored(m) ==
  /\ m.home \in Nat /\ m.away \in Nat
  /\ DOMAIN m.cell = (0 .. m.home) \X (0 .. m.away)
  /\ \A score \in DOMAIN m.cell : m.cell[score] \in Nat

LEMMA MatrixIsScored ==
  ASSUME NEW home, NEW away, NEW H \in Nat, NEW A \in Nat,
         home \in [0 .. H -> Nat], away \in [0 .. A -> Nat]
  PROVE  Scored(Matrix(home, away))
<1> DEFINE m == Matrix(home, away)
<1>1. ASSUME NEW n \in Nat PROVE Max(0 .. n) = n
  <2>1. n \in 0 .. n /\ \A k \in 0 .. n : n >= k
    BY <1>1
  <2>2. \A k \in 0 .. n : (\A j \in 0 .. n : k >= j) => k = n
    <3>1. SUFFICES ASSUME NEW k \in 0 .. n, k >= n PROVE k = n
      BY <2>1
    <3>2. QED BY <3>1
  <2>3. QED BY <2>1, <2>2 DEF Max
<1>2. DOMAIN home = 0 .. H /\ DOMAIN away = 0 .. A
  OBVIOUS
<1>3. m.home = H /\ m.away = A
  BY <1>1, <1>2 DEF Matrix
<1>4. m.cell = [score \in (0 .. H) \X (0 .. A) |-> home[score[1]] * away[score[2]]]
  BY <1>2 DEF Matrix
<1>5. ASSUME NEW score \in (0 .. H) \X (0 .. A) PROVE m.cell[score] \in Nat
  <2>1. home[score[1]] \in Nat /\ away[score[2]] \in Nat
    OBVIOUS
  <2>2. \A a, b \in Nat : a * b \in Nat
    OBVIOUS
  <2>3. m.cell[score] = home[score[1]] * away[score[2]]
    BY <1>4
  <2>4. QED BY <2>1, <2>2, <2>3
<1>6. DOMAIN m.cell = (0 .. H) \X (0 .. A)
  BY <1>4
<1>7. QED
  <2> HIDE DEF m
  <2>1. Scored(m)
    BY <1>3, <1>5, <1>6 DEF Scored
  <2>2. QED BY <2>1 DEF m

LEMMA CellsAreNumbers ==
  ASSUME NEW m, Scored(m), NEW S \in SUBSET DOMAIN m.cell
  PROVE  Numbers(m.cell, S) /\ MassOf(m, S) = Total(m.cell, S) /\ MassOf(m, S) \in Nat
<1>1. IsFiniteSet(0 .. m.home) /\ IsFiniteSet(0 .. m.away)
  <2>1. m.home \in Int /\ m.away \in Int
    BY DEF Scored
  <2>2. QED BY <2>1, FS_Interval
<1>2. IsFiniteSet(DOMAIN m.cell)
  <2>1. IsFiniteSet((0 .. m.home) \X (0 .. m.away))
    BY <1>1, FS_Product
  <2>2. QED BY <2>1 DEF Scored
<1>3. Numbers(m.cell, S)
  BY <1>2, FS_Subset DEF Numbers, Scored
<1>4. MassOf(m, S) = Total(m.cell, S)
  BY DEF MassOf, Total
<1>5. QED
  BY <1>3, <1>4, TotalUnfolds

\* The state of a bet is a matter of the goal difference, or of the goals in all.
LEMMA KeyDecides ==
  ASSUME NEW selection \in Selections, NEW line \in Int, NEW score \in Score,
         NEW other \in Score, StateKey(selection, score) = StateKey(selection, other)
  PROVE  Settle(score, selection, line) = Settle(other, selection, line)
<1>1. /\ score[1] \in Nat /\ score[2] \in Nat
      /\ other[1] \in Nat /\ other[2] \in Nat
  BY DEF Score
<1>2. Base(score, selection) = Base(other, selection)
  <2>1. CASE selection = "home" \/ selection = "away"
    <3>1. score[1] - score[2] = other[1] - other[2]
      BY <2>1 DEF StateKey, HandicapSelections
    <3>2. /\ (score[1] - score[2]) * 4 = (other[1] - other[2]) * 4
          /\ (score[2] - score[1]) * 4 = (other[2] - other[1]) * 4
      BY <1>1, <3>1
    <3>3. QED BY <2>1, <3>2 DEF Base
  <2>2. CASE selection = "over" \/ selection = "under"
    <3>1. score[1] + score[2] = other[1] + other[2]
      BY <2>2 DEF StateKey, HandicapSelections
    <3>2. QED BY <2>2, <3>1 DEF Base
  <2>3. QED BY <2>1, <2>2 DEF Selections, HandicapSelections, TotalSelections
<1>3. QED BY <1>2 DEF Settle

\* The cache of _price holds for every score what settling it would give.
LEMMA CacheIsFaithful ==
  ASSUME NEW m, Scored(m), NEW selection \in Selections, NEW line \in Int,
         NEW score \in DOMAIN m.cell
  PROVE  StateCache(m, selection, line)[StateKey(selection, score)] =
           Settle(score, selection, line)
<1>0. PICK key : key = StateKey(selection, score)
  OBVIOUS
<1> DEFINE same == {other \in DOMAIN m.cell : StateKey(selection, other) = key}
           homes == {other[1] : other \in same}
           first == CHOOSE one \in same : \A other \in same : one[1] <= other[1]
<1>1. DOMAIN m.cell \subseteq Score
  BY DEF Scored, Score
<1>2. first \in same
  <2>1. homes \in SUBSET Nat
    BY <1>1 DEF Score
  <2>2. homes # {}
    <3>1. score \in same
      BY <1>0
    <3>2. QED BY <3>1
  <2>3. PICK n \in homes : \A k \in homes : n <= k
    <3> HIDE DEF homes
    <3> QED BY <2>1, <2>2, LeastNumber
  <2>4. PICK one \in same : one[1] = n
    OBVIOUS
  <2>5. \A other \in same : one[1] <= other[1]
    BY <2>3, <2>4
  <2>6. QED BY <2>5
<1>3. StateCache(m, selection, line)[key] = Settle(first, selection, line)
  <2>1. key \in {StateKey(selection, other) : other \in DOMAIN m.cell}
    BY <1>0
  <2>2. QED BY <2>1 DEF StateCache
<1>4. first \in Score /\ score \in Score /\ StateKey(selection, first) = key
  <2> HIDE DEF first
  <2> QED BY <1>1, <1>2
<1>5. QED
  <2> HIDE DEF first
  <2> QED BY <1>0, <1>3, <1>4, KeyDecides

Ending(m, selection, line, state) ==
  {score \in DOMAIN m.cell : Settle(score, selection, line) = state}

Share(m, selection, line, state) == MassOf(m, Ending(m, selection, line, state))

LEMMA PriceShares ==
  ASSUME NEW m, Scored(m), NEW selection \in Selections, NEW line \in Int
  PROVE  /\ \A state : Share(m, selection, line, state) \in Nat
         /\ Price(m, selection, line) =
              [selection |-> selection, line |-> line,
               won    |-> 2 * Share(m, selection, line, "win")
                            + Share(m, selection, line, "half_win"),
               pushed |-> 2 * Share(m, selection, line, "push")
                            + Share(m, selection, line, "half_win")
                            + Share(m, selection, line, "half_loss"),
               lost   |-> 2 * Share(m, selection, line, "loss")
                            + Share(m, selection, line, "half_loss")]
<1>1. ASSUME NEW state PROVE Share(m, selection, line, state) \in Nat
  <2>1. Ending(m, selection, line, state) \in SUBSET DOMAIN m.cell
    BY DEF Ending
  <2>2. QED BY <2>1, CellsAreNumbers DEF Share
<1>2. ASSUME NEW state
      PROVE  {score \in DOMAIN m.cell :
                StateCache(m, selection, line)[StateKey(selection, score)] = state} =
             Ending(m, selection, line, state)
  BY CacheIsFaithful DEF Ending
<1>3. \A state : MassOf(m, {score \in DOMAIN m.cell :
                StateCache(m, selection, line)[StateKey(selection, score)] = state}) =
             Share(m, selection, line, state)
  BY <1>2 DEF Share
<1>4. PICK mass : mass = [s \in SettlementStates |-> Share(m, selection, line, s)]
  OBVIOUS
<1>5. mass = [s \in SettlementStates |->
                MassOf(m, {score \in DOMAIN m.cell :
                   StateCache(m, selection, line)[StateKey(selection, score)] = s})]
  BY <1>3, <1>4
<1>6. Price(m, selection, line) =
        [selection |-> selection, line |-> line,
         won    |-> 2 * mass["win"] + mass["half_win"],
         pushed |-> 2 * mass["push"] + mass["half_win"] + mass["half_loss"],
         lost   |-> 2 * mass["loss"] + mass["half_loss"]]
  BY <1>5 DEF Price
<1>7. \A s \in SettlementStates : mass[s] = Share(m, selection, line, s)
  BY <1>4
<1>8. QED
  BY <1>1, <1>6, <1>7 DEF SettlementStates

LEMMA PriceFields ==
  ASSUME NEW m, Scored(m), NEW selection \in Selections, NEW line \in Int,
         NEW price, price = Price(m, selection, line)
  PROVE  /\ price.won = 2 * Share(m, selection, line, "win")
                           + Share(m, selection, line, "half_win")
         /\ price.pushed = 2 * Share(m, selection, line, "push")
                              + Share(m, selection, line, "half_win")
                              + Share(m, selection, line, "half_loss")
         /\ price.lost = 2 * Share(m, selection, line, "loss")
                            + Share(m, selection, line, "half_loss")
         /\ price.line = line /\ price.selection = selection
         /\ price.won \in Nat /\ price.pushed \in Nat /\ price.lost \in Nat
<1>1. price =
        [selection |-> selection, line |-> line,
         won    |-> 2 * Share(m, selection, line, "win")
                      + Share(m, selection, line, "half_win"),
         pushed |-> 2 * Share(m, selection, line, "push")
                      + Share(m, selection, line, "half_win")
                      + Share(m, selection, line, "half_loss"),
         lost   |-> 2 * Share(m, selection, line, "loss")
                      + Share(m, selection, line, "half_loss")]
  BY PriceShares
<1>2. \A state : Share(m, selection, line, state) \in Nat
  BY PriceShares
<1>3. QED
  BY <1>1, <1>2

\* What one side of a market wins the other loses.
LEMMA SidesHaveOppositePrices ==
  ASSUME NEW m, Scored(m), NEW market \in {"handicap", "total"}, NEW line \in Int
  PROVE  LET price == Price(m, ReferenceOf(market), line)
             other == Price(m, OppositeOf(market), OppositeLine(market, line))
         IN  other.won = price.lost /\ other.lost = price.won
             /\ other.pushed = price.pushed
<1> DEFINE selection == ReferenceOf(market)
           against == OppositeOf(market)
           mirrored == OppositeLine(market, line)
<1>1. selection \in Selections /\ against \in Selections /\ mirrored \in Int
  BY DEF ReferenceOf, OppositeOf, OppositeLine, Selections, HandicapSelections,
         TotalSelections
<1>2. ASSUME NEW score \in DOMAIN m.cell
      PROVE  /\ Settle(score, against, mirrored) =
                  OppositeState(Settle(score, selection, line))
             /\ Settle(score, selection, line) \in SettlementStates
  <2>1. score \in Score
    BY DEF Scored, Score
  <2>2. CASE market = "handicap"
    <3>1. selection = "home" /\ against = "away" /\ mirrored = - line
      BY <2>2 DEF ReferenceOf, OppositeOf, OppositeLine
    <3>2. QED
      <4> HIDE DEF selection, against, mirrored
      <4> QED BY <1>1, <2>1, <3>1, SidesAreOpposite, SettlementIsTotal
  <2>3. CASE market = "total"
    <3>1. selection = "over" /\ against = "under" /\ mirrored = line
      BY <2>3 DEF ReferenceOf, OppositeOf, OppositeLine
    <3>2. QED
      <4> HIDE DEF selection, against, mirrored
      <4> QED BY <1>1, <2>1, <3>1, SidesAreOpposite, SettlementIsTotal
  <2>4. QED BY <2>2, <2>3
<1>3. /\ Ending(m, against, mirrored, "win") = Ending(m, selection, line, "loss")
      /\ Ending(m, against, mirrored, "half_win") = Ending(m, selection, line, "half_loss")
      /\ Ending(m, against, mirrored, "push") = Ending(m, selection, line, "push")
      /\ Ending(m, against, mirrored, "half_loss") = Ending(m, selection, line, "half_win")
      /\ Ending(m, against, mirrored, "loss") = Ending(m, selection, line, "win")
  <2>1. ASSUME NEW state \in SettlementStates
        PROVE  /\ OppositeState(state) = "win" <=> state = "loss"
               /\ OppositeState(state) = "half_win" <=> state = "half_loss"
               /\ OppositeState(state) = "push" <=> state = "push"
               /\ OppositeState(state) = "half_loss" <=> state = "half_win"
               /\ OppositeState(state) = "loss" <=> state = "win"
    BY <2>1 DEF SettlementStates, OppositeState
  <2> HIDE DEF selection, against, mirrored
  <2> QED BY <1>2, <2>1 DEF Ending
<1>4. /\ Share(m, against, mirrored, "win") = Share(m, selection, line, "loss")
      /\ Share(m, against, mirrored, "half_win") = Share(m, selection, line, "half_loss")
      /\ Share(m, against, mirrored, "push") = Share(m, selection, line, "push")
      /\ Share(m, against, mirrored, "half_loss") = Share(m, selection, line, "half_win")
      /\ Share(m, against, mirrored, "loss") = Share(m, selection, line, "win")
  BY <1>3 DEF Share
<1>5. PICK price, other : /\ price = Price(m, selection, line)
                          /\ other = Price(m, against, mirrored)
  OBVIOUS
<1>6. /\ price.won = 2 * Share(m, selection, line, "win")
                        + Share(m, selection, line, "half_win")
      /\ price.pushed = 2 * Share(m, selection, line, "push")
                           + Share(m, selection, line, "half_win")
                           + Share(m, selection, line, "half_loss")
      /\ price.lost = 2 * Share(m, selection, line, "loss")
                         + Share(m, selection, line, "half_loss")
  <2> HIDE DEF selection
  <2> QED BY <1>1, <1>5, PriceFields
<1>7. /\ other.won = 2 * Share(m, against, mirrored, "win")
                        + Share(m, against, mirrored, "half_win")
      /\ other.pushed = 2 * Share(m, against, mirrored, "push")
                           + Share(m, against, mirrored, "half_win")
                           + Share(m, against, mirrored, "half_loss")
      /\ other.lost = 2 * Share(m, against, mirrored, "loss")
                         + Share(m, against, mirrored, "half_loss")
  <2> HIDE DEF against, mirrored
  <2> QED BY <1>1, <1>5, PriceFields
<1>8. \A state : Share(m, selection, line, state) \in Nat
  <2> HIDE DEF selection
  <2> QED BY <1>1, PriceShares
<1>9. other.won = price.lost /\ other.lost = price.won /\ other.pushed = price.pushed
  <2> HIDE DEF selection, against, mirrored
  <2> QED BY <1>4, <1>6, <1>7, <1>8
<1>10. QED
  BY <1>5, <1>9

-----------------------------------------------------------------------------
(* The order of the candidates for a main line. *)

Offer(p) == p.won \in Nat /\ p.won > 0 /\ p.lost \in Nat /\ p.line \in Int

\* Fractions compared by cross-multiplication.
LEMMA CrossTransitive ==
  ASSUME NEW a \in Nat, NEW b \in Nat, NEW c \in Nat,
         NEW p \in Nat, NEW q \in Nat, NEW r \in Nat, p > 0, q > 0, r > 0,
         a * q <= b * p, b * r <= c * q
  PROVE  /\ a * r <= c * p
         /\ a * q < b * p \/ b * r < c * q => a * r < c * p
<1>1. /\ \A x, y, z \in Nat : x <= y => x * z <= y * z
      /\ \A x, y, z \in Nat : z > 0 /\ x < y => x * z < y * z
      /\ \A x, y, z \in Nat : z > 0 /\ x * z <= y * z => x <= y
      /\ \A x, y, z \in Nat : z > 0 /\ x * z < y * z => x < y
  OBVIOUS
<1>2. /\ a * q \in Nat /\ b * p \in Nat /\ b * r \in Nat /\ c * q \in Nat
      /\ a * r \in Nat /\ c * p \in Nat
  OBVIOUS
<1>3. /\ (a * q) * r = (a * r) * q
      /\ (b * p) * r = (b * r) * p
      /\ (c * q) * p = (c * p) * q
  OBVIOUS
<1>4. (a * q) * r <= (b * p) * r /\ (b * r) * p <= (c * q) * p
  BY <1>1, <1>2
<1>5. a * q < b * p => (a * q) * r < (b * p) * r
  BY <1>1, <1>2
<1>6. b * r < c * q => (b * r) * p < (c * q) * p
  BY <1>1, <1>2
<1>7. /\ (a * r) * q \in Nat /\ (b * r) * p \in Nat /\ (c * p) * q \in Nat
  BY <1>2
<1>8. /\ (a * r) * q <= (c * p) * q
      /\ a * q < b * p \/ b * r < c * q => (a * r) * q < (c * p) * q
  BY <1>3, <1>4, <1>5, <1>6, <1>7
<1>9. QED
  BY <1>1, <1>2, <1>8

LEMMA BetterOrders ==
  ASSUME NEW a, NEW b, Offer(a), Offer(b)
  PROVE  /\ a.line # b.line => Better(a, b) \/ Better(b, a)
         /\ \A c : Offer(c) /\ Better(a, b) /\ Better(b, c) => Better(a, c)
<1>1. ASSUME NEW p, Offer(p)
      PROVE  Unbalance(p) \in Nat /\ Magnitude(p.line) \in Nat
  BY <1>1 DEF Offer, Unbalance, Magnitude
<1>2. ASSUME a.line # b.line PROVE Better(a, b) \/ Better(b, a)
  <2>1. Precedes(a, b) \/ Precedes(b, a)
    BY <1>2 DEF Precedes, Magnitude, Offer
  <2>2. PICK x \in Nat : x = Unbalance(a) * b.won
    BY <1>1 DEF Offer
  <2>3. PICK y \in Nat : y = Unbalance(b) * a.won
    BY <1>1 DEF Offer
  <2>4. x < y \/ y < x \/ x = y
    OBVIOUS
  <2>5. QED BY <2>1, <2>2, <2>3, <2>4 DEF Better, Nearer, AsNear
<1>3. ASSUME NEW c, Offer(c), Better(a, b), Better(b, c) PROVE Better(a, c)
  <2> DEFINE u == Unbalance(a)
             v == Unbalance(b)
             w == Unbalance(c)
  <2>1. /\ u \in Nat /\ v \in Nat /\ w \in Nat
        /\ a.won \in Nat /\ b.won \in Nat /\ c.won \in Nat
        /\ a.won > 0 /\ b.won > 0 /\ c.won > 0
    BY <1>1, <1>3 DEF Offer
  <2>2. /\ \/ u * b.won < v * a.won
           \/ u * b.won = v * a.won /\ Precedes(a, b)
        /\ \/ v * c.won < w * b.won
           \/ v * c.won = w * b.won /\ Precedes(b, c)
    BY <1>3 DEF Better, Nearer, AsNear
  <2>3. /\ u * b.won \in Nat /\ v * a.won \in Nat /\ v * c.won \in Nat
        /\ w * b.won \in Nat /\ u * c.won \in Nat /\ w * a.won \in Nat
    <3>1. \A x, y \in Nat : x * y \in Nat
      OBVIOUS
    <3> HIDE DEF u, v, w
    <3> QED BY <2>1, <3>1
  <2>4. u * b.won <= v * a.won /\ v * c.won <= w * b.won
    <3> HIDE DEF u, v, w
    <3> QED BY <2>2, <2>3
  <2>5. /\ u * c.won <= w * a.won
        /\ u * b.won < v * a.won \/ v * c.won < w * b.won => u * c.won < w * a.won
    <3> HIDE DEF u, v, w
    <3> QED BY <2>1, <2>4, CrossTransitive
  <2>6. CASE u * b.won < v * a.won \/ v * c.won < w * b.won
    BY <2>5, <2>6 DEF Better, Nearer
  <2>7. CASE /\ u * b.won = v * a.won /\ Precedes(a, b)
             /\ v * c.won = w * b.won /\ Precedes(b, c)
    <3>1. Precedes(a, c)
      BY <1>3, <2>7 DEF Precedes, Magnitude, Offer
    <3>2. u * c.won < w * a.won \/ u * c.won = w * a.won
      <4> HIDE DEF u, v, w
      <4> QED BY <2>3, <2>5
    <3>3. QED BY <3>1, <3>2 DEF Better, Nearer, AsNear
  <2>8. QED BY <2>2, <2>6, <2>7
<1>4. QED BY <1>2, <1>3

-----------------------------------------------------------------------------
(* The scan of the candidates. *)

Visited(m, market, best, line) ==
  LET price == Price(m, ReferenceOf(market), line)
  IN  IF HasOdds(price) /\ (best = {} \/ \A b \in best : Better(price, b))
      THEN {price} ELSE best

Scans(m, market, lines, iter) ==
  iter = [U \in SUBSET DOMAIN lines |->
            IF U = {} THEN {}
            ELSE Visited(m, market, iter[U \ {Max(U)}], lines[Max(U)])]

Lowest(m, market) == IF market = "handicap" THEN - (m.home + 1) * 4 ELSE 0

Highest(m, market) ==
  IF market = "handicap" THEN (m.away + 1) * 4 ELSE (m.home + m.away + 1) * 4

LEMMA CatalogueLines ==
  ASSUME NEW m, Scored(m), NEW market \in {"handicap", "total"}
  PROVE  LET n == Highest(m, market) - Lowest(m, market) + 1
         IN  /\ Lowest(m, market) \in Int /\ Highest(m, market) \in Int
             /\ n \in Nat /\ n > 0
             /\ Catalogue(m, market) =
                  [position \in 1 .. n |-> Lowest(m, market) + position - 1]
             /\ \A line \in Lowest(m, market) .. Highest(m, market) :
                  \E k \in 1 .. n : line = Catalogue(m, market)[k]
<1>1. m.home \in Nat /\ m.away \in Nat
  BY DEF Scored
<1>2. PICK low : low = Lowest(m, market)
  OBVIOUS
<1>3. PICK high : high = Highest(m, market)
  OBVIOUS
<1>4. low \in Int /\ high \in Int /\ high - low + 1 \in Nat /\ high - low + 1 > 0
  BY <1>1, <1>2, <1>3 DEF Lowest, Highest
<1>5. Catalogue(m, market) = [position \in 1 .. high - low + 1 |-> low + position - 1]
  BY <1>2, <1>3 DEF Catalogue, Lowest, Highest
<1>6. ASSUME NEW line \in low .. high
      PROVE  \E k \in 1 .. high - low + 1 : line = Catalogue(m, market)[k]
  <2>1. line - low + 1 \in 1 .. high - low + 1 /\ line = low + (line - low + 1) - 1
    BY <1>4
  <2>2. QED BY <1>5, <2>1
<1>7. QED
  BY <1>2, <1>3, <1>4, <1>5, <1>6

LEMMA MaxOfNumbers ==
  ASSUME NEW n \in Nat, NEW S \in SUBSET (1 .. n), S # {}
  PROVE  Max(S) \in S /\ \A k \in S : k <= Max(S)
<1> DEFINE below == {n - k : k \in S}
<1>1. below \in SUBSET Nat /\ below # {}
  OBVIOUS
<1>2. PICK least \in below : \A k \in below : least <= k
  <2> HIDE DEF below
  <2> QED BY <1>1, LeastNumber
<1>3. PICK most \in S : least = n - most
  OBVIOUS
<1>4. \A k \in S : most >= k
  <2>1. SUFFICES ASSUME NEW k \in S PROVE most >= k
    OBVIOUS
  <2>2. n - most <= n - k
    BY <1>2, <1>3
  <2>3. QED BY <2>2
<1>5. Max(S) \in S /\ \A k \in S : Max(S) >= k
  BY <1>4 DEF Max
<1>6. QED BY <1>5

Prices(m, market) == {Price(m, ReferenceOf(market), line) : line \in Int}

ScanOf(m, market, n, best) ==
  /\ best[0] = {}
  /\ \A k \in 1 .. n :
       best[k] = Visited(m, market, best[k - 1], Catalogue(m, market)[k])
  /\ MainLine(m, market) =
       {[reference |-> price,
         opposite  |-> Price(m, OppositeOf(market), OppositeLine(market, price.line))]
           : price \in best[n]}

\* The loop of _select, one candidate after the other.
LEMMA MainLineScans ==
  ASSUME NEW m, Scored(m), NEW market \in {"handicap", "total"},
         NEW n, n = Highest(m, market) - Lowest(m, market) + 1
  PROVE  \E best : ScanOf(m, market, n, best)
<1> DEFINE lines == Catalogue(m, market)
           pick == [U \in SUBSET DOMAIN lines |-> Max(U)]
           V == SUBSET Prices(m, market)
           next == [p \in (DOMAIN lines) \X V |->
                      Visited(m, market, p[2], lines[p[1]])]
<1>1. /\ n \in Nat /\ n > 0 /\ DOMAIN lines = 1 .. n
      /\ \A k \in 1 .. n : lines[k] \in Int
  <2>1. /\ lines = [position \in 1 .. n |-> Lowest(m, market) + position - 1]
        /\ n \in Nat /\ n > 0 /\ Lowest(m, market) \in Int
    BY CatalogueLines
  <2> HIDE DEF lines
  <2> QED BY <2>1
<1>2. \A U \in SUBSET DOMAIN lines : U # {} => pick[U] \in U
  <2> HIDE DEF lines
  <2> QED BY <1>1, MaxOfNumbers
<1>3. next \in [(DOMAIN lines) \X V -> V]
  <2>1. ASSUME NEW best \in V, NEW line \in Int PROVE Visited(m, market, best, line) \in V
    BY DEF Visited, Prices
  <2> HIDE DEF lines, V
  <2> QED BY <1>1, <2>1
<1>4. IsFiniteSet(DOMAIN lines)
  BY <1>1, FS_Interval
<1>5. PICK iter \in [SUBSET DOMAIN lines -> V] :
         iter = [U \in SUBSET DOMAIN lines |->
                   IF U = {} THEN {} ELSE next[<<pick[U], iter[U \ {pick[U]}]>>]]
  <2>1. {} \in V
    OBVIOUS
  <2>2. Folded(DOMAIN lines, V, {}, pick, next)
    <3> HIDE DEF lines, V, pick, next
    <3> QED BY <1>2, <1>3, <1>4, <2>1, FoldExists
  <2>3. QED BY <2>2 DEF Folded
<1>6. \A U \in SUBSET DOMAIN lines : U # {} =>
         next[<<pick[U], iter[U \ {pick[U]}]>>] =
           Visited(m, market, iter[U \ {Max(U)}], lines[Max(U)])
  <2>1. SUFFICES ASSUME NEW U \in SUBSET DOMAIN lines, U # {}
                 PROVE  next[<<pick[U], iter[U \ {pick[U]}]>>] =
                          Visited(m, market, iter[U \ {Max(U)}], lines[Max(U)])
    OBVIOUS
  <2>2. /\ pick[U] = Max(U) /\ Max(U) \in DOMAIN lines
        /\ iter[U \ {Max(U)}] \in V
    <3> HIDE DEF lines, V
    <3> QED BY <1>2, <2>1
  <2> HIDE DEF lines, V, pick
  <2> QED BY <2>2
<1>7. Scans(m, market, lines, iter)
  <2> HIDE DEF lines, V, pick, next
  <2> QED BY <1>5, <1>6 DEF Scans
<1>8. PICK scan : scan = CHOOSE f : Scans(m, market, lines, f)
  OBVIOUS
<1>9. Scans(m, market, lines, scan)
  <2> HIDE DEF lines
  <2> QED BY <1>7, <1>8
<1>10. MainLine(m, market) =
         {[reference |-> price,
           opposite  |-> Price(m, OppositeOf(market), OppositeLine(market, price.line))]
             : price \in scan[DOMAIN lines]}
  <2>1. PICK seq : seq = lines
    OBVIOUS
  <2>2. PICK found : found = (CHOOSE f : f = [U \in SUBSET DOMAIN seq |->
               IF U = {} THEN {}
               ELSE LET price == Price(m, ReferenceOf(market), seq[Max(U)])
                        best  == f[U \ {Max(U)}]
                    IN  IF HasOdds(price) /\ (best = {} \/
                                              \A b \in best : Better(price, b))
                        THEN {price} ELSE best])[DOMAIN seq]
    OBVIOUS
  <2>3. found = scan[DOMAIN lines]
    <3> HIDE DEF lines
    <3> QED BY <1>8, <2>1, <2>2 DEF Scans, Visited
  <2>4. MainLine(m, market) =
         {[reference |-> price,
           opposite  |-> Price(m, OppositeOf(market), OppositeLine(market, price.line))]
             : price \in found}
    BY <2>1, <2>2 DEF MainLine, FoldLeft, MapThenFoldSet
  <2>5. QED BY <2>3, <2>4
<1> DEFINE best == [k \in 0 .. n |-> scan[1 .. k]]
<1>11. best[0] = {}
  <2>1. 0 \in 0 .. n /\ 1 .. 0 = {} /\ {} \in SUBSET DOMAIN lines
    BY <1>1
  <2>2. scan[{}] = {}
    BY <1>9 DEF Scans
  <2>3. best[0] = scan[1 .. 0]
    BY <2>1
  <2>4. QED BY <2>1, <2>2, <2>3
<1>12. ASSUME NEW k \in 1 .. n
       PROVE  best[k] = Visited(m, market, best[k - 1], lines[k])
  <2>1. /\ 1 .. k \in SUBSET DOMAIN lines /\ 1 .. k # {}
        /\ k \in 0 .. n /\ k - 1 \in 0 .. n /\ (1 .. k) \ {k} = 1 .. k - 1
    BY <1>1
  <2>2. Max(1 .. k) = k
    <3>1. Max(1 .. k) \in 1 .. k /\ \A j \in 1 .. k : j <= Max(1 .. k)
      BY <1>1, <2>1, MaxOfNumbers
    <3>2. k \in 1 .. k
      OBVIOUS
    <3>3. QED BY <3>1, <3>2
  <2>3. scan[1 .. k] = Visited(m, market, scan[(1 .. k) \ {Max(1 .. k)}],
                               lines[Max(1 .. k)])
    BY <1>9, <2>1 DEF Scans
  <2>4. best[k] = scan[1 .. k] /\ best[k - 1] = scan[1 .. k - 1]
    BY <2>1
  <2>5. QED BY <2>1, <2>2, <2>3, <2>4
<1>13. best[n] = scan[DOMAIN lines]
  BY <1>1
<1>14. ScanOf(m, market, n, best)
  <2> HIDE DEF best
  <2> QED BY <1>10, <1>11, <1>12, <1>13 DEF ScanOf
<1>15. QED BY <1>14

\* After k candidates: none had odds, or the best of those that had.
Leads(m, market, k, best) ==
  LET at(i) == Price(m, ReferenceOf(market), Catalogue(m, market)[i])
  IN  \/ best = {} /\ \A i \in 1 .. k : ~ HasOdds(at(i))
      \/ \E j \in 1 .. k :
            /\ best = {at(j)} /\ HasOdds(at(j))
            /\ \A i \in 1 .. k : \/ ~ HasOdds(at(i))
                                 \/ at(i) = at(j)
                                 \/ Better(at(j), at(i))

LEMMA ScanLeads ==
  ASSUME NEW m, Scored(m), NEW market \in {"handicap", "total"},
         NEW n, n = Highest(m, market) - Lowest(m, market) + 1,
         NEW best, ScanOf(m, market, n, best)
  PROVE  n \in Nat /\ Leads(m, market, n, best[n])
<1> DEFINE at(i) == Price(m, ReferenceOf(market), Catalogue(m, market)[i])
           good == {k \in Nat : k <= n => Leads(m, market, k, best[k])}
<1>1. /\ n \in Nat /\ n > 0
      /\ \A k \in 1 .. n : Catalogue(m, market)[k] \in Int
  <2>1. /\ Catalogue(m, market) =
             [position \in 1 .. n |-> Lowest(m, market) + position - 1]
        /\ n \in Nat /\ n > 0 /\ Lowest(m, market) \in Int
    BY CatalogueLines
  <2>2. QED BY <2>1
<1>2. ReferenceOf(market) \in Selections
  BY DEF ReferenceOf, Selections, HandicapSelections, TotalSelections
<1>3. \A i \in 1 .. n : /\ at(i).line = Catalogue(m, market)[i]
                        /\ HasOdds(at(i)) => Offer(at(i))
  BY <1>1, <1>2, PriceFields DEF Offer, HasOdds
<1>4. \A i, j \in 1 .. n : at(i).line = at(j).line => at(i) = at(j)
  <2> SUFFICES ASSUME NEW i \in 1 .. n, NEW j \in 1 .. n, at(i).line = at(j).line
               PROVE  at(i) = at(j)
    OBVIOUS
  <2>1. Catalogue(m, market)[i] = Catalogue(m, market)[j]
    BY <1>3
  <2>2. QED BY <2>1
<1>5. 0 \in good
  <2>1. best[0] = {}
    BY DEF ScanOf
  <2>2. QED BY <2>1 DEF Leads
<1>6. ASSUME NEW k \in Nat, k \in good PROVE k + 1 \in good
  <2>1. SUFFICES ASSUME k + 1 <= n PROVE Leads(m, market, k + 1, best[k + 1])
    OBVIOUS
  <2>2. k + 1 \in 1 .. n /\ (k + 1) - 1 = k /\ 1 .. k \subseteq 1 .. n
        /\ 1 .. k + 1 = (1 .. k) \cup {k + 1} /\ k + 1 \in 1 .. k + 1
    BY <1>1, <2>1
  <2>3. best[k + 1] = Visited(m, market, best[k], Catalogue(m, market)[k + 1])
    BY <2>2 DEF ScanOf
  <2>4. Leads(m, market, k, best[k])
    BY <1>6, <2>1, <2>2
  <2>5. CASE ~ HasOdds(at(k + 1))
    <3>1. best[k + 1] = best[k]
      BY <2>3, <2>5 DEF Visited
    <3> HIDE DEF at
    <3>2. CASE best[k] = {} /\ \A i \in 1 .. k : ~ HasOdds(at(i))
      <4>1. \A i \in 1 .. k + 1 : ~ HasOdds(at(i))
        BY <2>2, <2>5, <3>2
      <4>2. QED BY <3>1, <3>2, <4>1 DEF Leads, at
    <3>3. ASSUME NEW j \in 1 .. k, best[k] = {at(j)}, HasOdds(at(j)),
                 \A i \in 1 .. k : \/ ~ HasOdds(at(i)) \/ at(i) = at(j)
                                   \/ Better(at(j), at(i))
          PROVE  Leads(m, market, k + 1, best[k + 1])
      <4>1. j \in 1 .. k + 1
            /\ \A i \in 1 .. k + 1 : \/ ~ HasOdds(at(i)) \/ at(i) = at(j)
                                     \/ Better(at(j), at(i))
        BY <2>2, <2>5, <3>3
      <4>2. QED BY <3>1, <3>3, <4>1 DEF Leads, at
    <3>4. QED BY <2>4, <3>2, <3>3 DEF Leads, at
  <2>6. CASE HasOdds(at(k + 1))
    <3>1. CASE best[k] = {} /\ \A i \in 1 .. k : ~ HasOdds(at(i))
      <4>1. best[k + 1] = {at(k + 1)}
        BY <2>3, <2>6, <3>1 DEF Visited
      <4> HIDE DEF at
      <4>2. \A i \in 1 .. k + 1 : \/ ~ HasOdds(at(i)) \/ at(i) = at(k + 1)
                                  \/ Better(at(k + 1), at(i))
        BY <2>2, <3>1
      <4>3. QED BY <2>2, <2>6, <4>1, <4>2 DEF Leads, at
    <3>2. ASSUME NEW j \in 1 .. k, best[k] = {at(j)}, HasOdds(at(j)),
                 \A i \in 1 .. k : \/ ~ HasOdds(at(i)) \/ at(i) = at(j)
                                   \/ Better(at(j), at(i))
          PROVE  Leads(m, market, k + 1, best[k + 1])
      <4>1. best[k + 1] = IF Better(at(k + 1), at(j)) THEN {at(k + 1)} ELSE {at(j)}
        BY <2>3, <2>6, <3>2 DEF Visited
      <4>2. j \in 1 .. n /\ Offer(at(j)) /\ Offer(at(k + 1))
            /\ \A i \in 1 .. k : HasOdds(at(i)) => Offer(at(i))
        BY <1>3, <2>2, <2>6, <3>2
      <4>3. CASE Better(at(k + 1), at(j))
        <5> HIDE DEF at
        <5>1. ASSUME NEW i \in 1 .. k, HasOdds(at(i)) PROVE Better(at(k + 1), at(i))
          <6>1. at(i) = at(j) \/ Better(at(j), at(i))
            BY <3>2, <5>1
          <6>2. \A c : Offer(c) /\ Better(at(k + 1), at(j)) /\ Better(at(j), c)
                         => Better(at(k + 1), c)
            BY <4>2, BetterOrders
          <6>3. QED BY <4>2, <4>3, <5>1, <6>1, <6>2
        <5>2. \A i \in 1 .. k + 1 : \/ ~ HasOdds(at(i)) \/ at(i) = at(k + 1)
                                    \/ Better(at(k + 1), at(i))
          BY <2>2, <5>1
        <5>3. QED BY <2>2, <2>6, <4>1, <4>3, <5>2 DEF Leads, at
      <4>4. CASE ~ Better(at(k + 1), at(j))
        <5>1. at(k + 1) = at(j) \/ Better(at(j), at(k + 1))
          <6>1. CASE at(k + 1).line = at(j).line
            BY <1>4, <2>2, <4>2, <6>1
          <6>2. CASE at(k + 1).line # at(j).line
            <7> HIDE DEF at
            <7> QED BY <4>2, <4>4, <6>2, BetterOrders
          <6>3. QED BY <6>1, <6>2
        <5> HIDE DEF at
        <5>2. j \in 1 .. k + 1
              /\ \A i \in 1 .. k + 1 : \/ ~ HasOdds(at(i)) \/ at(i) = at(j)
                                       \/ Better(at(j), at(i))
          BY <2>2, <3>2, <5>1
        <5>3. QED BY <3>2, <4>1, <4>4, <5>2 DEF Leads, at
      <4>5. QED BY <4>3, <4>4
    <3> HIDE DEF at
    <3>3. QED BY <2>4, <3>1, <3>2 DEF Leads, at
  <2>7. QED BY <2>5, <2>6
<1>7. Nat \subseteq good
  <2> HIDE DEF good
  <2> QED BY <1>5, <1>6, NumbersFollow
<1>8. QED
  BY <1>1, <1>7

-----------------------------------------------------------------------------
(* Beyond the catalogue. *)

LEMMA FarMargins ==
  ASSUME NEW base \in Int, NEW line \in Int, NEW sign \in {1, -1}
  PROVE  /\ base + sign * line > 1 =>
               Combined(ComponentResults(base, line, sign)) = "win"
         /\ base + sign * line < -1 =>
               Combined(ComponentResults(base, line, sign)) = "loss"
<1>1. /\ sign * line \in Int
      /\ sign * (line - 1) \in {sign * line - 1, sign * line + 1}
      /\ sign * (line + 1) \in {sign * line - 1, sign * line + 1}
  <2>1. CASE sign = 1 BY <2>1
  <2>2. CASE sign = -1 BY <2>2
  <2>3. QED BY <2>1, <2>2
<1>2. ASSUME base + sign * line > 1
      PROVE  ComponentResults(base, line, sign) = {"win"}
  BY <1>1, <1>2 DEF ComponentResults, Components, Elementary
<1>3. ASSUME base + sign * line < -1
      PROVE  ComponentResults(base, line, sign) = {"loss"}
  BY <1>1, <1>3 DEF ComponentResults, Components, Elementary
<1>4. QED
  BY <1>2, <1>3, CombinedValues

\* Below the catalogue nothing is won, above it the handicap wins everything.
LEMMA FarLinesSettle ==
  ASSUME NEW m, Scored(m), NEW line \in Int, NEW score \in DOMAIN m.cell
  PROVE  /\ line <= - (m.home + 1) * 4 => Settle(score, "home", line) = "loss"
         /\ line >= (m.away + 1) * 4 => Settle(score, "home", line) = "win"
         /\ line >= (m.home + m.away + 1) * 4 => Settle(score, "over", line) = "loss"
<1>1. /\ score[1] \in 0 .. m.home /\ score[2] \in 0 .. m.away
      /\ m.home \in Nat /\ m.away \in Nat
  BY DEF Scored
<1>2. /\ Base(score, "home") = (score[1] - score[2]) * 4
      /\ Base(score, "over") = (score[1] + score[2]) * 4
      /\ LineSign("home") = 1 /\ LineSign("over") = -1
  BY DEF Base, LineSign
<1>3. PICK a \in Int, b \in Int :
         a = (score[1] - score[2]) * 4 /\ b = (score[1] + score[2]) * 4
  BY <1>1
<1>4. /\ line <= - (m.home + 1) * 4 => a + 1 * line < -1
      /\ line >= (m.away + 1) * 4 => a + 1 * line > 1
      /\ line >= (m.home + m.away + 1) * 4 => b + (-1) * line < -1
  BY <1>1, <1>3
<1>5. QED
  BY <1>2, <1>3, <1>4, FarMargins DEF Settle

LEMMA FarPrices ==
  ASSUME NEW m, Scored(m), NEW selection \in Selections, NEW line \in Int,
         NEW price, price = Price(m, selection, line)
  PROVE  /\ (\A score \in DOMAIN m.cell : Settle(score, selection, line) = "loss")
               => ~ HasOdds(price)
         /\ (\A score \in DOMAIN m.cell : Settle(score, selection, line) = "win")
               => price.won = 2 * MassOf(m, DOMAIN m.cell) /\ price.lost = 0
<1>1. MassOf(m, {}) = 0
  <2>1. {} \in SUBSET DOMAIN m.cell
    OBVIOUS
  <2>2. QED BY <2>1, CellsAreNumbers, TotalEmpty
<1>2. \A state : Share(m, selection, line, state) \in Nat
  BY PriceShares
<1>3. /\ price.won = 2 * Share(m, selection, line, "win")
                       + Share(m, selection, line, "half_win")
      /\ price.lost = 2 * Share(m, selection, line, "loss")
                        + Share(m, selection, line, "half_loss")
  BY PriceFields
<1>4. ASSUME \A score \in DOMAIN m.cell : Settle(score, selection, line) = "loss"
      PROVE  ~ HasOdds(price)
  <2>1. /\ Ending(m, selection, line, "win") = {}
        /\ Ending(m, selection, line, "half_win") = {}
    BY <1>4 DEF Ending
  <2>2. QED BY <1>1, <1>3, <2>1 DEF Share, HasOdds
<1>5. ASSUME \A score \in DOMAIN m.cell : Settle(score, selection, line) = "win"
      PROVE  price.won = 2 * MassOf(m, DOMAIN m.cell) /\ price.lost = 0
  <2>1. /\ Ending(m, selection, line, "win") = DOMAIN m.cell
        /\ Ending(m, selection, line, "half_win") = {}
        /\ Ending(m, selection, line, "loss") = {}
        /\ Ending(m, selection, line, "half_loss") = {}
    BY <1>5 DEF Ending
  <2>2. /\ Share(m, selection, line, "win") = MassOf(m, DOMAIN m.cell)
        /\ Share(m, selection, line, "half_win") = 0
        /\ Share(m, selection, line, "loss") = 0
        /\ Share(m, selection, line, "half_loss") = 0
    BY <1>1, <2>1 DEF Share
  <2>3. QED BY <1>2, <1>3, <2>2
<1>6. QED BY <1>4, <1>5

\* The main line against every line.
Fair(m, market, reference, opposite) ==
  /\ \A line \in Int :
       LET price == Price(m, ReferenceOf(market), line)
       IN  \/ market = "total" /\ line < 0
           \/ ~ HasOdds(price)
           \/ price = reference
           \/ Better(reference, price)
  /\ opposite.won = reference.lost
  /\ opposite.lost = reference.won
  /\ opposite.pushed = reference.pushed

\* Beyond the two ends of the catalogue a line has no odds, or is as near to even odds as
\* the last of the catalogue, and longer.
LEMMA BeyondTheCatalogue ==
  ASSUME NEW m, Scored(m), NEW market \in {"handicap", "total"}, NEW line \in Int,
         line \notin Lowest(m, market) .. Highest(m, market),
         market = "total" => line >= 0,
         NEW price, price = Price(m, ReferenceOf(market), line),
         NEW last, last = Price(m, ReferenceOf(market), Highest(m, market)),
         HasOdds(price)
  PROVE  HasOdds(last) /\ Offer(last) /\ Offer(price) /\ Better(last, price)
<1>1. m.home \in Nat /\ m.away \in Nat
  BY DEF Scored
<1>2. PICK low \in Int, high \in Int : low = Lowest(m, market) /\ high = Highest(m, market)
  BY CatalogueLines
<1>3. ReferenceOf(market) \in Selections
  BY DEF ReferenceOf, Selections, HandicapSelections, TotalSelections
<1>4. line < low \/ line > high
  BY <1>2
<1>5. ~ (\A score \in DOMAIN m.cell : Settle(score, ReferenceOf(market), line) = "loss")
  BY <1>3, FarPrices
<1>6. market = "handicap" /\ line > high
  <2>1. ASSUME market = "total" PROVE FALSE
    <3>1. ReferenceOf(market) = "over" /\ high = (m.home + m.away + 1) * 4 /\ low = 0
      BY <1>2, <2>1 DEF ReferenceOf, Highest, Lowest
    <3>2. line >= (m.home + m.away + 1) * 4
      BY <1>1, <1>4, <2>1, <3>1
    <3>3. QED BY <1>5, <3>1, <3>2, FarLinesSettle
  <2>2. ASSUME line < low, market = "handicap" PROVE FALSE
    <3>1. ReferenceOf(market) = "home" /\ low = - (m.home + 1) * 4
      BY <1>2, <2>2 DEF ReferenceOf, Lowest
    <3>2. line <= - (m.home + 1) * 4
      BY <1>1, <2>2, <3>1
    <3>3. QED BY <1>5, <3>1, <3>2, FarLinesSettle
  <2>3. QED BY <1>4, <2>1, <2>2
<1>7. ReferenceOf(market) = "home" /\ high = (m.away + 1) * 4 /\ high >= 0
  BY <1>1, <1>2, <1>6 DEF ReferenceOf, Highest
<1>8. /\ \A score \in DOMAIN m.cell : Settle(score, ReferenceOf(market), line) = "win"
      /\ \A score \in DOMAIN m.cell : Settle(score, ReferenceOf(market), high) = "win"
  <2>1. line >= (m.away + 1) * 4 /\ high >= (m.away + 1) * 4
    BY <1>1, <1>6, <1>7
  <2>2. QED BY <1>7, <2>1, FarLinesSettle
<1>9. price.won = 2 * MassOf(m, DOMAIN m.cell) /\ price.lost = 0
  BY <1>3, <1>8, FarPrices
<1>10. last.won = 2 * MassOf(m, DOMAIN m.cell) /\ last.lost = 0
  BY <1>2, <1>3, <1>8, FarPrices
<1>11. /\ price.line = line /\ price.won \in Nat
  BY <1>3, PriceFields
<1>12. /\ last.line = high /\ last.won \in Nat
  BY <1>2, <1>3, PriceFields
<1>13. HasOdds(last) /\ Offer(last) /\ Offer(price)
  BY <1>9, <1>10, <1>11, <1>12 DEF HasOdds, Offer
<1>14. AsNear(last, price)
  <2>1. Unbalance(last) = Unbalance(price)
    BY <1>9, <1>10 DEF Unbalance
  <2>2. last.won = price.won
    BY <1>9, <1>10
  <2>3. QED BY <2>1, <2>2 DEF AsNear
<1>15. Precedes(last, price)
  BY <1>6, <1>7, <1>11, <1>12 DEF Precedes, Magnitude
<1>16. QED BY <1>13, <1>14, <1>15 DEF Better

\* _select finds the best of all lines.
LEMMA MainLineBest ==
  ASSUME NEW m, Scored(m), NEW market \in {"handicap", "total"},
         NEW r \in MainLine(m, market)
  PROVE  /\ r.reference.selection = ReferenceOf(market)
         /\ Fair(m, market, r.reference, r.opposite)
<1>1. PICK n : n = Highest(m, market) - Lowest(m, market) + 1
  OBVIOUS
<1>2. PICK best : ScanOf(m, market, n, best)
  BY <1>1, MainLineScans
<1>3. n \in Nat /\ Leads(m, market, n, best[n])
  BY <1>1, <1>2, ScanLeads
<1>4. PICK price \in best[n] :
         r = [reference |-> price,
              opposite  |-> Price(m, OppositeOf(market), OppositeLine(market, price.line))]
  BY <1>2 DEF ScanOf
<1> DEFINE at(i) == Price(m, ReferenceOf(market), Catalogue(m, market)[i])
<1>5. PICK j \in 1 .. n :
         /\ price = at(j) /\ HasOdds(price)
         /\ \A i \in 1 .. n : ~ HasOdds(at(i)) \/ at(i) = price \/ Better(price, at(i))
  BY <1>3, <1>4 DEF Leads
<1>6. /\ Lowest(m, market) \in Int /\ Highest(m, market) \in Int /\ n > 0
      /\ \A line \in Lowest(m, market) .. Highest(m, market) :
            \E k \in 1 .. n : line = Catalogue(m, market)[k]
      /\ Catalogue(m, market) =
            [position \in 1 .. n |-> Lowest(m, market) + position - 1]
  BY <1>1, CatalogueLines
<1>7. PICK own \in Int : own = Catalogue(m, market)[j]
  BY <1>6
<1>8. ReferenceOf(market) \in Selections
  BY DEF ReferenceOf, Selections, HandicapSelections, TotalSelections
<1>9. /\ price.line = own /\ price.selection = ReferenceOf(market)
      /\ price.won \in Nat /\ price.lost \in Nat
  BY <1>5, <1>7, <1>8, PriceFields
<1>10. Offer(price)
  BY <1>5, <1>9 DEF Offer, HasOdds
<1>11. ASSUME NEW line \in Int, market = "total" => line >= 0,
              HasOdds(Price(m, ReferenceOf(market), line)),
              Price(m, ReferenceOf(market), line) # price
       PROVE  Better(price, Price(m, ReferenceOf(market), line))
  <2>1. CASE line \in Lowest(m, market) .. Highest(m, market)
    BY <1>5, <1>6, <1>11, <2>1
  <2>2. CASE line \notin Lowest(m, market) .. Highest(m, market)
    <3>1. PICK other : other = Price(m, ReferenceOf(market), line)
      OBVIOUS
    <3>2. PICK last : last = Price(m, ReferenceOf(market), Highest(m, market))
      OBVIOUS
    <3>3. HasOdds(last) /\ Offer(last) /\ Offer(other) /\ Better(last, other)
      BY <1>11, <2>2, <3>1, <3>2, BeyondTheCatalogue
    <3>4. last = price \/ Better(price, last)
      <4>1. Highest(m, market) \in Lowest(m, market) .. Highest(m, market)
        BY <1>1, <1>6
      <4>2. PICK k \in 1 .. n : Highest(m, market) = Catalogue(m, market)[k]
        BY <1>6, <4>1
      <4>3. QED BY <1>5, <3>2, <3>3, <4>2
    <3>5. CASE last = price
      BY <3>1, <3>3, <3>5
    <3>6. CASE Better(price, last)
      <4>1. \A c : Offer(c) /\ Better(price, last) /\ Better(last, c) => Better(price, c)
        BY <1>10, <3>3, BetterOrders
      <4>2. QED BY <3>1, <3>3, <3>6, <4>1
    <3>7. QED BY <3>4, <3>5, <3>6
  <2>3. QED BY <2>1, <2>2
<1>12. PICK other : other = Price(m, OppositeOf(market), OppositeLine(market, own))
  OBVIOUS
<1>13. other.won = price.lost /\ other.lost = price.won /\ other.pushed = price.pushed
  BY <1>5, <1>7, <1>12, SidesHaveOppositePrices
<1>14. r.reference = price /\ r.opposite = other
  BY <1>4, <1>9, <1>12
<1>15. \A line \in Int :
         LET q == Price(m, ReferenceOf(market), line)
         IN  \/ market = "total" /\ line < 0
             \/ ~ HasOdds(q)
             \/ q = price
             \/ Better(price, q)
  BY <1>11
<1>16. QED
  BY <1>9, <1>13, <1>14, <1>15 DEF Fair

-----------------------------------------------------------------------------
(* The canonical order of a request. *)

OneMarket ==
  [code : Range(MarketCodes), line : Int, selection : Range(SelectionNames)]

LEMMA Positions ==
  /\ \A v \in Range(MarketCodes) :
        Position(v, MarketCodes) \in Int /\ MarketCodes[Position(v, MarketCodes)] = v
  /\ \A v \in Range(SelectionNames) :
        Position(v, SelectionNames) \in Int
        /\ SelectionNames[Position(v, SelectionNames)] = v
<1>1. ASSUME NEW names, NEW v \in Range(names), DOMAIN names \subseteq Int
      PROVE  Position(v, names) \in Int /\ names[Position(v, names)] = v
  <2>1. \E i \in DOMAIN names : names[i] = v
    BY DEF Range
  <2>2. QED BY <1>1, <2>1 DEF Position
<1>2. DOMAIN MarketCodes = 1 .. 8 /\ DOMAIN SelectionNames = 1 .. 5
  BY DEF MarketCodes, SelectionNames
<1>3. 1 .. 8 \subseteq Int /\ 1 .. 5 \subseteq Int
  OBVIOUS
<1>4. QED BY <1>1, <1>2, <1>3

LEMMA KeyOrders ==
  /\ \A p \in OneMarket : ~ KeyBefore(p, p)
  /\ \A p, q \in OneMarket : p # q => KeyBefore(p, q) \/ KeyBefore(q, p)
  /\ \A p, q, r \in OneMarket : KeyBefore(p, q) /\ KeyBefore(q, r) => KeyBefore(p, r)
<1> DEFINE code(p) == Position(p.code, MarketCodes)
           name(p) == Position(p.selection, SelectionNames)
<1>1. \A p \in OneMarket : code(p) \in Int /\ name(p) \in Int /\ p.line \in Int
  BY Positions DEF OneMarket
<1>2. \A p, q : KeyBefore(p, q) <=>
         \/ code(p) < code(q)
         \/ code(p) = code(q) /\ p.line < q.line
         \/ code(p) = code(q) /\ p.line = q.line /\ name(p) < name(q)
  BY DEF KeyBefore
<1>3. \A p, q \in OneMarket :
         code(p) = code(q) /\ p.line = q.line /\ name(p) = name(q) => p = q
  <2>1. SUFFICES ASSUME NEW p \in OneMarket, NEW q \in OneMarket,
                        code(p) = code(q), p.line = q.line, name(p) = name(q)
                 PROVE  p = q
    OBVIOUS
  <2>2. p.code = q.code /\ p.selection = q.selection
    <3>1. /\ p.code \in Range(MarketCodes) /\ q.code \in Range(MarketCodes)
          /\ p.selection \in Range(SelectionNames)
          /\ q.selection \in Range(SelectionNames)
      BY DEF OneMarket
    <3>2. QED BY <2>1, <3>1, Positions
  <2>3. QED BY <2>1, <2>2 DEF OneMarket
<1>4. QED
  <2> HIDE DEF code, name
  <2> QED BY <1>1, <1>2, <1>3

\* Each place of the canonical order has a request: as many come before it as requests
\* leave before a place, when no two are the same.
LEMMA CanonicalPlaces ==
  ASSUME NEW requested \in Seq(OneMarket), IsInjective(requested),
         NEW i \in DOMAIN CanonicalRequest(requested)
  PROVE  CanonicalRequest(requested)[i] \in Range(requested)
<1> DEFINE n == Len(requested)
           Earlier(j) == {k \in 1 .. n : KeyBefore(requested[k], requested[j])}
           rank == [j \in 1 .. n |-> Cardinality(Earlier(j))]
<1>1. /\ n \in Nat /\ DOMAIN requested = 1 .. n
      /\ \A j \in 1 .. n : requested[j] \in OneMarket
  OBVIOUS
<1>2. IsFiniteSet(1 .. n) /\ Cardinality(1 .. n) = n
  <2>1. 1 \in Int /\ n \in Int
    BY <1>1
  <2>2. Cardinality(1 .. n) = IF 1 > n THEN 0 ELSE n - 1 + 1
    BY <2>1, FS_Interval
  <2>3. QED BY <1>1, <2>1, <2>2, FS_Interval
<1>3. \A j \in 1 .. n : IsFiniteSet(Earlier(j)) /\ rank[j] = Cardinality(Earlier(j))
                        /\ rank[j] \in Nat
  <2>1. SUFFICES ASSUME NEW j \in 1 .. n
                 PROVE  /\ IsFiniteSet(Earlier(j)) /\ rank[j] = Cardinality(Earlier(j))
                        /\ rank[j] \in Nat
    OBVIOUS
  <2>2. Earlier(j) \in SUBSET (1 .. n)
    OBVIOUS
  <2>3. IsFiniteSet(Earlier(j))
    BY <1>2, <2>2, FS_Subset
  <2>4. QED BY <2>3, FS_CardinalityType
<1>4. \A j \in 1 .. n : rank[j] \in 0 .. n - 1
  <2>1. SUFFICES ASSUME NEW j \in 1 .. n PROVE rank[j] \in 0 .. n - 1
    OBVIOUS
  <2>2. j \notin Earlier(j)
    BY <1>1, KeyOrders
  <2>3. Earlier(j) \in SUBSET (1 .. n) /\ 1 .. n # Earlier(j)
    BY <2>2
  <2>4. Cardinality(Earlier(j)) <= n /\ n # Cardinality(Earlier(j))
    <3> HIDE DEF Earlier
    <3> QED BY <1>2, <2>3, FS_Subset
  <2>5. rank[j] <= n /\ n # rank[j] /\ rank[j] \in Nat
    BY <1>3, <2>4
  <2>6. QED
    <3> HIDE DEF rank, n
    <3> QED BY <1>1, <2>5
<1>5. \A j, k \in 1 .. n :
         KeyBefore(requested[j], requested[k]) => rank[j] < rank[k]
  <2>1. SUFFICES ASSUME NEW j \in 1 .. n, NEW k \in 1 .. n,
                        KeyBefore(requested[j], requested[k])
                 PROVE  rank[j] < rank[k]
    OBVIOUS
  <2>2. j \in Earlier(k) /\ j \notin Earlier(j)
    BY <1>1, <2>1, KeyOrders
  <2>3. Earlier(j) \subseteq Earlier(k)
    BY <1>1, <2>1, KeyOrders
  <2>4. Earlier(j) \in SUBSET Earlier(k) /\ Earlier(k) # Earlier(j)
    BY <2>2, <2>3
  <2>5. Cardinality(Earlier(j)) <= Cardinality(Earlier(k))
        /\ Cardinality(Earlier(k)) # Cardinality(Earlier(j))
    <3>1. IsFiniteSet(Earlier(k))
      BY <1>3
    <3> HIDE DEF Earlier
    <3> QED BY <2>4, <3>1, FS_Subset
  <2>6. rank[j] <= rank[k] /\ rank[k] # rank[j] /\ rank[j] \in Nat /\ rank[k] \in Nat
    BY <1>3, <2>5
  <2>7. QED
    <3> HIDE DEF rank
    <3> QED BY <2>6
<1>6. \A j, k \in 1 .. n : rank[j] = rank[k] => j = k
  <2>1. SUFFICES ASSUME NEW j \in 1 .. n, NEW k \in 1 .. n, j # k PROVE rank[j] # rank[k]
    OBVIOUS
  <2>2. requested[j] # requested[k]
    BY <1>1, <2>1 DEF IsInjective
  <2>3. rank[j] < rank[k] \/ rank[k] < rank[j]
    <3> HIDE DEF rank
    <3> QED BY <1>1, <1>5, <2>2, KeyOrders
  <2>4. rank[j] \in Nat /\ rank[k] \in Nat
    BY <1>3
  <2>5. QED
    <3> HIDE DEF rank
    <3> QED BY <2>3, <2>4
<1>7. \A v \in 0 .. n - 1 : \E j \in 1 .. n : rank[j] = v
  <2>1. rank \in Injection(1 .. n, 0 .. n - 1)
    <3>1. DOMAIN rank = 1 .. n /\ rank = [j \in 1 .. n |-> rank[j]]
      OBVIOUS
    <3>2. rank \in [1 .. n -> 0 .. n - 1]
      <4> HIDE DEF rank
      <4> QED BY <1>4, <3>1
    <3>3. QED
      <4> HIDE DEF rank
      <4> QED BY <1>6, <3>2 DEF Injection, IsInjective
  <2>2. IsFiniteSet(0 .. n - 1) /\ Cardinality(0 .. n - 1) = n
    BY <1>1, CountIsInterval
  <2>3. rank \in Surjection(1 .. n, 0 .. n - 1)
    <3> HIDE DEF rank, n
    <3> QED BY <1>2, <2>1, <2>2, FS_Injection
  <2>4. QED
    <3> HIDE DEF rank
    <3> QED BY <2>3 DEF Surjection
<1>8. i \in 1 .. n
  BY <1>1 DEF CanonicalRequest
<1>9. PICK j \in 1 .. n : rank[j] = i - 1
  <2>1. i - 1 \in 0 .. n - 1
    BY <1>1, <1>8
  <2> HIDE DEF rank
  <2> QED BY <1>7, <2>1
<1>10. \E k \in DOMAIN requested :
          Cardinality({other \in DOMAIN requested :
                         KeyBefore(requested[other], requested[k])}) = i - 1
  BY <1>1, <1>9
<1>11. PICK k \in DOMAIN requested : CanonicalRequest(requested)[i] = requested[k]
  <2>1. PICK k : k = CHOOSE at \in DOMAIN requested :
                        Cardinality({other \in DOMAIN requested :
                           KeyBefore(requested[other], requested[at])}) = i - 1
    OBVIOUS
  <2>2. k \in DOMAIN requested
    BY <1>10, <2>1
  <2>3. CanonicalRequest(requested)[i] = requested[k]
    BY <1>1, <1>8, <2>1 DEF CanonicalRequest
  <2>4. QED BY <2>2, <2>3
<1>12. QED
  BY <1>11 DEF Range

-----------------------------------------------------------------------------
(* The states of a stake that is split, and of one that is not. *)

LEMMA EvenLinesSettle ==
  ASSUME NEW score \in Score, NEW selection \in Selections, NEW line \in Int,
         line % 2 = 0
  PROVE  Settle(score, selection, line) =
           Elementary(Base(score, selection) + LineSign(selection) * line)
<1>1. ComponentResults(Base(score, selection), line, LineSign(selection)) =
        {Elementary(Base(score, selection) + LineSign(selection) * line)}
  BY DEF ComponentResults, Components
<1>2. Elementary(Base(score, selection) + LineSign(selection) * line)
        \in {"win", "push", "loss"}
  BY DEF Elementary
<1>3. QED BY <1>1, <1>2, CombinedValues DEF Settle

\* The two halves of a stake on a line of an odd number of quarters are bets on the two
\* lines beside it.
HalvesOf(split, below, above) ==
  /\ {below, above} \subseteq {"win", "push", "loss"}
  /\ split = Combined({below, above})
  /\ ~ (below = "push" /\ above = "push")
  /\ ~ ("win" \in {below, above} /\ "loss" \in {below, above})

LEMMA OddLinesSettle ==
  ASSUME NEW score \in Score, NEW selection \in Selections, NEW line \in Int,
         line % 2 = 1
  PROVE  HalvesOf(Settle(score, selection, line), Settle(score, selection, line - 1),
                  Settle(score, selection, line + 1))
<1> DEFINE base == Base(score, selection)
           sign == LineSign(selection)
           low  == base + sign * (line - 1)
           high == base + sign * (line + 1)
<1>1. PICK goals \in Int : base = goals * 4
  BY BaseIsWholeGoals
<1>2. sign \in {1, -1}
  BY DEF LineSign
<1>3. /\ Settle(score, selection, line - 1) = Elementary(low)
      /\ Settle(score, selection, line + 1) = Elementary(high)
  <2>1. /\ line - 1 \in Int /\ line + 1 \in Int
        /\ (line - 1) % 2 = 0 /\ (line + 1) % 2 = 0
    OBVIOUS
  <2>2. QED BY <2>1, EvenLinesSettle
<1>4. Settle(score, selection, line) = Combined({Elementary(low), Elementary(high)})
  BY DEF Settle, ComponentResults, Components
<1>5. \/ low \in Int /\ high = low + 2 /\ low # -1
      \/ high \in Int /\ low = high + 2 /\ high # -1
  <2>1. PICK half \in Int : line = 2 * half + 1
    OBVIOUS
  <2>2. CASE sign = 1
    BY <1>1, <2>1, <2>2
  <2>3. CASE sign = -1
    BY <1>1, <2>1, <2>3
  <2>4. QED BY <1>2, <2>2, <2>3
<1>6. /\ {Elementary(low), Elementary(high)} \subseteq {"win", "push", "loss"}
      /\ ~ (Elementary(low) = "push" /\ Elementary(high) = "push")
      /\ ~ (/\ "win" \in {Elementary(low), Elementary(high)}
            /\ "loss" \in {Elementary(low), Elementary(high)})
  <2> HIDE DEF low, high
  <2> QED BY <1>5 DEF Elementary
<1>7. QED
  <2> HIDE DEF low, high
  <2> QED BY <1>3, <1>4, <1>6 DEF HalvesOf

\* What the halves make of the whole.
LEMMA HalvesMake ==
  ASSUME NEW split, NEW below, NEW above, HalvesOf(split, below, above)
  PROVE  /\ split \in SettlementStates /\ split # "push"
         /\ split = "win" <=> below = "win" /\ above = "win"
         /\ split \in {"win", "half_win"} <=> below = "win" \/ above = "win"
         /\ split \in {"half_win", "half_loss"} <=> below = "push" \/ above = "push"
         /\ ~ (below = "push" /\ above = "push")
         /\ split = "loss" <=> below = "loss" /\ above = "loss"
         /\ split \in {"loss", "half_loss"} <=> below = "loss" \/ above = "loss"
<1>1. {below, above} \in {{"win"}, {"win", "push"}, {"push", "loss"}, {"loss"}}
  BY DEF HalvesOf
<1>2. CASE {below, above} = {"win"}
  <2>1. below = "win" /\ above = "win" /\ split = "win"
    BY <1>2, CombinedValues DEF HalvesOf
  <2>2. QED BY <2>1 DEF SettlementStates
<1>3. CASE {below, above} = {"win", "push"}
  <2>1. /\ split = "half_win"
        /\ \/ below = "win" /\ above = "push"
           \/ below = "push" /\ above = "win"
    BY <1>3, CombinedValues DEF HalvesOf
  <2>2. QED BY <2>1 DEF SettlementStates
<1>4. CASE {below, above} = {"push", "loss"}
  <2>1. /\ split = "half_loss"
        /\ \/ below = "loss" /\ above = "push"
           \/ below = "push" /\ above = "loss"
    BY <1>4, CombinedValues DEF HalvesOf
  <2>2. QED BY <2>1 DEF SettlementStates
<1>5. CASE {below, above} = {"loss"}
  <2>1. below = "loss" /\ above = "loss" /\ split = "loss"
    BY <1>5, CombinedValues DEF HalvesOf
  <2>2. QED BY <2>1 DEF SettlementStates
<1>6. QED BY <1>1, <1>2, <1>3, <1>4, <1>5

-----------------------------------------------------------------------------
(* The markets and the matrix. *)

\* On a line of whole or half goals no stake is split.
LEMMA EvenPrices ==
  ASSUME NEW m, Scored(m), NEW selection \in Selections, NEW line \in Int,
         line % 2 = 0, NEW price, price = Price(m, selection, line)
  PROVE  /\ price.won = 2 * Share(m, selection, line, "win")
         /\ price.pushed = 2 * Share(m, selection, line, "push")
         /\ price.lost = 2 * Share(m, selection, line, "loss")
<1>1. \A score \in DOMAIN m.cell :
         Settle(score, selection, line) \in {"win", "push", "loss"}
  <2>1. SUFFICES ASSUME NEW score \in DOMAIN m.cell
                 PROVE  Settle(score, selection, line) \in {"win", "push", "loss"}
    OBVIOUS
  <2>2. score \in Score
    BY DEF Scored, Score
  <2>3. Settle(score, selection, line) =
          Elementary(Base(score, selection) + LineSign(selection) * line)
    BY <2>2, EvenLinesSettle
  <2>4. QED BY <2>3 DEF Elementary
<1>2. /\ Ending(m, selection, line, "half_win") = {}
      /\ Ending(m, selection, line, "half_loss") = {}
  BY <1>1 DEF Ending
<1>3. MassOf(m, {}) = 0
  <2>1. {} \in SUBSET DOMAIN m.cell
    OBVIOUS
  <2>2. QED BY <2>1, CellsAreNumbers, TotalEmpty
<1>4. /\ Share(m, selection, line, "half_win") = 0
      /\ Share(m, selection, line, "half_loss") = 0
  BY <1>2, <1>3 DEF Share
<1>5. \A state : Share(m, selection, line, state) \in Nat
  BY PriceShares
<1>6. /\ price.won = 2 * Share(m, selection, line, "win")
                       + Share(m, selection, line, "half_win")
      /\ price.pushed = 2 * Share(m, selection, line, "push")
                          + Share(m, selection, line, "half_win")
                          + Share(m, selection, line, "half_loss")
      /\ price.lost = 2 * Share(m, selection, line, "loss")
                        + Share(m, selection, line, "half_loss")
  BY PriceFields
<1>7. QED BY <1>4, <1>5, <1>6

\* Sums over sets of scores.
LEMMA MassOfParts ==
  ASSUME NEW m, Scored(m), NEW A \in SUBSET DOMAIN m.cell, NEW B \in SUBSET DOMAIN m.cell
  PROVE  /\ MassOf(m, A) \in Nat /\ MassOf(m, B) \in Nat
         /\ MassOf(m, A \cup B) \in Nat /\ MassOf(m, A \cap B) \in Nat
         /\ MassOf(m, {}) = 0
         /\ MassOf(m, A) + MassOf(m, B) = MassOf(m, A \cup B) + MassOf(m, A \cap B)
<1>1. /\ A \cup B \in SUBSET DOMAIN m.cell /\ A \cap B \in SUBSET DOMAIN m.cell
      /\ {} \in SUBSET DOMAIN m.cell
  OBVIOUS
<1>2. /\ MassOf(m, A) = Total(m.cell, A) /\ MassOf(m, A) \in Nat
      /\ MassOf(m, B) = Total(m.cell, B) /\ MassOf(m, B) \in Nat
      /\ MassOf(m, A \cup B) = Total(m.cell, A \cup B) /\ MassOf(m, A \cup B) \in Nat
      /\ MassOf(m, A \cap B) = Total(m.cell, A \cap B) /\ MassOf(m, A \cap B) \in Nat
      /\ MassOf(m, {}) = Total(m.cell, {})
  BY <1>1, CellsAreNumbers
<1>3. Numbers(m.cell, DOMAIN m.cell)
  <2>1. DOMAIN m.cell \in SUBSET DOMAIN m.cell
    OBVIOUS
  <2>2. QED BY <2>1, CellsAreNumbers
<1>4. Total(m.cell, A) + Total(m.cell, B) =
        Total(m.cell, A \cup B) + Total(m.cell, A \cap B)
  BY <1>3, TotalOfBoth
<1>5. QED BY <1>2, <1>4, TotalEmpty

Averaged(m, selection, line, below, above) ==
  [selection |-> selection, line |-> line,
   won    |-> (below.won + above.won) \div 2,
   pushed |-> (below.pushed + above.pushed) \div 2,
   lost   |-> (below.lost + above.lost) \div 2]

\* A line of an odd number of quarters is priced as the mean of the lines beside it.
LEMMA SplitIsTheMean ==
  ASSUME NEW m, Scored(m), NEW selection \in Selections, NEW line \in Int,
         line % 2 = 1
  PROVE  Price(m, selection, line) =
           Averaged(m, selection, line, Price(m, selection, line - 1),
                    Price(m, selection, line + 1))
<1> DEFINE Of(state)    == Ending(m, selection, line, state)
           Below(state) == Ending(m, selection, line - 1, state)
           Above(state) == Ending(m, selection, line + 1, state)
<1>1. /\ \A state : /\ Of(state) \in SUBSET DOMAIN m.cell
                    /\ Below(state) \in SUBSET DOMAIN m.cell
                    /\ Above(state) \in SUBSET DOMAIN m.cell
      /\ \A state, other : state # other => Of(state) \cap Of(other) = {}
  BY DEF Ending
<1>2. ASSUME NEW score \in DOMAIN m.cell
      PROVE  LET split == Settle(score, selection, line)
                 below == Settle(score, selection, line - 1)
                 above == Settle(score, selection, line + 1)
             IN  /\ split # "push"
                 /\ split = "win" <=> below = "win" /\ above = "win"
                 /\ split \in {"win", "half_win"} <=> below = "win" \/ above = "win"
                 /\ split \in {"half_win", "half_loss"} <=>
                       below = "push" \/ above = "push"
                 /\ ~ (below = "push" /\ above = "push")
                 /\ split = "loss" <=> below = "loss" /\ above = "loss"
                 /\ split \in {"loss", "half_loss"} <=> below = "loss" \/ above = "loss"
  <2>1. score \in Score
    BY DEF Scored, Score
  <2>2. HalvesOf(Settle(score, selection, line), Settle(score, selection, line - 1),
                 Settle(score, selection, line + 1))
    BY <2>1, OddLinesSettle
  <2>3. QED BY <2>2, HalvesMake
<1>3. /\ Below("win") \cup Above("win") = Of("win") \cup Of("half_win")
      /\ Below("win") \cap Above("win") = Of("win")
      /\ Below("push") \cup Above("push") = Of("half_win") \cup Of("half_loss")
      /\ Below("push") \cap Above("push") = {}
      /\ Below("loss") \cup Above("loss") = Of("loss") \cup Of("half_loss")
      /\ Below("loss") \cap Above("loss") = Of("loss")
      /\ Of("push") = {}
  BY <1>2 DEF Ending
<1>4. /\ MassOf(m, Below("win")) + MassOf(m, Above("win")) =
           2 * MassOf(m, Of("win")) + MassOf(m, Of("half_win"))
      /\ MassOf(m, Below("push")) + MassOf(m, Above("push")) =
           MassOf(m, Of("half_win")) + MassOf(m, Of("half_loss"))
      /\ MassOf(m, Below("loss")) + MassOf(m, Above("loss")) =
           2 * MassOf(m, Of("loss")) + MassOf(m, Of("half_loss"))
      /\ MassOf(m, Of("push")) = 0
      /\ \A state : /\ MassOf(m, Of(state)) \in Nat /\ MassOf(m, Below(state)) \in Nat
                    /\ MassOf(m, Above(state)) \in Nat
  <2> HIDE DEF Of, Below, Above
  <2>1. ASSUME NEW A \in SUBSET DOMAIN m.cell, NEW B \in SUBSET DOMAIN m.cell,
               NEW C \in SUBSET DOMAIN m.cell, NEW D \in SUBSET DOMAIN m.cell,
               NEW E \in SUBSET DOMAIN m.cell,
               A \cup B = C \cup D, A \cap B = E, C \cap D = {}
        PROVE  MassOf(m, A) + MassOf(m, B) = MassOf(m, C) + MassOf(m, D) + MassOf(m, E)
    <3>1. MassOf(m, A) + MassOf(m, B) = MassOf(m, A \cup B) + MassOf(m, A \cap B)
      BY MassOfParts
    <3>2. /\ MassOf(m, C) + MassOf(m, D) = MassOf(m, C \cup D) + MassOf(m, C \cap D)
          /\ MassOf(m, C \cup D) \in Nat /\ MassOf(m, C) \in Nat /\ MassOf(m, D) \in Nat
          /\ MassOf(m, {}) = 0
      BY MassOfParts
    <3>3. MassOf(m, E) \in Nat
      BY MassOfParts
    <3>4. /\ MassOf(m, A \cup B) = MassOf(m, C \cup D)
          /\ MassOf(m, A \cap B) = MassOf(m, E)
          /\ MassOf(m, C \cap D) = MassOf(m, {})
      BY <2>1
    <3>5. QED BY <3>1, <3>2, <3>3, <3>4
  <2>2. ASSUME NEW state
        PROVE  /\ MassOf(m, Of(state)) \in Nat /\ MassOf(m, Below(state)) \in Nat
               /\ MassOf(m, Above(state)) \in Nat
    <3>1. /\ Of(state) \in SUBSET DOMAIN m.cell /\ Below(state) \in SUBSET DOMAIN m.cell
          /\ Above(state) \in SUBSET DOMAIN m.cell
      BY <1>1
    <3>2. QED BY <3>1, MassOfParts
  <2>3. /\ MassOf(m, {}) = 0 /\ {} \in SUBSET DOMAIN m.cell
    BY MassOfParts
  <2>4. MassOf(m, Below("win")) + MassOf(m, Above("win")) =
          MassOf(m, Of("win")) + MassOf(m, Of("half_win")) + MassOf(m, Of("win"))
    <3>1. Of("win") \cap Of("half_win") = {}
      BY <1>1
    <3>2. QED BY <1>1, <1>3, <2>1, <3>1
  <2>5. MassOf(m, Below("push")) + MassOf(m, Above("push")) =
          MassOf(m, Of("half_win")) + MassOf(m, Of("half_loss")) + MassOf(m, {})
    <3>1. Of("half_win") \cap Of("half_loss") = {}
      BY <1>1
    <3>2. QED BY <1>1, <1>3, <2>1, <2>3, <3>1
  <2>6. MassOf(m, Below("loss")) + MassOf(m, Above("loss")) =
          MassOf(m, Of("loss")) + MassOf(m, Of("half_loss")) + MassOf(m, Of("loss"))
    <3>1. Of("loss") \cap Of("half_loss") = {}
      BY <1>1
    <3>2. QED BY <1>1, <1>3, <2>1, <3>1
  <2>7. MassOf(m, Of("push")) = 0
    BY <1>3, <2>3
  <2>8. /\ MassOf(m, Of("win")) \in Nat /\ MassOf(m, Of("half_win")) \in Nat
        /\ MassOf(m, Of("half_loss")) \in Nat /\ MassOf(m, Of("loss")) \in Nat
    BY <2>2
  <2>9. QED BY <2>2, <2>3, <2>4, <2>5, <2>6, <2>7, <2>8
<1>5. PICK below, above : /\ below = Price(m, selection, line - 1)
                          /\ above = Price(m, selection, line + 1)
  OBVIOUS
<1>6. /\ line - 1 \in Int /\ line + 1 \in Int
      /\ (line - 1) % 2 = 0 /\ (line + 1) % 2 = 0
  OBVIOUS
<1>7. /\ below.won = 2 * MassOf(m, Below("win"))
      /\ below.pushed = 2 * MassOf(m, Below("push"))
      /\ below.lost = 2 * MassOf(m, Below("loss"))
  BY <1>5, <1>6, EvenPrices DEF Share
<1>8. /\ above.won = 2 * MassOf(m, Above("win"))
      /\ above.pushed = 2 * MassOf(m, Above("push"))
      /\ above.lost = 2 * MassOf(m, Above("loss"))
  BY <1>5, <1>6, EvenPrices DEF Share
<1>9. Price(m, selection, line) =
        [selection |-> selection, line |-> line,
         won    |-> 2 * MassOf(m, Of("win")) + MassOf(m, Of("half_win")),
         pushed |-> 2 * MassOf(m, Of("push")) + MassOf(m, Of("half_win"))
                      + MassOf(m, Of("half_loss")),
         lost   |-> 2 * MassOf(m, Of("loss")) + MassOf(m, Of("half_loss"))]
  BY PriceShares DEF Share
<1>10. \A a, b, c \in Nat : a + b = c => (2 * a + 2 * b) \div 2 = c
  OBVIOUS
<1>11. /\ (below.won + above.won) \div 2 =
            2 * MassOf(m, Of("win")) + MassOf(m, Of("half_win"))
       /\ (below.pushed + above.pushed) \div 2 =
            2 * MassOf(m, Of("push")) + MassOf(m, Of("half_win"))
              + MassOf(m, Of("half_loss"))
       /\ (below.lost + above.lost) \div 2 =
            2 * MassOf(m, Of("loss")) + MassOf(m, Of("half_loss"))
  <2> HIDE DEF Of, Below, Above
  <2> QED BY <1>4, <1>7, <1>8, <1>10
<1>12. QED
  <2> HIDE DEF Of, Below, Above
  <2> QED BY <1>5, <1>9, <1>11 DEF Averaged

HomeWins(m) == {score \in DOMAIN m.cell : score[1] > score[2]}

Draws(m) == {score \in DOMAIN m.cell : score[1] = score[2]}

AwayWins(m) == {score \in DOMAIN m.cell : score[1] < score[2]}

\* The three-way result holds the matrix on both sides of the diagonal, and on it.
LEMMA ThreeWayIsOfScores ==
  ASSUME NEW m, Scored(m), NEW result \in ThreeWay(m)
  PROVE  /\ result.home = MassOf(m, HomeWins(m))
         /\ result.draw = MassOf(m, Draws(m))
         /\ result.away = MassOf(m, AwayWins(m))
         /\ result.home \in Nat /\ result.draw \in Nat /\ result.away \in Nat
         /\ result.home + result.draw + result.away = m.total
<1> DEFINE S == DOMAIN m.cell
           D == -m.away .. m.home
           key == [score \in S |-> score[1] - score[2]]
<1>1. m.home \in Nat /\ m.away \in Nat /\ D \subseteq Int /\ IsFiniteSet(D)
  <2>1. m.home \in Nat /\ m.away \in Nat
    BY DEF Scored
  <2>2. -m.away \in Int /\ m.home \in Int
    BY <2>1
  <2>3. IsFiniteSet(-m.away .. m.home)
    BY <2>2, FS_Interval
  <2>4. QED BY <2>1, <2>3
<1>2. \A score \in S : /\ score[1] \in Nat /\ score[2] \in Nat
                       /\ key[score] = score[1] - score[2] /\ key[score] \in D
  <2>1. SUFFICES ASSUME NEW score \in S
                 PROVE  /\ score[1] \in Nat /\ score[2] \in Nat
                        /\ key[score] = score[1] - score[2] /\ key[score] \in D
    OBVIOUS
  <2>2. score[1] \in 0 .. m.home /\ score[2] \in 0 .. m.away
    BY DEF Scored
  <2>3. QED BY <1>1, <2>2
<1>3. PICK difference : difference = GoalDifference(m)
  OBVIOUS
<1>4. DOMAIN difference = D /\ \A d \in D : difference[d] = MassOf(m, Keyed(S, key, d))
  <2>1. difference = [d \in D |-> MassOf(m, {score \in S : score[1] - score[2] = d})]
    BY <1>3 DEF GoalDifference
  <2>2. \A d : {score \in S : score[1] - score[2] = d} = Keyed(S, key, d)
    BY DEF Keyed
  <2>3. QED BY <2>1, <2>2
<1>5. Numbers(m.cell, S)
  <2>1. S \in SUBSET DOMAIN m.cell
    OBVIOUS
  <2>2. QED BY <2>1, CellsAreNumbers
<1>6. ASSUME NEW E \in SUBSET D
      PROVE  Total(difference, E) = MassOf(m, {score \in S : key[score] \in E})
  <2>1. IsFiniteSet(E)
    BY <1>1, FS_Subset
  <2>2. \A d \in E : difference[d] = Total(m.cell, Keyed(S, key, d))
    <3>1. SUFFICES ASSUME NEW d \in E PROVE difference[d] = Total(m.cell, Keyed(S, key, d))
      OBVIOUS
    <3>2. Keyed(S, key, d) \in SUBSET DOMAIN m.cell
      BY DEF Keyed
    <3> HIDE DEF S, D, key
    <3>3. QED BY <1>4, <3>2, CellsAreNumbers
  <2>3. Total(difference, E) = Total(m.cell, {score \in S : key[score] \in E})
    <3> HIDE DEF S, D, key
    <3> QED BY <1>5, <2>1, <2>2, TotalByKey
  <2>4. {score \in S : key[score] \in E} \in SUBSET DOMAIN m.cell
    OBVIOUS
  <2>5. QED
    <3> HIDE DEF S, D, key
    <3> QED BY <2>3, <2>4, CellsAreNumbers
<1>7. PICK home, draw, away : /\ home = Total(difference, {d \in D : d > 0})
                              /\ draw = difference[0]
                              /\ away = Total(difference, {d \in D : d < 0})
  OBVIOUS
<1>8. ThreeWay(m) = Market([home |-> home, draw |-> draw, away |-> away], m.total)
  BY <1>3, <1>4, <1>7 DEF ThreeWay, Total
<1>9. PICK selections : selections = [home |-> home, draw |-> draw, away |-> away]
  OBVIOUS
<1>10. result = selections /\ Total(selections, DOMAIN selections) = m.total
  BY <1>8, <1>9 DEF Market, Total
<1>11. /\ {score \in S : key[score] \in {d \in D : d > 0}} = HomeWins(m)
       /\ {score \in S : key[score] \in {d \in D : d < 0}} = AwayWins(m)
       /\ Keyed(S, key, 0) = Draws(m)
  <2>1. \A score \in S : /\ key[score] > 0 <=> score[1] > score[2]
                         /\ key[score] < 0 <=> score[1] < score[2]
                         /\ key[score] = 0 <=> score[1] = score[2]
    <3> HIDE DEF S, D, key
    <3> QED BY <1>2
  <2> HIDE DEF D, key
  <2> QED BY <1>2, <2>1 DEF HomeWins, AwayWins, Draws, Keyed
<1>12. /\ home = MassOf(m, HomeWins(m)) /\ away = MassOf(m, AwayWins(m))
       /\ draw = MassOf(m, Draws(m))
  <2>1. 0 \in D /\ {d \in D : d > 0} \in SUBSET D /\ {d \in D : d < 0} \in SUBSET D
    BY <1>1
  <2> HIDE DEF S, D, key
  <2> QED BY <1>4, <1>6, <1>7, <1>11, <2>1
<1>13. home \in Nat /\ draw \in Nat /\ away \in Nat
  <2>1. /\ HomeWins(m) \in SUBSET DOMAIN m.cell /\ Draws(m) \in SUBSET DOMAIN m.cell
        /\ AwayWins(m) \in SUBSET DOMAIN m.cell
    BY DEF HomeWins, Draws, AwayWins
  <2>2. QED BY <1>12, <2>1, CellsAreNumbers
<1>14. home + draw + away = m.total
  <2>1. PICK a, b, c, names : /\ a = "home" /\ b = "draw" /\ c = "away"
                              /\ names = DOMAIN selections
    OBVIOUS
  <2>2. /\ AreThree(names, a, b, c)
        /\ selections[a] = home /\ selections[b] = draw /\ selections[c] = away
    BY <1>9, <2>1 DEF AreThree
  <2>3. selections[a] \in Nat /\ selections[b] \in Nat /\ selections[c] \in Nat
    BY <1>13, <2>2
  <2>4. Total(selections, names) = selections[a] + selections[b] + selections[c]
    BY <2>2, <2>3, TotalOfThree
  <2>5. Total(selections, names) = m.total
    BY <1>10, <2>1
  <2>6. selections[a] + selections[b] + selections[c] = home + draw + away
    BY <2>2
  <2>7. QED BY <2>4, <2>5, <2>6
<1>15. result.home = home /\ result.draw = draw /\ result.away = away
  BY <1>9, <1>10
<1>16. QED BY <1>12, <1>13, <1>14, <1>15

\* The handicaps of nothing and of half a goal.
LEMMA ShortHandicaps ==
  ASSUME NEW m, Scored(m)
  PROVE  /\ Price(m, "home", -2).won = 2 * MassOf(m, HomeWins(m))
         /\ Price(m, "home", 0).pushed = 2 * MassOf(m, Draws(m))
         /\ Price(m, "away", -2).won = 2 * MassOf(m, AwayWins(m))
         /\ Price(m, "home", 2).won = 2 * MassOf(m, HomeWins(m)) + 2 * MassOf(m, Draws(m))
         /\ Price(m, "away", 2).won = 2 * MassOf(m, Draws(m)) + 2 * MassOf(m, AwayWins(m))
<1>1. ASSUME NEW score \in DOMAIN m.cell
      PROVE  /\ Settle(score, "home", -2) = "win" <=> score[1] > score[2]
             /\ Settle(score, "home", 0) = "push" <=> score[1] = score[2]
             /\ Settle(score, "away", -2) = "win" <=> score[1] < score[2]
             /\ Settle(score, "home", 2) = "win" <=>
                   score[1] > score[2] \/ score[1] = score[2]
             /\ Settle(score, "away", 2) = "win" <=>
                   score[1] = score[2] \/ score[1] < score[2]
  <2>1. score \in Score /\ score[1] \in Nat /\ score[2] \in Nat
    BY DEF Scored, Score
  <2>2. \A line \in {-2, 0, 2} :
           /\ Settle(score, "home", line) = Elementary((score[1] - score[2]) * 4 + 1 * line)
           /\ Settle(score, "away", line) = Elementary((score[2] - score[1]) * 4 + 1 * line)
    <3>1. \A line \in {-2, 0, 2} : line \in Int /\ line % 2 = 0
      OBVIOUS
    <3>2. "home" \in Selections /\ "away" \in Selections
      BY DEF Selections, HandicapSelections
    <3>3. QED BY <2>1, <3>1, <3>2, EvenLinesSettle DEF Base, LineSign
  <2>3. -2 \in {-2, 0, 2} /\ 0 \in {-2, 0, 2} /\ 2 \in {-2, 0, 2}
    OBVIOUS
  <2>4. PICK a \in Nat, b \in Nat : a = score[1] /\ b = score[2]
    BY <2>1
  <2>5. /\ Elementary((a - b) * 4 + 1 * (-2)) = "win" <=> a > b
        /\ Elementary((a - b) * 4 + 1 * 0) = "push" <=> a = b
        /\ Elementary((b - a) * 4 + 1 * (-2)) = "win" <=> a < b
        /\ Elementary((a - b) * 4 + 1 * 2) = "win" <=> a > b \/ a = b
        /\ Elementary((b - a) * 4 + 1 * 2) = "win" <=> a = b \/ a < b
    BY DEF Elementary
  <2>6. QED BY <2>2, <2>3, <2>4, <2>5
<1>2. /\ Ending(m, "home", -2, "win") = HomeWins(m)
      /\ Ending(m, "home", 0, "push") = Draws(m)
      /\ Ending(m, "away", -2, "win") = AwayWins(m)
      /\ Ending(m, "home", 2, "win") = HomeWins(m) \cup Draws(m)
      /\ Ending(m, "away", 2, "win") = Draws(m) \cup AwayWins(m)
  BY <1>1 DEF Ending, HomeWins, Draws, AwayWins
<1>3. /\ "home" \in Selections /\ "away" \in Selections
      /\ \A line \in {-2, 0, 2} : line \in Int /\ line % 2 = 0
      /\ -2 \in {-2, 0, 2} /\ 0 \in {-2, 0, 2} /\ 2 \in {-2, 0, 2}
  BY DEF Selections, HandicapSelections
<1>4. ASSUME NEW selection \in Selections, NEW line \in {-2, 0, 2}
      PROVE  /\ Price(m, selection, line).won =
                  2 * MassOf(m, Ending(m, selection, line, "win"))
             /\ Price(m, selection, line).pushed =
                  2 * MassOf(m, Ending(m, selection, line, "push"))
  <2>1. PICK price : price = Price(m, selection, line)
    OBVIOUS
  <2>2. /\ price.won = 2 * Share(m, selection, line, "win")
        /\ price.pushed = 2 * Share(m, selection, line, "push")
    BY <1>3, <2>1, EvenPrices
  <2>3. QED BY <2>1, <2>2 DEF Share
<1>5. /\ HomeWins(m) \in SUBSET DOMAIN m.cell /\ Draws(m) \in SUBSET DOMAIN m.cell
      /\ AwayWins(m) \in SUBSET DOMAIN m.cell
      /\ HomeWins(m) \cap Draws(m) = {} /\ Draws(m) \cap AwayWins(m) = {}
  <2>1. \A score \in DOMAIN m.cell : score[1] \in Nat /\ score[2] \in Nat
    BY DEF Scored
  <2>2. QED BY <2>1 DEF HomeWins, Draws, AwayWins
<1>6. /\ MassOf(m, HomeWins(m) \cup Draws(m)) =
            MassOf(m, HomeWins(m)) + MassOf(m, Draws(m))
      /\ MassOf(m, HomeWins(m)) \in Nat /\ MassOf(m, Draws(m)) \in Nat
  <2>1. /\ MassOf(m, HomeWins(m)) + MassOf(m, Draws(m)) =
             MassOf(m, HomeWins(m) \cup Draws(m)) + MassOf(m, HomeWins(m) \cap Draws(m))
        /\ MassOf(m, HomeWins(m)) \in Nat /\ MassOf(m, Draws(m)) \in Nat
        /\ MassOf(m, HomeWins(m) \cup Draws(m)) \in Nat /\ MassOf(m, {}) = 0
    BY <1>5, MassOfParts
  <2>2. MassOf(m, HomeWins(m) \cap Draws(m)) = MassOf(m, {})
    BY <1>5
  <2>3. QED BY <2>1, <2>2
<1>7. /\ MassOf(m, Draws(m) \cup AwayWins(m)) =
            MassOf(m, Draws(m)) + MassOf(m, AwayWins(m))
      /\ MassOf(m, AwayWins(m)) \in Nat
  <2>1. /\ MassOf(m, Draws(m)) + MassOf(m, AwayWins(m)) =
             MassOf(m, Draws(m) \cup AwayWins(m)) + MassOf(m, Draws(m) \cap AwayWins(m))
        /\ MassOf(m, Draws(m)) \in Nat /\ MassOf(m, AwayWins(m)) \in Nat
        /\ MassOf(m, Draws(m) \cup AwayWins(m)) \in Nat /\ MassOf(m, {}) = 0
    BY <1>5, MassOfParts
  <2>2. MassOf(m, Draws(m) \cap AwayWins(m)) = MassOf(m, {})
    BY <1>5
  <2>3. QED BY <2>1, <2>2
<1>8. /\ Price(m, "home", -2).won = 2 * MassOf(m, HomeWins(m))
      /\ Price(m, "home", 0).pushed = 2 * MassOf(m, Draws(m))
      /\ Price(m, "away", -2).won = 2 * MassOf(m, AwayWins(m))
  BY <1>2, <1>3, <1>4
<1>9. /\ Price(m, "home", 2).won = 2 * MassOf(m, HomeWins(m) \cup Draws(m))
      /\ Price(m, "away", 2).won = 2 * MassOf(m, Draws(m) \cup AwayWins(m))
  BY <1>2, <1>3, <1>4
<1>10. \A a, b \in Nat : 2 * (a + b) = 2 * a + 2 * b
  OBVIOUS
<1>11. QED BY <1>6, <1>7, <1>8, <1>9, <1>10

\* Double chance is the three-way result, two by two.
LEMMA DoubleChanceIsOfScores ==
  ASSUME NEW m, Scored(m), NEW result \in DoubleChance(m)
  PROVE  /\ result.home_or_draw = MassOf(m, HomeWins(m)) + MassOf(m, Draws(m))
         /\ result.draw_or_away = MassOf(m, Draws(m)) + MassOf(m, AwayWins(m))
         /\ result.home_or_away = m.total - MassOf(m, Draws(m))
         /\ \A S \in {HomeWins(m), Draws(m), AwayWins(m)} : MassOf(m, S) \in Nat
<1>1. PICK three \in ThreeWay(m) :
         result \in Market([home_or_draw |-> three.home + three.draw,
                            home_or_away |-> three.home + three.away,
                            draw_or_away |-> three.draw + three.away], 2 * m.total)
  BY DEF DoubleChance
<1>2. /\ three.home = MassOf(m, HomeWins(m))
      /\ three.draw = MassOf(m, Draws(m))
      /\ three.away = MassOf(m, AwayWins(m))
      /\ three.home \in Nat /\ three.draw \in Nat /\ three.away \in Nat
      /\ three.home + three.draw + three.away = m.total
  BY ThreeWayIsOfScores
<1>3. result = [home_or_draw |-> three.home + three.draw,
                home_or_away |-> three.home + three.away,
                draw_or_away |-> three.draw + three.away]
  BY <1>1 DEF Market
<1>4. /\ result.home_or_draw = three.home + three.draw
      /\ result.home_or_away = three.home + three.away
      /\ result.draw_or_away = three.draw + three.away
  BY <1>3
<1>5. QED BY <1>2, <1>4

\* Both teams score, or one of them does not.
LEMMA BothTeamsIsOfScores ==
  ASSUME NEW m, Scored(m), NEW result \in BothTeamsToScore(m)
  PROVE  result.no = m.total - MassOf(m, {s \in DOMAIN m.cell : s[1] * s[2] > 0})
<1> DEFINE blank(score) == score[1] = 0 \/ score[2] = 0
           with    == {score \in DOMAIN m.cell : ~ blank(score)}
           without == {score \in DOMAIN m.cell : blank(score)}
<1>1. with = {s \in DOMAIN m.cell : s[1] * s[2] > 0}
  <2>1. \A a, b \in Nat : a * b > 0 <=> ~ (a = 0 \/ b = 0)
    <3>1. SUFFICES ASSUME NEW a \in Nat, NEW b \in Nat
                   PROVE  a * b > 0 <=> ~ (a = 0 \/ b = 0)
      OBVIOUS
    <3>2. CASE a = 0 \/ b = 0
      BY <3>2
    <3>3. CASE a # 0 /\ b # 0
      <4>1. a * b \in Nat /\ a * b # 0
        BY <3>3
      <4>2. QED BY <3>3, <4>1
    <3>4. QED BY <3>2, <3>3
  <2>2. \A s \in DOMAIN m.cell : s[1] \in Nat /\ s[2] \in Nat
    BY DEF Scored
  <2>3. QED BY <2>1, <2>2
<1>2. MassOf(m, with) \in Nat /\ MassOf(m, without) \in Nat
  <2>1. with \in SUBSET DOMAIN m.cell /\ without \in SUBSET DOMAIN m.cell
    OBVIOUS
  <2> HIDE DEF with, without
  <2> QED BY <2>1, CellsAreNumbers
<1>3. PICK yes, no : yes = MassOf(m, with) /\ no = MassOf(m, without)
  OBVIOUS
<1>4. PICK selections : selections = [yes |-> yes, no |-> no]
  OBVIOUS
<1>5. result = selections /\ Total(selections, DOMAIN selections) = m.total
  BY <1>3, <1>4 DEF BothTeamsToScore, Market, Total
<1>6. yes + no = m.total
  <2>1. PICK a, b : a = "yes" /\ b = "no"
    OBVIOUS
  <2>2. /\ DOMAIN selections = {a, b} /\ a # b
        /\ selections[a] = yes /\ selections[b] = no
    BY <1>4, <2>1
  <2>3. Total(selections, {a, b}) = selections[a] + Total(selections, {b})
    <3>1. PICK both : both = {a, b}
      OBVIOUS
    <3>2. Numbers(selections, both) /\ a \in both /\ both \ {a} = {b}
      <4>1. IsFiniteSet({b}) /\ {b} \cup {a} = both
        BY <3>1, FS_Singleton
      <4>2. IsFiniteSet({b} \cup {a})
        BY <4>1, FS_AddElement
      <4>3. \A x \in both : selections[x] \in Nat
        BY <1>2, <1>3, <2>2, <3>1
      <4>4. QED BY <2>2, <3>1, <4>1, <4>2, <4>3 DEF Numbers
    <3>3. Total(selections, both) = selections[a] + Total(selections, both \ {a})
      BY <3>2, TotalWithout
    <3>4. QED BY <3>1, <3>2, <3>3
  <2>4. Total(selections, {b}) = selections[b] + 0
    <3>1. PICK one : one = {b}
      OBVIOUS
    <3>2. Numbers(selections, one) /\ b \in one /\ one \ {b} = {}
      <4>1. IsFiniteSet(one)
        BY <3>1, FS_Singleton
      <4>2. QED BY <1>2, <1>3, <2>2, <3>1, <4>1 DEF Numbers
    <3>3. Total(selections, one) = selections[b] + Total(selections, one \ {b})
      BY <3>2, TotalWithout
    <3>4. QED BY <3>1, <3>2, <3>3, TotalEmpty
  <2>5. Total(selections, {a, b}) = m.total
    BY <1>5, <2>2
  <2>6. yes \in Nat /\ no \in Nat
    BY <1>2, <1>3
  <2>7. yes + (no + 0) = m.total
    BY <2>2, <2>3, <2>4, <2>5
  <2>8. QED BY <2>6, <2>7
<1>7. result.no = no
  BY <1>4, <1>5
<1>8. result.no = m.total - MassOf(m, with)
  <2> HIDE DEF with, without
  <2> QED BY <1>2, <1>3, <1>6, <1>7
<1>9. QED BY <1>1, <1>8

Whole(m) == m.total = MassOf(m, DOMAIN m.cell)

\* The mass of the matrix is that of its cells.
LEMMA MatrixIsWhole ==
  ASSUME NEW home, NEW away, NEW H \in Nat, NEW A \in Nat,
         home \in [0 .. H -> Nat], away \in [0 .. A -> Nat]
  PROVE  Whole(Matrix(home, away))
<1>1. PICK m : m = Matrix(home, away)
  OBVIOUS
<1>2. Scored(m)
  BY <1>1, MatrixIsScored
<1>3. /\ DOMAIN home = 0 .. H /\ DOMAIN away = 0 .. A
  OBVIOUS
<1>4. m.total = Total(home, 0 .. H) * Total(away, 0 .. A)
  BY <1>1, <1>3 DEF Matrix, Total
<1>5. /\ DOMAIN m.cell = (0 .. H) \X (0 .. A)
      /\ \A h \in 0 .. H, a \in 0 .. A : m.cell[<<h, a>>] = home[h] * away[a]
  <2>1. m.cell = [score \in (0 .. H) \X (0 .. A) |-> home[score[1]] * away[score[2]]]
    BY <1>1, <1>3 DEF Matrix
  <2>2. QED BY <2>1
<1>6. Numbers(home, 0 .. H) /\ Numbers(away, 0 .. A)
  <2>1. IsFiniteSet(0 .. H) /\ IsFiniteSet(0 .. A)
    BY FS_Interval
  <2>2. QED BY <2>1 DEF Numbers
<1>7. Total(m.cell, (0 .. H) \X (0 .. A)) = Total(home, 0 .. H) * Total(away, 0 .. A)
  <2>1. PICK cell, rows, columns : /\ cell = m.cell /\ rows = 0 .. H
                                   /\ columns = 0 .. A
    OBVIOUS
  <2>2. /\ Numbers(home, rows) /\ Numbers(away, columns)
        /\ Products(cell, rows, home, columns, away)
    BY <1>5, <1>6, <2>1 DEF Products
  <2>3. Total(cell, rows \X columns) = Total(home, rows) * Total(away, columns)
    BY <2>2, TotalOfProducts
  <2>4. QED BY <2>1, <2>3
<1>8. MassOf(m, DOMAIN m.cell) = Total(m.cell, DOMAIN m.cell)
  <2>1. DOMAIN m.cell \in SUBSET DOMAIN m.cell
    OBVIOUS
  <2>2. QED BY <1>2, <2>1, CellsAreNumbers
<1>9. QED BY <1>1, <1>4, <1>5, <1>7, <1>8 DEF Whole

\* Totals of half a goal and the Asian totals on the same line.
LEMMA TotalGoalsIsAsian ==
  ASSUME NEW m, Scored(m), Whole(m), NEW line \in HalfGoalLines,
         NEW result \in TotalGoals(m, line)
  PROVE  /\ 2 * result.over = Price(m, "over", 2 * line).won
         /\ 2 * result.under = Price(m, "under", 2 * line).won
<1> DEFINE Under == {score \in DOMAIN m.cell : 2 * (score[1] + score[2]) < line}
           Over  == {score \in DOMAIN m.cell : 2 * (score[1] + score[2]) > line}
<1>1. line \in Int /\ 2 * line \in Int /\ (2 * line) % 2 = 0
      /\ \A n \in Nat : 2 * n # line
  BY DEF HalfGoalLines
<1>2. \A score \in DOMAIN m.cell : score[1] \in Nat /\ score[2] \in Nat
  BY DEF Scored
<1>3. Under \cup Over = DOMAIN m.cell /\ Under \cap Over = {}
  <2>1. ASSUME NEW score \in DOMAIN m.cell
        PROVE  /\ score \in Under \cup Over /\ score \notin Under \cap Over
    <3>1. PICK n \in Nat : n = score[1] + score[2]
      BY <1>2
    <3>2. 2 * n < line \/ 2 * n > line
      BY <1>1
    <3>3. ~ (2 * n < line /\ 2 * n > line)
      BY <1>1
    <3>4. QED BY <3>1, <3>2, <3>3
  <2>2. QED BY <2>1
<1>4. PICK under, over : under = MassOf(m, Under) /\ over = MassOf(m, Over)
  OBVIOUS
<1>5. under \in Nat /\ over \in Nat /\ under + over = m.total
  <2>1. Under \in SUBSET DOMAIN m.cell /\ Over \in SUBSET DOMAIN m.cell
    OBVIOUS
  <2> HIDE DEF Under, Over
  <2>2. /\ MassOf(m, Under) + MassOf(m, Over) =
             MassOf(m, Under \cup Over) + MassOf(m, Under \cap Over)
        /\ MassOf(m, Under) \in Nat /\ MassOf(m, Over) \in Nat
        /\ MassOf(m, Under \cup Over) \in Nat /\ MassOf(m, {}) = 0
    BY <2>1, MassOfParts
  <2>3. /\ MassOf(m, Under \cup Over) = m.total
        /\ MassOf(m, Under \cap Over) = MassOf(m, {})
    BY <1>3 DEF Whole
  <2>4. QED BY <1>4, <2>2, <2>3
<1>6. result.over = over /\ result.under = under
  <2>1. m.total - under = over /\ m.total - over = under
    BY <1>5
  <2>2. \/ result \in Market([over |-> m.total - under, under |-> under], m.total)
        \/ result \in Market([over |-> over, under |-> m.total - over], m.total)
    BY <1>4 DEF TotalGoals
  <2>3. result = [over |-> over, under |-> under]
    BY <2>1, <2>2 DEF Market
  <2>4. QED BY <2>3
<1>7. "over" \in Selections /\ "under" \in Selections
  BY DEF Selections, TotalSelections
<1>8. ASSUME NEW score \in DOMAIN m.cell
      PROVE  /\ Settle(score, "over", 2 * line) = "win" <=>
                   2 * (score[1] + score[2]) > line
             /\ Settle(score, "under", 2 * line) = "win" <=>
                   2 * (score[1] + score[2]) < line
  <2>1. score \in Score
    BY DEF Scored, Score
  <2>2. PICK n \in Nat : n = score[1] + score[2]
    BY <1>2
  <2>3. /\ Settle(score, "over", 2 * line) = Elementary(n * 4 + (-1) * (2 * line))
        /\ Settle(score, "under", 2 * line) = Elementary(- n * 4 + 1 * (2 * line))
    BY <1>1, <1>7, <2>1, <2>2, EvenLinesSettle DEF Base, LineSign
  <2>4. /\ Elementary(n * 4 + (-1) * (2 * line)) = "win" <=> 2 * n > line
        /\ Elementary(- n * 4 + 1 * (2 * line)) = "win" <=> 2 * n < line
    BY <1>1 DEF Elementary
  <2>5. QED BY <2>2, <2>3, <2>4
<1>9. /\ Ending(m, "over", 2 * line, "win") = Over
      /\ Ending(m, "under", 2 * line, "win") = Under
  BY <1>8 DEF Ending
<1>10. PICK p, q : p = Price(m, "over", 2 * line) /\ q = Price(m, "under", 2 * line)
  OBVIOUS
<1>11. p.won = 2 * Share(m, "over", 2 * line, "win")
  BY <1>1, <1>7, <1>10, EvenPrices
<1>12. q.won = 2 * Share(m, "under", 2 * line, "win")
  BY <1>1, <1>7, <1>10, EvenPrices
<1>13. p.won = 2 * over /\ q.won = 2 * under
  BY <1>4, <1>9, <1>11, <1>12 DEF Share
<1>14. QED BY <1>6, <1>10, <1>13

-----------------------------------------------------------------------------
(* The engine. *)

\* A result of the engine is one of its market, on the matrix.
LEMMA ResultsAreOfTheirMarket ==
  ASSUME NEW home, NEW away, NEW requested,
         NEW r \in Range(RunPricingEngine(home, away, requested).results)
  PROVE  \E i \in DOMAIN CanonicalRequest(requested) :
            /\ ValidRequest(requested)
            /\ r.request = CanonicalRequest(requested)[i]
            /\ r.result \in PriceMarket(Matrix(home, away), r.request)
<1> DEFINE m == Matrix(home, away)
           ordered == CanonicalRequest(requested)
           results == [i \in DOMAIN ordered |-> PriceMarket(m, ordered[i])]
           outcome == RunPricingEngine(home, away, requested)
<1>1. outcome =
        IF ~ ValidRequest(requested)
        THEN [error |-> "invalid_market", results |-> <<>>]
        ELSE IF \E i \in DOMAIN results : results[i] = {}
        THEN [error |-> "market_failed", results |-> <<>>]
        ELSE [error |-> "", results |->
                [i \in DOMAIN ordered |->
                    [request |-> ordered[i],
                     result  |-> CHOOSE x \in results[i] : TRUE]]]
  BY DEF RunPricingEngine
<1>2. outcome.results # <<>>
  <2>1. Range(<<>>) = {}
    BY DEF Range
  <2>2. QED BY <2>1
<1>3. /\ ValidRequest(requested) /\ \A i \in DOMAIN results : results[i] # {}
      /\ outcome.results = [i \in DOMAIN ordered |->
                              [request |-> ordered[i],
                               result  |-> CHOOSE x \in results[i] : TRUE]]
  <2> HIDE DEF m, ordered, results, outcome
  <2> QED BY <1>1, <1>2
<1>4. PICK i \in DOMAIN ordered :
         r = [request |-> ordered[i], result |-> CHOOSE x \in results[i] : TRUE]
  <2>1. r \in Range(outcome.results)
    OBVIOUS
  <2> HIDE DEF m, ordered, results, outcome
  <2> QED BY <1>3, <2>1 DEF Range
<1>5. results[i] = PriceMarket(m, ordered[i]) /\ i \in DOMAIN results
  BY <1>4
<1>6. r.request = ordered[i] /\ r.result \in PriceMarket(m, r.request)
  <2> HIDE DEF m, ordered, results, outcome
  <2> QED BY <1>3, <1>4, <1>5
<1>7. QED
  BY <1>3, <1>6

\* The last calculation of the engine is one.
EngineRan ==
  Engine => \E home, away \in Distributions, requested \in MarketRequests :
               /\ calculation.matrix = Matrix(home, away)
               /\ calculation.outcome = RunPricingEngine(home, away, requested)

LEMMA StepPrices ==
  ASSUME EngineRan, [Next]_vars
  PROVE  EngineRan'
<1>1. CASE calculation' = calculation
  BY <1>1 DEF EngineRan, Engine
<1>2. CASE calculation' = Idle
  BY <1>2 DEF EngineRan, Engine
<1>3. ASSUME NEW home \in Distributions, NEW away \in Distributions,
             NEW requested \in MarketRequests, PriceMarkets(home, away, requested)
      PROVE  EngineRan'
  <2>1. /\ calculation'.matrix = Matrix(home, away)
        /\ calculation'.outcome = RunPricingEngine(home, away, requested)
    BY <1>3 DEF PriceMarkets
  <2>2. QED BY <2>1 DEF EngineRan
<1>4. ASSUME NEW series, NEW weights, NEW candidates,
             CalculateMethodOne(series, weights, candidates)
      PROVE  EngineRan'
  <2>1. calculation'.kind = "method_one"
    BY <1>4 DEF CalculateMethodOne
  <2>2. QED BY <2>1 DEF EngineRan, Engine
<1>5. QED
  BY <1>1, <1>2, <1>3, <1>4 DEF Next, Return, SamplesNext, vars

\* What the engine made its last results from.
LEMMA EngineCalls ==
  ASSUME EngineRan, Engine, NEW r \in Range(calculation.outcome.results)
  PROVE  /\ Scored(calculation.matrix) /\ Whole(calculation.matrix)
         /\ r.result \in PriceMarket(calculation.matrix, r.request)
         /\ r.request \in OneMarket
         /\ r.request.code = "total_goals" => r.request.line \in HalfGoalLines
         /\ r.request.code \in {"asian_handicap", "asian_total"} =>
               r.request.selection \in Selections
<1>1. PICK home \in Distributions, away \in Distributions, requested \in MarketRequests :
         /\ calculation.matrix = Matrix(home, away)
         /\ calculation.outcome = RunPricingEngine(home, away, requested)
  BY DEF EngineRan
<1>2. ASSUME NEW d \in Distributions PROVE \E max \in Nat : d \in [0 .. max -> Nat]
  <2>1. PICK s \in Scorers : d = Distribution(s.rate, s.support)
    BY DEF Distributions
  <2>2. s.rate \in Rates /\ s.support \in Nat
    BY EngineAssumption DEF Rates
  <2>3. QED BY <2>1, <2>2, DistributionIsNatural
<1>3. Scored(calculation.matrix) /\ Whole(calculation.matrix)
  <2>1. PICK H \in Nat : home \in [0 .. H -> Nat]
    BY <1>2
  <2>2. PICK A \in Nat : away \in [0 .. A -> Nat]
    BY <1>2
  <2>3. Scored(Matrix(home, away)) /\ Whole(Matrix(home, away))
    BY <2>1, <2>2, MatrixIsScored, MatrixIsWhole
  <2>4. QED BY <1>1, <2>3
<1>4. PICK i \in DOMAIN CanonicalRequest(requested) :
         /\ ValidRequest(requested)
         /\ r.request = CanonicalRequest(requested)[i]
         /\ r.result \in PriceMarket(calculation.matrix, r.request)
  BY <1>1, ResultsAreOfTheirMarket
<1>5. requested \in Seq(OneMarket)
  BY EngineAssumption DEF OneMarket
<1>6. r.request \in Range(requested)
  BY <1>4, <1>5, CanonicalPlaces DEF ValidRequest
<1>7. r.request \in OneMarket
  <2>1. Range(requested) \subseteq OneMarket
    BY <1>5 DEF Range
  <2>2. QED BY <1>6, <2>1
<1>8. /\ r.request.code = "total_goals" => r.request.line \in HalfGoalLines
      /\ r.request.code \in {"asian_handicap", "asian_total"} =>
            r.request.selection \in Selections
  BY <1>6, EngineAssumption DEF Selections
<1>9. QED BY <1>3, <1>4, <1>7, <1>8

\* The best of _select is what MainLineIsFair asks.
LEMMA RanIsFair == EngineRan => MainLineIsFair
<1>1. SUFFICES ASSUME EngineRan, Engine, NEW market \in {"handicap", "total"},
                      NEW r \in Priced(MainLineCode(market))
               PROVE  LET m    == calculation.matrix
                          best == r.result.reference
                          wide == (m.home + m.away + 3) * 4
                      IN  /\ \A line \in - wide .. wide :
                                LET price == Price(m, best.selection, line)
                                IN  \/ market = "total" /\ line < 0
                                    \/ ~ HasOdds(price)
                                    \/ price = best
                                    \/ Nearer(best, price)
                                    \/ AsNear(best, price) /\ Precedes(best, price)
                          /\ r.result.opposite.won = best.lost
                          /\ r.result.opposite.lost = best.won
                          /\ r.result.opposite.pushed = best.pushed
  BY DEF MainLineIsFair
<1>2. PICK m : m = calculation.matrix
  OBVIOUS
<1>3. /\ r \in Range(calculation.outcome.results)
      /\ r.request.code = MainLineCode(market)
  BY <1>1 DEF Priced
<1>4. Scored(m) /\ r.result \in PriceMarket(m, r.request)
  BY <1>1, <1>2, <1>3, EngineCalls
<1>5. r.result \in MainLine(m, market)
  BY <1>1, <1>3, <1>4 DEF PriceMarket, MainLineCode
<1>6. PICK best, opposite : best = r.result.reference /\ opposite = r.result.opposite
  OBVIOUS
<1>7. best.selection = ReferenceOf(market) /\ Fair(m, market, best, opposite)
  BY <1>1, <1>4, <1>5, <1>6, MainLineBest
<1>8. (m.home + m.away + 3) * 4 \in Int
  BY <1>4 DEF Scored
<1>9. \A line \in Int :
        LET price == Price(m, best.selection, line)
        IN  \/ market = "total" /\ line < 0
            \/ ~ HasOdds(price)
            \/ price = best
            \/ Nearer(best, price)
            \/ AsNear(best, price) /\ Precedes(best, price)
  BY <1>7 DEF Fair, Better
<1>10. /\ opposite.won = best.lost
       /\ opposite.lost = best.won
       /\ opposite.pushed = best.pushed
  BY <1>7 DEF Fair
<1>11. \A wide \in Int : - wide .. wide \subseteq Int
  OBVIOUS
<1>12. QED BY <1>2, <1>6, <1>8, <1>9, <1>10, <1>11

\* The main line that _select finds in one pass is the best of all quarter lines, for
\* every two distributions: those beyond the catalogue are never nearer to even odds, and
\* the order it keeps has no cycle; the opposite selection loses what the reference wins.
THEOREM MainLinesAreFair == Spec => []MainLineIsFair
<1>1. Init => EngineRan
  BY DEF Init, EngineRan, Engine
<1>2. EngineRan /\ [Next]_vars => EngineRan'
  BY StepPrices
<1>3. EngineRan => MainLineIsFair
  BY RanIsFair
<1>4. QED
  BY <1>1, <1>2, <1>3, PTL DEF Spec

\* The markets of a result, one by one.
LEMMA RanAgrees == EngineRan => MarketsAgree
<1>1. SUFFICES ASSUME EngineRan, Engine PROVE MarketsAgree
  BY DEF MarketsAgree
<1>2. PICK m : m = calculation.matrix
  OBVIOUS
<1>3. ASSUME NEW code, NEW r \in Priced(code)
      PROVE  /\ Scored(m) /\ Whole(m) /\ r.request.code = code
             /\ r.result \in PriceMarket(m, r.request)
             /\ r.request.line \in Int
             /\ code = "total_goals" => r.request.line \in HalfGoalLines
             /\ code \in {"asian_handicap", "asian_total"} =>
                   r.request.selection \in Selections
  <2>1. r \in Range(calculation.outcome.results) /\ r.request.code = code
    BY DEF Priced
  <2>2. r.request \in OneMarket => r.request.line \in Int
    BY DEF OneMarket
  <2>3. QED BY <1>1, <1>2, <2>1, <2>2, EngineCalls
<1>4. ASSUME NEW r \in Priced("three_way_result")
      PROVE  /\ 2 * r.result.home = Price(m, "home", -2).won
             /\ 2 * r.result.draw = Price(m, "home", 0).pushed
             /\ 2 * r.result.away = Price(m, "away", -2).won
  <2>1. Scored(m) /\ r.result \in ThreeWay(m)
    BY <1>3 DEF PriceMarket
  <2>2. QED BY <2>1, ThreeWayIsOfScores, ShortHandicaps
<1>5. ASSUME NEW r \in Priced("double_chance")
      PROVE  /\ 2 * r.result.home_or_draw = Price(m, "home", 2).won
             /\ 2 * r.result.draw_or_away = Price(m, "away", 2).won
             /\ r.result.home_or_away =
                   m.total - MassOf(m, {s \in DOMAIN m.cell : s[1] = s[2]})
  <2>1. Scored(m) /\ r.result \in DoubleChance(m)
    BY <1>3 DEF PriceMarket
  <2>2. PICK home, draw, away : /\ home = MassOf(m, HomeWins(m))
                                /\ draw = MassOf(m, Draws(m))
                                /\ away = MassOf(m, AwayWins(m))
    OBVIOUS
  <2>3. /\ r.result.home_or_draw = home + draw
        /\ r.result.draw_or_away = draw + away
        /\ r.result.home_or_away = m.total - draw
        /\ home \in Nat /\ draw \in Nat /\ away \in Nat
    BY <2>1, <2>2, DoubleChanceIsOfScores
  <2>4. /\ Price(m, "home", 2).won = 2 * home + 2 * draw
        /\ Price(m, "away", 2).won = 2 * draw + 2 * away
    BY <2>1, <2>2, ShortHandicaps
  <2>5. \A a, b \in Nat : 2 * (a + b) = 2 * a + 2 * b
    OBVIOUS
  <2>6. QED BY <2>2, <2>3, <2>4, <2>5 DEF Draws
<1>6. ASSUME NEW r \in Priced("both_teams_to_score")
      PROVE  r.result.no = m.total - MassOf(m, {s \in DOMAIN m.cell : s[1] * s[2] > 0})
  <2>1. Scored(m) /\ r.result \in BothTeamsToScore(m)
    BY <1>3 DEF PriceMarket
  <2>2. QED BY <2>1, BothTeamsIsOfScores
<1>7. ASSUME NEW r \in Priced("total_goals")
      PROVE  /\ 2 * r.result.over = Price(m, "over", 2 * r.request.line).won
             /\ 2 * r.result.under = Price(m, "under", 2 * r.request.line).won
  <2>1. /\ Scored(m) /\ Whole(m) /\ r.request.line \in HalfGoalLines
        /\ r.result \in TotalGoals(m, r.request.line)
    BY <1>3 DEF PriceMarket
  <2>2. QED BY <2>1, TotalGoalsIsAsian
<1>8. ASSUME NEW r \in Priced("asian_handicap") \cup Priced("asian_total"),
             r.request.line % 2 = 1
      PROVE  r.result = Averaged(m, r.request.selection, r.request.line,
                           Price(m, r.request.selection, r.request.line - 1),
                           Price(m, r.request.selection, r.request.line + 1))
  <2>1. PICK code \in {"asian_handicap", "asian_total"} : r \in Priced(code)
    BY <1>8
  <2>2. /\ Scored(m) /\ r.request.code \in {"asian_handicap", "asian_total"}
        /\ r.result \in PriceMarket(m, r.request)
        /\ r.request.line \in Int /\ r.request.selection \in Selections
    BY <1>3, <2>1
  <2>3. r.result = Price(m, r.request.selection, r.request.line)
    BY <2>2 DEF PriceMarket
  <2>4. QED BY <1>8, <2>2, <2>3, SplitIsTheMean
<1>9. QED
  BY <1>2, <1>4, <1>5, <1>6, <1>7, <1>8 DEF MarketsAgree, Averaged

\* Whatever two distributions are priced, the markets of basic.py and totals.py say of
\* an event what the handicaps and totals of asian.py say of it, and a quarter line is
\* the mean of the lines beside it.
THEOREM EngineAgrees == Spec => []MarketsAgree
<1>1. Init => EngineRan
  BY DEF Init, EngineRan, Engine
<1>2. EngineRan /\ [Next]_vars => EngineRan'
  BY StepPrices
<1>3. EngineRan => MarketsAgree
  BY RanAgrees
<1>4. QED
  BY <1>1, <1>2, <1>3, PTL DEF Spec
=============================================================================
