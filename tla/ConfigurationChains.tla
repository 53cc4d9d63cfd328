------------------------ MODULE ConfigurationChains ------------------------
(***************************************************************************)
(* What the configuration ledger promises: one chain of revisions for each *)
(* parameter and target, in the order its history is shown in.  A revision *)
(* goes to the end of one chain and nothing ever moves or disappears.      *)
(***************************************************************************)
EXTENDS Naturals, Sequences

CONSTANT Chain

VARIABLE history   \* the revisions of each chain, oldest first

Init == history = [k \in Chain |-> <<>>]

Entries(h) == {h[i] : i \in 1..Len(h)}

\* The revision is in no chain yet.
Revise(k) ==
  \E revision \in Entries(history'[k]) :
    /\ \A c \in Chain : revision \notin Entries(history[c])
    /\ history' = [history EXCEPT ![k] = Append(@, revision)]

Next == \E k \in Chain : Revise(k)

Spec == Init /\ [][Next]_history
=============================================================================
