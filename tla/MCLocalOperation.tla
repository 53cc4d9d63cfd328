-------------------------- MODULE MCLocalOperation --------------------------
(* One bundle of each class is kept; the requests can be exchanged.             *)
EXTENDS LocalOperation, TLC

MCLimit == [c \in Class |-> 1]
MCSymmetry == Permutations(Request)
=============================================================================
