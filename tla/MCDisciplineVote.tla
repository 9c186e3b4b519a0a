--------------------------- MODULE MCDisciplineVote ---------------------------
(* Two proposals of one user for different dimensions of a discipline with
   three dimensions and weights in sixths; the thresholds 3 and 5 are scaled
   down to 2 and 2, the agreement ratio is the code's.                      *)
EXTENDS DisciplineVote, TLC

CONSTANTS w1, w2, u1, u2, u3, u4, v1, v2

MCDimOf == [v \in Votes |-> IF v = v1 THEN 1 ELSE 2]
MCProposed == [v \in Votes |-> IF v = v1 THEN 4 ELSE 0]
MCProposerOf == [v \in Votes |-> u1]

(* The calls, and the users who only vote, are interchangeable. *)
MCSymmetry == Permutations({w1, w2}) \cup Permutations({u2, u3, u4})
=============================================================================
