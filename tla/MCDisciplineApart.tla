--------------------------- MODULE MCDisciplineApart ---------------------------
(* The two proposals of MCDisciplineVote, and supervisors whose ratings have
   data for one, two or all three dimensions.                               *)
EXTENDS MCDisciplineVote, DisciplineApart

Rating(rater, d, v) == [rater |-> rater, dim |-> d, value |-> v]

(* Ratings of one dimension, which may have no weight; of two, one of them
   bad on balance; bad ones only; of all three. *)
MCRatingSets ==
    {{Rating(1, 2, 60)},
     {Rating(1, 1, 80), Rating(2, 1, 100), Rating(1, 2, -50), Rating(2, 2, 20)},
     {Rating(1, 1, -30), Rating(1, 3, -50)},
     {Rating(1, 1, 90), Rating(1, 2, 60), Rating(1, 3, -10), Rating(2, 3, 40)}}
=============================================================================
