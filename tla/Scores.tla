-------------------------------- MODULE Scores --------------------------------
(***************************************************************************)
(* aggregation/service.rs: the radar and the composite score of a          *)
(* supervisor, as functions of its approved ratings and of the weights of  *)
(* its discipline.                                                         *)
(*                                                                         *)
(* A rating is a record with a dim and a value.  Numbers are fractions     *)
(* with the common denominator Scale; f64 rounding is abstracted.          *)
(***************************************************************************)
EXTENDS Integers, FiniteSets, Functions

(* by_dim: the dimensions that have data, and the ratings of one of them. *)
Rated(ratings) == {r.dim : r \in ratings}
OfDim(ratings, d) == {r \in ratings : r.dim = d}

(* The product of the numbers of ratings, which makes all means integers. *)
Scale(ratings) ==
    FoldFunction(LAMBDA a, b : a * b, 1,
                 [d \in Rated(ratings) |-> Cardinality(OfDim(ratings, d))])

(* mean_clamp: the public mean of a dimension, never below 0. *)
MeanClamp(ratings, d) ==
    LET sum == SumFunction([r \in OfDim(ratings, d) |-> r.value])
    IN  (IF sum > 0 THEN sum ELSE 0) * (Scale(ratings) \div Cardinality(OfDim(ratings, d)))

(* The mean of the dimensions that have data, by their weights. *)
WeightedMean(ratings, weights) ==
    [num |-> SumFunction([d \in Rated(ratings) |-> weights[d] * MeanClamp(ratings, d)]),
     den |-> SumFunction([d \in Rated(ratings) |-> weights[d]])]

(* Mutant: the case that no dimension with data has a weight is forgotten. *)
CompositeNoFallback(ratings, weights) == WeightedMean(ratings, weights)

(* compute_from_approved: only the dimensions with data count, and if their
   weights are all 0 they count alike. *)
Composite(ratings, weights) ==
    LET mean == WeightedMean(ratings, weights)
    IN  IF mean.den > 0 THEN mean
        ELSE WeightedMean(ratings, [d \in Rated(ratings) |-> 1])
=============================================================================
