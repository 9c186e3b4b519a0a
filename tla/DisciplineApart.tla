---------------------------- MODULE DisciplineApart ----------------------------
(***************************************************************************)
(* DisciplineVote with a history variable that remembers whether an        *)
(* application was ever disturbed, by another one inside apply_vote at the *)
(* same time or by being cut before it had written everything: what holds  *)
(* only otherwise is stated relative to it.  The scores of Scores are      *)
(* computed with the weights as they are, disturbed or not.                *)
(***************************************************************************)
EXTENDS DisciplineVote, Scores

CONSTANT RatingSets  \* sets of approved ratings a supervisor may have

ASSUME RatingSetsAssumption ==
    \A ratings \in RatingSets :
        /\ IsFiniteSet(ratings) /\ ratings # {}
        /\ \A r \in ratings : r.dim \in AllDims /\ r.value \in Int

VARIABLE disturbed

Applying(w) == call[w].pc \in {"read", "upsert", "log", "mark"}
Overlap == \E w, x \in Workers : w # x /\ Applying(w) /\ Applying(x)
Cut == \E w \in Workers : call[w].pc \in {"read", "upsert", "log"} /\ call'[w].pc = "idle"

ApartInit == Init /\ disturbed = FALSE
ApartNext == Next /\ disturbed' = (disturbed \/ Overlap' \/ Cut)
ApartSpec ==
    /\ ApartInit /\ [][ApartNext]_<<vars, disturbed>>
    /\ \A w \in Workers : WF_vars(Advance(w))

(* As long as no application was disturbed, the history of a dimension
   explains its weight: apply_vote reads the old weight it logs. *)
ApartHistoryExplainsWeights == disturbed \/ HistoryExplainsWeights

(* As long as no application was disturbed, renormalize keeps the sum of a
   discipline's weights at 1.0. *)
ApartWeightsSumToOne == disturbed \/ WeightsSumToOne

(* As long as no application was disturbed, all weights of a discipline come
   from one vote: apply_vote rewrites every dimension. *)
ApartAppliedAsAWhole == disturbed \/ AppliedAsAWhole

(* M7: whatever state the weights are in, half applied, mixed from two votes
   or 0 where the ratings are, a rated supervisor has a composite and it lies
   between the lowest and the highest public mean of what was rated: a
   dimension without ratings neither lowers nor raises it. *)
CompositeIsAMean ==
    \A ratings \in RatingSets :
        LET score == Composite(ratings, weight)
            means == {MeanClamp(ratings, d) : d \in Rated(ratings)}
        IN  /\ score.den > 0
            /\ \E m \in means : m * score.den =< score.num
            /\ \E m \in means : m * score.den >= score.num
=============================================================================
