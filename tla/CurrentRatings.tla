---------------------------- MODULE CurrentRatings ----------------------------
(***************************************************************************)
(* What submitting ratings promises (B-9), without transactions: a         *)
(* submission takes effect at once and replaces the submitter's current    *)
(* rating of that supervisor and dimension, if any; replaced ratings are   *)
(* kept and stay replaced.                                                 *)
(***************************************************************************)
CONSTANTS Ratings, KeyOf

VARIABLES current, past

Init == current = {} /\ past = {}

Submit(r) ==
    LET replaced == {s \in current : KeyOf[s] = KeyOf[r]}
    IN  /\ r \notin current \cup past
        /\ current' = (current \ replaced) \cup {r}
        /\ past' = past \cup replaced

Next == \E r \in Ratings : Submit(r)

Spec == Init /\ [][Next]_<<current, past>>
=============================================================================
