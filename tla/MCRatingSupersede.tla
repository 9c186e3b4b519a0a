-------------------------- MODULE MCRatingSupersede ---------------------------
(* Three submissions for one key, which race for its index slot, and one for
   another key of the same account.  Every flag occurs.  The first text hides a
   number in a word until the word before it is masked, the second is P0, the
   third has a name that is masked and a Lab that is not, in the fourth a mask
   keeps a name from being masked.                                          *)
EXTENDS PublishedRatings, TLC

CONSTANTS w1, w2, w3, r1, r2, r3, r4

MCKeyOf == (r1 :> "research") @@ (r2 :> "research") @@ (r3 :> "research") @@ (r4 :> "fit")
MCDimText ==
    (r1 :> <<"research_group", "number">>)
    @@ (r2 :> <<"laboratory", "stop", "latin", "at", "latin">>)
    @@ (r3 :> <<"harsh">>)
    @@ (r4 :> <<"han", "laboratory", "space", "suffix">>)
MCOverallText ==
    (r1 :> <<>>)
    @@ (r2 :> <<"number", "space", "acronym">>)
    @@ (r3 :> <<"han", "latin", "space", "suffix", "space", "suffix">>)
    @@ (r4 :> <<"latin", "suffix">>)
MCAccountOf == [r \in Ratings |-> "account"]
=============================================================================
