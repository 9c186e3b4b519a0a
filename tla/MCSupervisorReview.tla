-------------------------- MODULE MCSupervisorReview --------------------------
(* Up to five requests: two with the same triple, two more in the same bucket
   and one whose triple, in another bucket, hashes to an alias already used. *)
EXTENDS SupervisorReview, TLC

CONSTANTS w1, w2, r1, r2, r3, r4, r5

MCTripleOf == [r \in Requests |->
    CASE r \in {r1, r2} -> "ann_cs" [] r = r3 -> "bob_cs"
      [] r = r4 -> "dan_cs"         [] r = r5 -> "cyd_law"]
MCBucketOf == ("ann_cs" :> "cs") @@ ("bob_cs" :> "cs") @@ ("dan_cs" :> "cs")
              @@ ("cyd_law" :> "law")
MCAliasOf == ("ann_cs" :> "net3k2") @@ ("bob_cs" :> "q7a2") @@ ("dan_cs" :> "ml2025")
             @@ ("cyd_law" :> "net3k2")

(* The calls, and the two requests with one triple, are interchangeable. *)
MCSymmetry == Permutations({w1, w2}) \cup Permutations({r1, r2})
=============================================================================
