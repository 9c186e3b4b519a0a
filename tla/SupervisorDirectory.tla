------------------------- MODULE SupervisorDirectory -------------------------
(***************************************************************************)
(* What the supervisor component promises, without requests, workers or    *)
(* transactions: a directory of entries in which a submitted triple and an *)
(* alias occur once (G-19, G-20), and of which the public sees only        *)
(* entries of buckets with at least K of them (G-14).  Which of those it   *)
(* sees is left open: an approval may publish or withdraw any of them.     *)
(***************************************************************************)
EXTENDS Naturals, FiniteSets

CONSTANTS Requests, TripleOf, BucketOf, AliasOf, K

VARIABLES entries, shown

Population(es, e) ==
    Cardinality({f \in es : BucketOf[TripleOf[f]] = BucketOf[TripleOf[e]]})

Init == entries = {} /\ shown = {}

Publish(e) ==
    /\ \A f \in entries : /\ TripleOf[f] # TripleOf[e]
                          /\ AliasOf[TripleOf[f]] # AliasOf[TripleOf[e]]
    /\ entries' = entries \cup {e}
    /\ shown' \in SUBSET {f \in entries' : Population(entries', f) >= K}

Next == \E e \in Requests : Publish(e)

Spec == Init /\ [][Next]_<<entries, shown>>
=============================================================================
