------------------------- MODULE MCAccountInvitation -------------------------
(* Three accounts, so that one can invite two or a chain of three can form;
   a code for one use that expires and one for two uses that does not.      *)
EXTENDS AccountInvitation, TLC

CONSTANTS w1, w2, a1, a2, a3, e1, e2, once, twice

MCMaxUses == [c \in Codes |-> IF c = once THEN 1 ELSE 2]

(* Bound: one account is banned or cancelled at a time, or one of each. *)
MCFewOut == Cardinality(banned) <= 1 /\ Cardinality(cancelled) <= 1

(* Calls, ids and addresses are interchangeable. *)
MCSymmetry == Permutations({w1, w2}) \cup Permutations({a1, a2, a3})
              \cup Permutations(Emails)
=============================================================================
