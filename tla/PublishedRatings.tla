--------------------------- MODULE PublishedRatings ---------------------------
(***************************************************************************)
(* What leaves the rating component: the texts it publishes, and the rows  *)
(* that aggregation/repo.rs reads for the score of a supervisor.           *)
(***************************************************************************)
EXTENDS RatingSupersede, TextFilter

CONSTANTS
    DimText, OverallText,  \* the additional texts of a row
    AccountOf,             \* ratings.account_id
    Withdrawn              \* accounts that are soft-removed or banned

(* Both texts of a submission are classified, the higher flag is stored. *)
Flag(r) == Max({ClassifyText(DimText[r]), ClassifyText(OverallText[r])})

ASSUME PublishedAssumption ==
    /\ DimText \in [Ratings -> Texts]
    /\ OverallText \in [Ratings -> Texts]
    /\ DOMAIN AccountOf = Ratings
    /\ P0 = {r \in Ratings : Flags[Flag(r)] = "P0_strict"}

(* The redacted_*_enc columns. *)
PublicTexts(r) == {Redact(DimText[r]), Redact(OverallText[r])}

(* Mutant: superseded rows are read too. *)
ScoredHistory ==
    {r \in ratings : status[r] = "approved" /\ AccountOf[r] \notin Withdrawn}

(* list_approved *)
Scored ==
    {r \in ratings : /\ status[r] = "approved"
                     /\ IsCurrent(r)
                     /\ AccountOf[r] \notin Withdrawn}

-----------------------------------------------------------------------------
(* G-12: the public copies of what is approved without a person having read it
   name no laboratory or research group and show no address, introduction or
   email.  Masking one word may uncover the next: a number, or "wechat:", that
   was a part of a longer word when it was classified, and only beside a mask. *)
NextToMask(x, i) == \/ i > 1 /\ x[i - 1] = "mask"
                    \/ i < Len(x) /\ x[i + 1] = "mask"
OnlyMasksUncover ==
    \A r \in ratings : status[r] = "approved" /\ r \notin reviewed =>
        \A x \in PublicTexts(r) : \A i \in DOMAIN x :
            /\ x[i] \notin {"laboratory", "research_group"}
            /\ ~Free(x, i)
            /\ Anchored(x, i) => NextToMask(x, i)

(* B-9 as the score sees it: no account counts twice for a dimension of a
   supervisor, however its submissions replace each other and are decided. *)
CountedOnce == \A r, s \in Scored : KeyOf[r] = KeyOf[s] => r = s
=============================================================================
