---------------------------- MODULE MCReportReview ----------------------------
(* One submission at a time against two reports under review; of the two     *)
(* accounts, a1 wrote the rating that is reported.                            *)
EXTENDS ReportReview

CONSTANTS w1, a1, a2, x1, s1

MCAuthorOf == [x \in Ratings |-> a1]
=============================================================================
