----------------------------- MODULE ReportReview -----------------------------
(***************************************************************************)
(* Reports of ratings and supervisors and their review: report/service.rs, *)
(* report/repo.rs and report/handler.rs over the table reports.            *)
(*                                                                         *)
(* submit_report reads the author and the target, inserts and writes an    *)
(* audit row, each in a statement of its own; claim and resolve are one    *)
(* UPDATE each.  Report ids are 1..MaxReports in the order of insertion,   *)
(* which is also the order of the deadlines.  Reason, description and note *)
(* are left out: nothing depends on them.                                  *)
(***************************************************************************)
EXTENDS Naturals

CONSTANTS
    Workers,       \* concurrent calls of submit_report
    Accounts,      \* every account may report, and may review
    NoAccount,     \* NULL reviewer_id
    Ratings,
    Supervisors,
    AuthorOf,      \* ratings.account_id
    Resolutions,   \* ReportResolution
    NoResolution,  \* NULL
    MaxReports     \* bound of the model

Reports == 1 .. MaxReports

(* TargetType *)
Kinds == {"rating", "additional_info", "supervisor"}
RatingKinds == {"rating", "additional_info"}
Ids == Ratings \cup Supervisors

ASSUME ConstantsAssumption ==
    /\ NoAccount \notin Accounts
    /\ Ratings \cap Supervisors = {}
    /\ AuthorOf \in [Ratings -> Accounts]
    /\ NoResolution \notin Resolutions
    /\ MaxReports \in Nat

VARIABLES
    report,    \* the rows of reports, status "none" before the INSERT
    overdue,   \* NOW() is past the sla_deadline of the reports 1..overdue
    gone,      \* superseded ratings, rejected or hidden supervisors
    audited,   \* reports whose submission is in encryption_audit_log
    call       \* each worker: its next statement and its request

vars == <<report, overdue, gone, audited, call>>

NoReport == [status |-> "none", by |-> NoAccount, kind |-> "rating",
             target |-> NoAccount, reviewer |-> NoAccount, resolution |-> NoResolution]
Idle == [pc |-> "idle"]

Init ==
    /\ report = [r \in Reports |-> NoReport]
    /\ overdue = 0
    /\ gone = {}
    /\ audited = {}
    /\ call = [w \in Workers |-> Idle]

Continue(w, next) == call' = [call EXCEPT ![w] = next]
Return(w) == Continue(w, Idle)

-----------------------------------------------------------------------------
(* submit_report *)

(* The handler's request: any account, kind and id. *)
Submit(w, a, kind, id) ==
    /\ call[w].pc = "idle"
    /\ Continue(w, [pc |-> "author", by |-> a, kind |-> kind, target |-> id])
    /\ UNCHANGED <<report, overdue, gone, audited>>

(* Mutant: additional_info is not treated as part of a rating. *)
OwnTargetRatingOnly(c) ==
    c.kind = "rating" /\ c.target \in Ratings /\ AuthorOf[c.target] = c.by

(* rating_account_id finds the author of any row, superseded or not. *)
OwnTarget(c) ==
    c.kind \in RatingKinds /\ c.target \in Ratings /\ AuthorOf[c.target] = c.by

(* Step 1. *)
CheckAuthor(w) ==
    /\ call[w].pc = "author"
    /\ IF OwnTarget(call[w]) THEN Return(w)
                             ELSE Continue(w, [call[w] EXCEPT !.pc = "target"])
    /\ UNCHANGED <<report, overdue, gone, audited>>

(* Mutant: looks the id up without regard to its kind. *)
TargetExistsAnyKind(c) == c.target \in Ids \ gone

(* target_exists looks the id up in the table of its kind. *)
TargetExists(c) ==
    c.target \in (IF c.kind \in RatingKinds THEN Ratings ELSE Supervisors) \ gone

(* Step 2. *)
CheckTarget(w) ==
    /\ call[w].pc = "target"
    /\ IF TargetExists(call[w]) THEN Continue(w, [call[w] EXCEPT !.pc = "insert"])
                                ELSE Return(w)
    /\ UNCHANGED <<report, overdue, gone, audited>>

(* Step 3, insert_report: neither the author nor the target is read again. *)
InsertReport(w) ==
    LET c == call[w]
    IN  /\ c.pc = "insert"
        /\ \E r \in Reports :
               /\ report[r].status = "none"
               /\ \A q \in 1 .. r - 1 : report[q].status # "none"
               /\ report' = [report EXCEPT ![r] =
                      [NoReport EXCEPT !.status = "pending", !.by = c.by,
                                       !.kind = c.kind, !.target = c.target]]
               /\ Continue(w, [pc |-> "audit", report |-> r])
        /\ UNCHANGED <<overdue, gone, audited>>

(* log_with_ip: its INSERT may fail, which the response does not show. *)
LogSubmission(w) ==
    /\ call[w].pc = "audit"
    /\ audited' \in {audited, audited \cup {call[w].report}}
    /\ Return(w)
    /\ UNCHANGED <<report, overdue, gone>>

(* A statement fails, or the handler is dropped with its client. *)
Fail(w) ==
    /\ call[w].pc # "idle"
    /\ Return(w)
    /\ UNCHANGED <<report, overdue, gone, audited>>

-----------------------------------------------------------------------------
(* Review: every authenticated account may do it. *)

(* Mutant: the WHERE clause has no status. *)
ClaimAnything(a, r) ==
    /\ report[r].status # "none"
    /\ report' = [report EXCEPT ![r].status = "reviewing", ![r].reviewer = a]
    /\ UNCHANGED <<overdue, gone, audited, call>>

(* claim: a report under review goes to whoever claims it last. *)
Claim(a, r) ==
    /\ report[r].status \in {"pending", "reviewing"}
    /\ report' = [report EXCEPT ![r].status = "reviewing", ![r].reviewer = a]
    /\ UNCHANGED <<overdue, gone, audited, call>>

(* Mutant: the WHERE clause has no reviewer. *)
ResolveAnyones(a, r, resolution) ==
    /\ report[r].status = "reviewing"
    /\ report' = [report EXCEPT ![r].status = "resolved", ![r].reviewer = a,
                                ![r].resolution = resolution]
    /\ UNCHANGED <<overdue, gone, audited, call>>

(* resolve, and dismiss, which is the same: the reported row is not touched. *)
Resolve(a, r, resolution) ==
    /\ report[r].status = "reviewing"
    /\ report[r].reviewer = a
    /\ report' = [report EXCEPT ![r].status = "resolved", ![r].reviewer = a,
                                ![r].resolution = resolution]
    /\ UNCHANGED <<overdue, gone, audited, call>>

-----------------------------------------------------------------------------
(* SLA_HOURS pass since the oldest submission that is not overdue yet. *)
PassDeadline ==
    /\ overdue < MaxReports
    /\ report[overdue + 1].status # "none"
    /\ overdue' = overdue + 1
    /\ UNCHANGED <<report, gone, audited, call>>

(* A rating is superseded, a supervisor is rejected or hidden. *)
Vanish(id) ==
    /\ id \in Ids \ gone
    /\ gone' = gone \cup {id}
    /\ UNCHANGED <<report, overdue, audited, call>>

Advance(w) == CheckAuthor(w) \/ CheckTarget(w) \/ InsertReport(w) \/ LogSubmission(w)

Next == \/ \E w \in Workers : \/ Advance(w)
                              \/ Fail(w)
                              \/ \E a \in Accounts, k \in Kinds, id \in Ids : Submit(w, a, k, id)
        \/ \E a \in Accounts, r \in Reports :
               \/ Claim(a, r)
               \/ \E resolution \in Resolutions : Resolve(a, r, resolution)
        \/ PassDeadline
        \/ \E id \in Ids : Vanish(id)

Spec == Init /\ [][Next]_vars

-----------------------------------------------------------------------------
(* sla_breached *)
Breached(r) == report[r].status = "pending" /\ r <= overdue

Requests == [pc : {"author", "target", "insert"}, by : Accounts, kind : Kinds, target : Ids]

TypeOK ==
    /\ report \in [Reports -> [status : {"none", "pending", "reviewing", "resolved"},
                               by : Accounts \cup {NoAccount}, kind : Kinds,
                               target : Ids \cup {NoAccount},
                               reviewer : Accounts \cup {NoAccount},
                               resolution : Resolutions \cup {NoResolution}]]
    /\ overdue \in 0 .. MaxReports
    /\ gone \subseteq Ids
    /\ audited \subseteq Reports
    /\ call \in [Workers -> {Idle} \cup Requests \cup [pc : {"audit"}, report : Reports]]

(* H-49: no stored report is about a rating, or the additional information of
   a rating, that its reporter wrote, also when the rating was superseded
   while the report was being filed. *)
NoSelfReport ==
    \A r \in Reports : report[r].status # "none" /\ report[r].kind # "supervisor"
        => report[r].by # AuthorOf[report[r].target]

(* reports.target_id has no foreign key: that the id a report stores is an id
   of the table its target_type names rests on target_exists alone. *)
TargetsAreReal ==
    \A r \in Reports : report[r].status # "none" =>
        report[r].target \in IF report[r].kind = "supervisor" THEN Supervisors ELSE Ratings

(* An audit row of a submission is never about a report that does not exist,
   wherever a call fails. *)
AuditedReportsExist == \A r \in audited : report[r].status # "none"

(* A report leaves review by the hand of whoever claimed it last: a reviewer
   it was taken over from cannot resolve it any more. *)
HolderDecides ==
    [][\A r \in Reports :
           report'[r].status = "resolved" /\ report[r].status # "resolved"
               => report[r].status = "reviewing" /\ report'[r].reviewer = report[r].reviewer]_vars

(* H-50 and the resolved state: a report somebody claimed is never pending,
   hence never flagged as overdue, again; a decision is never revised. *)
NeverReopened ==
    [][\A r \in Reports :
           /\ report[r].status \in {"reviewing", "resolved"} => ~Breached(r)'
           /\ report[r].status = "resolved" => report'[r] = report[r]]_vars
=============================================================================
