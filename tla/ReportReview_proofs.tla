------------------------- MODULE ReportReview_proofs -------------------------
(***************************************************************************)
(* Proofs about ReportReview, for any number of calls, accounts, targets   *)
(* and reports.  The inductive invariant says what the checks of a         *)
(* submission leave behind in its locals: nothing is read again at the     *)
(* INSERT.                                                                 *)
(***************************************************************************)
EXTENDS ReportReview, TLAPS

Rows == [status : {"none", "pending", "reviewing", "resolved"},
         by : Accounts \cup {NoAccount}, kind : Kinds, target : Ids \cup {NoAccount},
         reviewer : Accounts \cup {NoAccount},
         resolution : Resolutions \cup {NoResolution}]
Audits == [pc : {"audit"}, report : Reports]
Calls == {Idle} \cup Requests \cup Audits

InTable(c) == c.target \in IF c.kind = "supervisor" THEN Supervisors ELSE Ratings

CheckedCalls ==
    \A w \in Workers :
        /\ call[w].pc \in {"target", "insert"} => ~OwnTarget(call[w])
        /\ call[w].pc = "insert" => InTable(call[w])
        /\ call[w].pc = "audit" => report[call[w].report].status # "none"

CheckedReports ==
    \A r \in Reports : report[r].status # "none" => ~OwnTarget(report[r]) /\ InTable(report[r])

Inv == TypeOK /\ CheckedCalls /\ CheckedReports /\ AuditedReportsExist

LEMMA Types == TypeOK <=> /\ report \in [Reports -> Rows]
                          /\ overdue \in 0 .. MaxReports
                          /\ gone \subseteq Ids
                          /\ audited \subseteq Reports
                          /\ call \in [Workers -> Calls]
  BY DEF TypeOK, Rows, Calls, Audits

LEMMA CallKinds ==
    ASSUME NEW c \in Calls
    PROVE  /\ c.pc \in {"author", "target", "insert"} => c \in Requests
           /\ c.pc = "audit" => c \in Audits
  BY DEF Calls, Requests, Audits, Idle

LEMMA InitInv == Init => Inv
  <1> SUFFICES ASSUME Init PROVE Inv
    OBVIOUS
  <1>1. NoReport \in Rows /\ NoReport.status = "none"
    BY DEF NoReport, Rows, Kinds
  <1>2. TypeOK
    BY <1>1, ConstantsAssumption, Types DEF Init, Calls
  <1>3. CheckedCalls /\ CheckedReports /\ AuditedReportsExist
    BY <1>1 DEF Init, CheckedCalls, CheckedReports, AuditedReportsExist, Idle
  <1> QED
    BY <1>2, <1>3 DEF Inv

(* A step that changes one call alone keeps the invariant if the call has
   passed the checks of its new statement. *)
LEMMA CallStep ==
    ASSUME Inv, NEW w \in Workers, NEW next \in Calls, Continue(w, next),
           UNCHANGED <<report, overdue, gone, audited>>,
           next.pc \in {"target", "insert"} => ~OwnTarget(next),
           next.pc = "insert" => InTable(next),
           next.pc # "audit"
    PROVE  Inv'
  <1>1. /\ call' \in [Workers -> Calls] /\ call'[w] = next
        /\ \A x \in Workers \ {w} : call'[x] = call[x]
    BY Types DEF Inv, Continue
  <1>2. TypeOK'
    BY <1>1, Types DEF Inv, TypeOK, Rows, Calls, Audits
  <1>3. CheckedCalls'
    BY <1>1 DEF Inv, CheckedCalls, OwnTarget, InTable
  <1>4. CheckedReports' /\ AuditedReportsExist'
    BY DEF Inv, CheckedReports, AuditedReportsExist, OwnTarget, InTable
  <1> QED
    BY <1>2, <1>3, <1>4 DEF Inv

(* A row that is only moved within the review keeps the invariant. *)
LEMMA RowStep ==
    ASSUME Inv, NEW r \in Reports, NEW row \in Rows,
           report' = [report EXCEPT ![r] = row],
           UNCHANGED <<overdue, gone, audited, call>>,
           report[r].status # "none", row.status # "none",
           row.by = report[r].by, row.kind = report[r].kind, row.target = report[r].target
    PROVE  Inv'
  <1>1. /\ report' \in [Reports -> Rows] /\ report'[r] = row
        /\ \A q \in Reports \ {r} : report'[q] = report[q]
    BY Types DEF Inv
  <1>2. TypeOK'
    BY <1>1, Types DEF Inv, TypeOK, Rows
  <1>3. CheckedReports'
    BY <1>1 DEF Inv, CheckedReports, OwnTarget, InTable
  <1>4. \A q \in Reports : report[q].status # "none" => report'[q].status # "none"
    BY <1>1
  <1>5. AuditedReportsExist'
    BY <1>4, Types DEF Inv, AuditedReportsExist
  <1>6. CheckedCalls'
    <2> SUFFICES ASSUME NEW w \in Workers, call[w].pc = "audit"
                 PROVE  report'[call[w].report].status # "none"
      BY DEF Inv, CheckedCalls, OwnTarget, InTable
    <2>1. call[w].report \in Reports
      BY Types, CallKinds DEF Inv, Audits
    <2> QED
      BY <1>4, <2>1 DEF Inv, CheckedCalls
  <1> QED
    BY <1>2, <1>3, <1>5, <1>6 DEF Inv

LEMMA InsertStep == ASSUME Inv, NEW w \in Workers, InsertReport(w) PROVE Inv'
  <1> DEFINE c == call[w]
  <1>1. PICK r \in Reports :
            /\ report[r].status = "none"
            /\ report' = [report EXCEPT ![r] =
                   [NoReport EXCEPT !.status = "pending", !.by = c.by,
                                    !.kind = c.kind, !.target = c.target]]
            /\ Continue(w, [pc |-> "audit", report |-> r])
    BY DEF InsertReport
  <1> DEFINE row == [NoReport EXCEPT !.status = "pending", !.by = c.by,
                                     !.kind = c.kind, !.target = c.target]
             audit == [pc |-> "audit", report |-> r]
  <1>2. c \in Requests /\ c.pc = "insert" /\ UNCHANGED <<overdue, gone, audited>>
    BY Types, CallKinds DEF InsertReport, Inv
  <1>3. row \in Rows /\ row.status = "pending" /\ row.by = c.by /\ row.kind = c.kind
        /\ row.target = c.target
    BY <1>2 DEF Requests, Rows, NoReport
  <1>4. ~OwnTarget(row) /\ InTable(row)
    BY <1>2, <1>3 DEF Inv, CheckedCalls, OwnTarget, InTable
  <1> HIDE DEF row
  <1>5. /\ report' \in [Reports -> Rows] /\ report'[r] = row
        /\ \A q \in Reports \ {r} : report'[q] = report[q]
    BY <1>1, <1>3, Types DEF Inv, row
  <1>6. audit \in Calls /\ audit.pc = "audit" /\ audit.report = r
    BY DEF Calls, Audits
  <1>7. /\ call' \in [Workers -> Calls] /\ call'[w] = audit
        /\ \A x \in Workers \ {w} : call'[x] = call[x]
    BY <1>1, <1>6, Types DEF Inv, Continue
  <1>8. TypeOK'
    BY <1>2, <1>5, <1>7, Types DEF Inv, TypeOK, Rows, Calls, Audits
  <1>9. \A q \in Reports : report[q].status # "none" => report'[q].status # "none"
    BY <1>1, <1>5
  <1>10. CheckedReports'
    <2> SUFFICES ASSUME NEW q \in Reports, report'[q].status # "none"
                 PROVE  ~OwnTarget(report'[q]) /\ InTable(report'[q])
      BY DEF CheckedReports, OwnTarget, InTable
    <2> QED
      BY <1>4, <1>5 DEF Inv, CheckedReports
  <1>11. AuditedReportsExist'
    BY <1>2, <1>9, Types DEF Inv, AuditedReportsExist
  <1>12. CheckedCalls'
    <2> SUFFICES ASSUME NEW x \in Workers
                 PROVE  /\ call'[x].pc \in {"target", "insert"} => ~OwnTarget(call'[x])
                        /\ call'[x].pc = "insert" => InTable(call'[x])
                        /\ call'[x].pc = "audit" => report'[call'[x].report].status # "none"
      BY DEF CheckedCalls, OwnTarget, InTable
    <2>1. CASE x = w
      BY <1>3, <1>5, <1>6, <1>7, <2>1
    <2>2. CASE x # w
      <3>1. call[x].pc = "audit" => call[x].report \in Reports
        BY Types, CallKinds DEF Inv, Audits
      <3> QED
        BY <1>7, <1>9, <2>2, <3>1 DEF Inv, CheckedCalls
    <2> QED
      BY <2>1, <2>2
  <1> QED
    BY <1>8, <1>10, <1>11, <1>12 DEF Inv

LEMMA NextInv == Inv /\ [Next]_vars => Inv'
  <1> SUFFICES ASSUME Inv, [Next]_vars PROVE Inv'
    OBVIOUS
  <1> Idle \in Calls /\ Idle.pc = "idle"
    BY DEF Calls, Idle
  <1>0. CASE UNCHANGED vars
    BY <1>0 DEF vars, Inv, TypeOK, CheckedCalls, CheckedReports, AuditedReportsExist,
         OwnTarget, InTable
  <1>1. ASSUME NEW w \in Workers, NEW a \in Accounts, NEW k \in Kinds, NEW id \in Ids,
               Submit(w, a, k, id)
        PROVE  Inv'
    <2> DEFINE next == [pc |-> "author", by |-> a, kind |-> k, target |-> id]
    <2>1. next \in Calls /\ next.pc = "author"
      BY DEF Calls, Requests
    <2> QED
      BY <1>1, <2>1, CallStep DEF Submit
  <1>2. ASSUME NEW w \in Workers, CheckAuthor(w) PROVE Inv'
    <2> DEFINE c == call[w]
               next == [c EXCEPT !.pc = "target"]
    <2>1. c \in Requests
      BY <1>2, Types, CallKinds DEF CheckAuthor, Inv
    <2>2. next \in Calls /\ next.pc = "target" /\ next.by = c.by /\ next.kind = c.kind
          /\ next.target = c.target
      BY <2>1 DEF Calls, Requests
    <2>3. OwnTarget(next) <=> OwnTarget(c)
      BY <2>2 DEF OwnTarget
    <2> QED
      BY <1>2, <2>2, <2>3, CallStep DEF CheckAuthor, Return
  <1>3. ASSUME NEW w \in Workers, CheckTarget(w) PROVE Inv'
    <2> DEFINE c == call[w]
               next == [c EXCEPT !.pc = "insert"]
    <2>1. c \in Requests /\ c.pc = "target" /\ ~OwnTarget(c)
      BY <1>3, Types, CallKinds DEF CheckTarget, Inv, CheckedCalls
    <2>2. next \in Calls /\ next.pc = "insert" /\ next.by = c.by /\ next.kind = c.kind
          /\ next.target = c.target /\ c.kind \in Kinds
      BY <2>1 DEF Calls, Requests
    <2>3. ~OwnTarget(next)
      BY <2>1, <2>2 DEF OwnTarget
    <2>4. TargetExists(c) => InTable(next)
      BY <2>2 DEF TargetExists, InTable, Kinds, RatingKinds
    <2> QED
      BY <1>3, <2>2, <2>3, <2>4, CallStep DEF CheckTarget, Return
  <1>4. ASSUME NEW w \in Workers, InsertReport(w) PROVE Inv'
    BY <1>4, InsertStep
  <1>5. ASSUME NEW w \in Workers, LogSubmission(w) PROVE Inv'
    <2> DEFINE r == call[w].report
    <2>1. r \in Reports /\ report[r].status # "none"
      BY <1>5, Types, CallKinds DEF LogSubmission, Inv, CheckedCalls, Audits
    <2>2. /\ call' \in [Workers -> Calls] /\ call'[w] = Idle
          /\ \A x \in Workers \ {w} : call'[x] = call[x]
      BY <1>5, Types DEF LogSubmission, Return, Continue, Inv
    <2>3. audited' \subseteq Reports /\ \A q \in audited' : q = r \/ q \in audited
      BY <1>5, <2>1, Types DEF LogSubmission, Inv
    <2>4. UNCHANGED <<report, overdue, gone>>
      BY <1>5 DEF LogSubmission
    <2>5. TypeOK'
      BY <2>2, <2>3, <2>4, Types DEF Inv, TypeOK, Calls, Audits
    <2>6. AuditedReportsExist'
      BY <2>1, <2>3, <2>4 DEF Inv, AuditedReportsExist
    <2>7. CheckedCalls' /\ CheckedReports'
      BY <2>2, <2>4 DEF Inv, CheckedCalls, CheckedReports, OwnTarget, InTable
    <2> QED
      BY <2>5, <2>6, <2>7 DEF Inv
  <1>6. ASSUME NEW w \in Workers, Fail(w) PROVE Inv'
    BY <1>6, CallStep DEF Fail, Return
  <1>7. ASSUME NEW a \in Accounts, NEW r \in Reports, Claim(a, r) PROVE Inv'
    <2> DEFINE row == [report[r] EXCEPT !.status = "reviewing", !.reviewer = a]
    <2>1. report[r] \in Rows
      BY Types DEF Inv
    <2>2. row \in Rows /\ row.status = "reviewing" /\ row.by = report[r].by
          /\ row.kind = report[r].kind /\ row.target = report[r].target
      BY <2>1 DEF Rows
    <2>3. report' = [report EXCEPT ![r] = row]
      BY <1>7, <2>1, Types DEF Claim, Inv, Rows
    <2> QED
      BY <1>7, <2>2, <2>3, RowStep DEF Claim
  <1>8. ASSUME NEW a \in Accounts, NEW r \in Reports, NEW d \in Resolutions, Resolve(a, r, d)
        PROVE  Inv'
    <2> DEFINE row == [report[r] EXCEPT !.status = "resolved", !.reviewer = a, !.resolution = d]
    <2>1. report[r] \in Rows
      BY Types DEF Inv
    <2>2. row \in Rows /\ row.status = "resolved" /\ row.by = report[r].by
          /\ row.kind = report[r].kind /\ row.target = report[r].target
      BY <2>1 DEF Rows
    <2>3. report' = [report EXCEPT ![r] = row]
      BY <1>8, <2>1, Types DEF Resolve, Inv, Rows
    <2> QED
      BY <1>8, <2>2, <2>3, RowStep DEF Resolve
  <1>9. ASSUME PassDeadline \/ \E id \in Ids : Vanish(id) PROVE Inv'
    <2>1. UNCHANGED <<report, audited, call>> /\ gone' \subseteq Ids /\ overdue' \in 0 .. MaxReports
      BY <1>9, ConstantsAssumption, Types DEF PassDeadline, Vanish, Inv
    <2>2. TypeOK'
      BY <2>1, Types DEF Inv, TypeOK
    <2> QED
      BY <2>1, <2>2 DEF Inv, CheckedCalls, CheckedReports, AuditedReportsExist, OwnTarget, InTable
  <1> QED
    BY <1>0, <1>1, <1>2, <1>3, <1>4, <1>5, <1>6, <1>7, <1>8, <1>9 DEF Next, Advance

(* What each statement of a submission has established stays true. *)
THEOREM InvHolds == Spec => []Inv
  BY InitInv, NextInv, PTL DEF Spec

-----------------------------------------------------------------------------
(* Every reachable state of the report component is well typed. *)
THEOREM TypeCorrect == Spec => []TypeOK
  BY InvHolds, PTL DEF Inv

(* H-49: no account has reported a rating it wrote. *)
THEOREM SelfReportsRefused == Spec => []NoSelfReport
  <1>1. Inv => NoSelfReport
    <2> SUFFICES ASSUME Inv, NEW r \in Reports, report[r].status # "none",
                        report[r].kind # "supervisor"
                 PROVE  report[r].by # AuthorOf[report[r].target]
      BY DEF NoSelfReport
    <2>1. report[r] \in Rows
      BY Types DEF Inv
    <2>2. report[r].kind \in RatingKinds /\ report[r].target \in Ratings
      BY <2>1 DEF Inv, CheckedReports, InTable, Rows, Kinds, RatingKinds
    <2> QED
      BY <2>2 DEF Inv, CheckedReports, OwnTarget
  <1> QED
    BY <1>1, InvHolds, PTL

(* A stored report is about a row of the table its kind names. *)
THEOREM TargetsHold == Spec => []TargetsAreReal
  <1>1. Inv => TargetsAreReal
    BY DEF Inv, CheckedReports, TargetsAreReal, InTable
  <1> QED
    BY <1>1, InvHolds, PTL

(* No audit row of a submission is about a report that was not stored. *)
THEOREM AuditsHold == Spec => []AuditedReportsExist
  BY InvHolds, PTL DEF Inv

(* How a step may change one row. *)
LEMMA RowMoves ==
    ASSUME Inv, [Next]_vars, NEW r \in Reports
    PROVE  \/ report'[r] = report[r]
           \/ report[r].status = "none" /\ report'[r].status = "pending"
           \/ report[r].status \in {"pending", "reviewing"} /\ report'[r].status = "reviewing"
           \/ /\ report[r].status = "reviewing" /\ report'[r].status = "resolved"
              /\ report'[r].reviewer = report[r].reviewer
  <1>0. report \in [Reports -> Rows]
    BY Types DEF Inv
  <1>1. CASE UNCHANGED report
    BY <1>1
  <1>2. ASSUME NEW w \in Workers, InsertReport(w)
        PROVE  \/ report'[r] = report[r]
               \/ report[r].status = "none" /\ report'[r].status = "pending"
    BY <1>0, <1>2 DEF InsertReport, NoReport
  <1>3. ASSUME NEW a \in Accounts, NEW q \in Reports, Claim(a, q)
        PROVE  \/ report'[r] = report[r]
               \/ report[r].status \in {"pending", "reviewing"} /\ report'[r].status = "reviewing"
    BY <1>0, <1>3 DEF Claim, Rows
  <1>4. ASSUME NEW a \in Accounts, NEW q \in Reports, NEW d \in Resolutions, Resolve(a, q, d)
        PROVE  \/ report'[r] = report[r]
               \/ /\ report[r].status = "reviewing" /\ report'[r].status = "resolved"
                  /\ report'[r].reviewer = report[r].reviewer
    BY <1>0, <1>4 DEF Resolve, Rows
  <1> QED
    BY <1>1, <1>2, <1>3, <1>4 DEF Next, Advance, vars, Submit, CheckAuthor, CheckTarget,
       LogSubmission, Fail, PassDeadline, Vanish

(* Only the last claimant resolves a report. *)
THEOREM HolderResolves == Spec => HolderDecides
  <1>1. Inv /\ [Next]_vars =>
          [\A r \in Reports :
             report'[r].status = "resolved" /\ report[r].status # "resolved"
                 => report[r].status = "reviewing" /\ report'[r].reviewer = report[r].reviewer]_vars
    BY RowMoves
  <1> QED
    BY <1>1, InvHolds, PTL DEF Spec, HolderDecides

(* What was claimed is never pending again, and a decision stands. *)
THEOREM ReviewGoesForward == Spec => NeverReopened
  <1>1. Inv /\ [Next]_vars =>
          [\A r \in Reports :
             /\ report[r].status \in {"reviewing", "resolved"} => ~Breached(r)'
             /\ report[r].status = "resolved" => report'[r] = report[r]]_vars
    <2> SUFFICES ASSUME Inv, [Next]_vars, NEW r \in Reports
                 PROVE  /\ report[r].status \in {"reviewing", "resolved"} => report'[r].status # "pending"
                        /\ report[r].status = "resolved" => report'[r] = report[r]
      BY DEF Breached
    <2> QED
      BY RowMoves
  <1> QED
    BY <1>1, InvHolds, PTL DEF Spec, NeverReopened
=============================================================================
