--------------------------- MODULE RatingSupersede ----------------------------
(***************************************************************************)
(* Submission and review of ratings: rating/service.rs and rating/repo.rs  *)
(* over the table ratings and its partial unique index                     *)
(* uq_ratings_one_current (account, supervisor, dim) WHERE superseded_by   *)
(* IS NULL.                                                                *)
(*                                                                         *)
(* A submission is a lookup, one transaction of up to three statements     *)
(* (detach the old row by a self-reference, insert the new row, attach the *)
(* old row to it) and a classification after the transaction.  Statements  *)
(* are separate actions; a transaction's writes reach the table at Commit, *)
(* its row locks and index entries are held until then.                    *)
(***************************************************************************)
EXTENDS FiniteSets

CONSTANTS
    Workers,      \* concurrent calls of submit
    Ratings,      \* ids the rows may get
    NoRating,     \* NULL
    KeyOf,        \* (account, supervisor, dim) of a row
    P0,           \* rows whose additional text classifies as P0_strict
    AutoPass,     \* REVIEW__MODE = auto_pass
    CanFail       \* a call may be cut short (client gone, crash, DB error)

ASSUME ConstantsAssumption ==
    /\ NoRating \notin Ratings
    /\ DOMAIN KeyOf = Ratings
    /\ P0 \subseteq Ratings
    /\ AutoPass \in BOOLEAN
    /\ CanFail \in BOOLEAN

VARIABLES
    ratings,      \* committed rows
    successor,    \* ratings.superseded_by, NoRating for NULL
    status,       \* ratings.review_status
    flagged,      \* rows whose sensitivity_flags is not NULL
    reviewed,     \* rows whose reviewer_id is not NULL
    pc, job, old  \* each worker: next statement, its new row, the row it replaces

vars == <<ratings, successor, status, flagged, reviewed, pc, job, old>>
review == <<status, flagged, reviewed>>
table == <<ratings, successor, review>>

Statements == {"idle", "detach", "insert", "attach", "commit", "classify"}

Key(w) == KeyOf[job[w]]
Replaces(w) == old[w] # NoRating

IsCurrent(r) == r \in ratings /\ successor[r] = NoRating

(* The row lock of UPDATE ... WHERE id = old, from step 1 to Commit. *)
HoldsRow(w, r) == pc[w] \in {"insert", "attach", "commit"} /\ old[w] = r

(* Mutant: the key is held from before the INSERT is granted. *)
HoldsKeyWaiting(w, k) ==
    job[w] # NoRating /\ Key(w) = k /\ pc[w] \in {"insert", "attach", "commit"}

(* The index entry an INSERT of the same key has to wait for: of the row the
   transaction inserted, or of the current row it has detached. *)
HoldsKey(w, k) ==
    /\ job[w] # NoRating
    /\ Key(w) = k
    /\ \/ pc[w] \in {"attach", "commit"}
       \/ pc[w] = "insert" /\ Replaces(w) /\ IsCurrent(old[w])

Init ==
    /\ ratings = {}
    /\ successor = [r \in Ratings |-> NoRating]
    /\ status = [r \in Ratings |-> "none"]
    /\ flagged = {}
    /\ reviewed = {}
    /\ pc = [w \in Workers |-> "idle"]
    /\ job = [w \in Workers |-> NoRating]
    /\ old = [w \in Workers |-> NoRating]

Goto(w, statement) == pc' = [pc EXCEPT ![w] = statement]

Return(w) ==
    /\ Goto(w, "idle")
    /\ job' = [job EXCEPT ![w] = NoRating]
    /\ old' = [old EXCEPT ![w] = NoRating]

-----------------------------------------------------------------------------
(* submit *)

(* find_current_rating, before the transaction opens. *)
Submit(w, r) ==
    /\ pc[w] = "idle"
    /\ r \notin ratings
    /\ \A v \in Workers : job[v] # r
    /\ job' = [job EXCEPT ![w] = r]
    /\ \/ \E s \in ratings : /\ IsCurrent(s)
                             /\ KeyOf[s] = KeyOf[r]
                             /\ old' = [old EXCEPT ![w] = s]
                             /\ Goto(w, "detach")
       \/ /\ \A s \in ratings : IsCurrent(s) => KeyOf[s] # KeyOf[r]
          /\ Goto(w, "insert")
          /\ UNCHANGED old
    /\ UNCHANGED table

(* Mutant: step 1 runs on the pool, outside the transaction. *)
DetachOutside(w) ==
    /\ pc[w] = "detach"
    /\ successor' = [successor EXCEPT ![old[w]] = old[w]]
    /\ Goto(w, "insert")
    /\ UNCHANGED <<ratings, review, job, old>>

(* Step 1, SET superseded_by = id: frees the index slot, by id alone.  The
   row may have been superseded since the lookup, or be locked. *)
Detach(w) ==
    /\ pc[w] = "detach"
    /\ \A v \in Workers \ {w} : ~HoldsRow(v, old[w])
    /\ Goto(w, "insert")
    /\ UNCHANGED <<table, job, old>>

(* Mutants: no unique index; a unique index that ignores a violation. *)
InsertUnlocked(w) ==
    /\ pc[w] = "insert"
    /\ \A s \in ratings : (IsCurrent(s) /\ KeyOf[s] = Key(w)) => s = old[w]
    /\ Goto(w, IF Replaces(w) THEN "attach" ELSE "commit")
    /\ UNCHANGED <<table, job, old>>
InsertUnchecked(w) ==
    /\ pc[w] = "insert"
    /\ \A v \in Workers \ {w} : ~HoldsKey(v, Key(w))
    /\ Goto(w, IF Replaces(w) THEN "attach" ELSE "commit")
    /\ UNCHANGED <<table, job, old>>

(* Step 2.  A committed current row of the key, other than the detached one,
   is a unique violation: the transaction rolls back, the call fails. *)
Insert(w) ==
    /\ pc[w] = "insert"
    /\ \A v \in Workers \ {w} : ~HoldsKey(v, Key(w))
    /\ IF \E s \in ratings : IsCurrent(s) /\ KeyOf[s] = Key(w) /\ s # old[w]
         THEN Return(w)
         ELSE /\ Goto(w, IF Replaces(w) THEN "attach" ELSE "commit")
              /\ UNCHANGED <<job, old>>
    /\ UNCHANGED table

(* Step 3, on the row step 1 has locked. *)
Attach(w) ==
    /\ pc[w] = "attach"
    /\ Goto(w, "commit")
    /\ UNCHANGED <<table, job, old>>

(* Mutant: the row names itself, the second statement of the supersede is missing. *)
CommitSelfReference(w) ==
    /\ pc[w] = "commit"
    /\ ratings' = ratings \cup {job[w]}
    /\ status' = [status EXCEPT ![job[w]] = "pending_review"]
    /\ successor' = IF Replaces(w) THEN [successor EXCEPT ![old[w]] = old[w]]
                                   ELSE successor
    /\ Goto(w, "classify")
    /\ old' = [old EXCEPT ![w] = NoRating]
    /\ UNCHANGED <<flagged, reviewed, job>>

Commit(w) ==
    /\ pc[w] = "commit"
    /\ ratings' = ratings \cup {job[w]}
    /\ status' = [status EXCEPT ![job[w]] = "pending_review"]
    /\ successor' = IF Replaces(w) THEN [successor EXCEPT ![old[w]] = job[w]]
                                   ELSE successor
    /\ Goto(w, "classify")
    /\ old' = [old EXCEPT ![w] = NoRating]
    /\ UNCHANGED <<flagged, reviewed, job>>

(* Mutant: auto_pass approves P0 texts too. *)
ClassifyP0Passes(w) ==
    /\ pc[w] = "classify"
    /\ status' = [status EXCEPT ![job[w]] = IF AutoPass THEN "approved"
                                                        ELSE "pending_review"]
    /\ flagged' = flagged \cup {job[w]}
    /\ Return(w)
    /\ UNCHANGED <<ratings, successor, reviewed>>

(* apply_sensitivity: a statement of its own, which overwrites the status
   whatever it is by then.  Its error is discarded. *)
Classify(w) ==
    /\ pc[w] = "classify"
    /\ \A v \in Workers : ~HoldsRow(v, job[w])
    /\ flagged' = flagged \cup {job[w]}
    /\ status' = [status EXCEPT ![job[w]] = IF AutoPass /\ job[w] \notin P0
                                            THEN "approved"
                                            ELSE "pending_review"]
    /\ Return(w)
    /\ UNCHANGED <<ratings, successor, reviewed>>

-----------------------------------------------------------------------------
(* approve_rating and reject_rating: one UPDATE by id, no status guard. *)
Decide(r, verdict) ==
    /\ r \in ratings
    /\ \A v \in Workers : ~HoldsRow(v, r)
    /\ status' = [status EXCEPT ![r] = verdict]
    /\ reviewed' = reviewed \cup {r}
    /\ UNCHANGED <<ratings, successor, flagged, pc, job, old>>

Review(r) == Decide(r, "approved") \/ Decide(r, "rejected")

(* The call is dropped or fails; an open transaction rolls back. *)
Fail(w) ==
    /\ CanFail
    /\ pc[w] # "idle"
    /\ Return(w)
    /\ UNCHANGED table

Advance(w) == \/ Detach(w) \/ Insert(w) \/ Attach(w) \/ Commit(w) \/ Classify(w)

Next == \/ \E w \in Workers : \/ Advance(w)
                              \/ Fail(w)
                              \/ \E r \in Ratings : Submit(w, r)
        \/ \E r \in Ratings : Review(r)

Spec == Init /\ [][Next]_vars

(* The runtime keeps polling a started call; one that waits for a row or an
   index entry is woken when the transaction that holds it ends, and so is not
   overtaken for ever: strong fairness. *)
FairSpec == Spec /\ \A w \in Workers : SF_vars(Advance(w))

-----------------------------------------------------------------------------
TypeOK ==
    /\ ratings \subseteq Ratings
    /\ successor \in [Ratings -> Ratings \cup {NoRating}]
    /\ status \in [Ratings -> {"none", "pending_review", "approved", "rejected"}]
    /\ flagged \subseteq Ratings
    /\ reviewed \subseteq Ratings
    /\ pc \in [Workers -> Statements]
    /\ job \in [Workers -> Ratings \cup {NoRating}]
    /\ old \in [Workers -> Ratings \cup {NoRating}]
    /\ \A w \in Workers : pc[w] # "idle" => job[w] \in Ratings

(* B-9: once an account has rated a dimension of a supervisor it has exactly
   one current rating of it, whatever submissions race, fail or are cut. *)
OneCurrent ==
    /\ \A r, s \in ratings :
           (IsCurrent(r) /\ IsCurrent(s) /\ KeyOf[r] = KeyOf[s]) => r = s
    /\ \A r \in ratings : \E s \in ratings : IsCurrent(s) /\ KeyOf[s] = KeyOf[r]

(* H-31: the self-reference of step 1 never outlives its transaction, and the
   chain of superseded rows leads, within its key, to a row that is current:
   no set of superseded rows points only into itself. *)
ChainsEndAtCurrent ==
    /\ \A r \in ratings : ~IsCurrent(r) =>
           successor[r] \in ratings /\ KeyOf[successor[r]] = KeyOf[r]
    /\ \A S \in SUBSET ratings :
           (S # {} /\ \A r \in S : ~IsCurrent(r)) => \E r \in S : successor[r] \notin S

(* B-9 keeps the raw history: a committed link is never redirected or undone,
   and a committed row never leaves the table. *)
HistoryIsKept ==
    [][/\ ratings \subseteq ratings'
       /\ \A r \in ratings : ~IsCurrent(r) => successor'[r] = successor[r]]_vars

(* G-12 and service.rs: what no person has decided on is public only if its
   classification ran and found no P0 in it, in auto_pass mode too, however
   decisions and classifications interleave and wherever a call is cut. *)
P0NeedsReviewer ==
    \A r \in Ratings :
        status[r] = "approved" /\ r \notin reviewed => r \in flagged \ P0

(* G-11, pending_review -> approved / rejected: a decision of a reviewer is
   only replaced by another decision, never taken back to the queue. *)
DecisionStands ==
    [][\A r \in reviewed : status'[r] # "pending_review"]_vars

(* Submissions wait for each other's rows and keys, and all return. *)
SubmissionsReturn == \A w \in Workers : (pc[w] # "idle") ~> (pc[w] = "idle")

(* Every behaviour is one of CurrentRatings: Commit is Submit there. *)
History == INSTANCE CurrentRatings
               WITH current <- {r \in ratings : IsCurrent(r)},
                    past <- {r \in ratings : ~IsCurrent(r)}
ImplementsHistory == History!Spec
=============================================================================
