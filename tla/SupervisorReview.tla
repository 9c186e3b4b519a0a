--------------------------- MODULE SupervisorReview ---------------------------
(***************************************************************************)
(* Creation and review of supervisor entries: supervisor/service.rs and    *)
(* supervisor/repo.rs over the tables supervisors,                         *)
(* supervisor_name_mappings and supervisor_creation_requests.              *)
(*                                                                         *)
(* Each HTTP call is a worker.  A statement outside a transaction is one   *)
(* action; approve_request is one PostgreSQL transaction (READ COMMITTED)  *)
(* and its statements are separate actions, because other transactions     *)
(* commit between them.  The rows a transaction has written are kept with  *)
(* the worker until Commit.                                                *)
(*                                                                         *)
(* A request id also names the supervisor row its approval inserts: both   *)
(* rows of one request carry the same UNIQUE public_code, so at most one   *)
(* of them exists at a time.                                               *)
(***************************************************************************)
EXTENDS Naturals, FiniteSets

CONSTANTS
    Workers,      \* concurrent HTTP calls
    Requests,     \* ids the creation requests may get
    NoRequest,    \* an idle worker's job
    TripleOf,     \* what a request submits: (name, discipline, college)
    BucketOf,     \* the (discipline, college) part of a triple
    AliasOf,      \* AliasGenerator::generate(triple, salt 0)
    K,            \* K_ANON_THRESHOLD
    AutoPass,     \* REVIEW__MODE = auto_pass
    CanFail       \* a call may be cut short (client gone, crash, DB error)

Triples == {TripleOf[r] : r \in Requests}
Bucket(r) == BucketOf[TripleOf[r]]
Alias(r) == AliasOf[TripleOf[r]]

ASSUME ConstantsAssumption ==
    /\ IsFiniteSet(Requests)
    /\ NoRequest \notin Requests
    /\ DOMAIN TripleOf = Requests
    /\ K \in Nat
    /\ AutoPass \in BOOLEAN
    /\ CanFail \in BOOLEAN

VARIABLES
    status,       \* supervisor_creation_requests.review_status, or "none"
    resolved,     \* supervisor_creation_requests.resolved_supervisor_id # NULL
    supervisors,  \* committed rows of supervisors, all 'approved'
    mappings,     \* committed rows of supervisor_name_mappings
    kcount,       \* supervisors.k_anonymity_count
    pc, job,      \* each worker: its next statement and the request it is for
    counted,      \* each worker: the k its transaction has read
    snapshot      \* each worker: the rows its last UPDATE matches

vars == <<status, resolved, supervisors, mappings, kcount,
          pc, job, counted, snapshot>>

dbVars == <<status, resolved, supervisors, mappings, kcount>>

(* The statement a worker runs next; in a transaction from "mark" on. *)
Statements == {"idle", "submit", "read", "insert",
               "mark", "count", "match", "update", "commit"}
InTx(w) == pc[w] \in {"mark", "count", "match", "update", "commit"}

(* Row locks and unique-index entries held by an open transaction. *)
HoldsKeys(w, r) == InTx(w) /\ (Alias(job[w]) = Alias(r)
                               \/ TripleOf[job[w]] = TripleOf[r])
HoldsRequest(w, r) == pc[w] \in {"count", "match", "update", "commit"} /\ job[w] = r
(* Mutant: rows are locked one by one while waiting for the others. *)
HoldsRowWaiting(w, s) == pc[w] \in {"update", "commit"} /\ s \in snapshot[w]
HoldsRow(w, s) == pc[w] = "commit" /\ s \in snapshot[w]

BucketRows(rows, r) == {s \in rows : Bucket(s) = Bucket(r)}

(* find_request_by_id and the status check, and what list_pending_review lists. *)
Pending(r) == status[r] = "pending_review"

(* What a statement of w's transaction sees: committed rows and its own. *)
Sees(w) == supervisors \cup {job[w]}

Init ==
    /\ status = [r \in Requests |-> "none"]
    /\ resolved = [r \in Requests |-> FALSE]
    /\ supervisors = {}
    /\ mappings = {}
    /\ kcount = [r \in Requests |-> 0]
    /\ pc = [w \in Workers |-> "idle"]
    /\ job = [w \in Workers |-> NoRequest]
    /\ counted = [w \in Workers |-> 0]
    /\ snapshot = [w \in Workers |-> {}]

Goto(w, statement) == pc' = [pc EXCEPT ![w] = statement]

(* The call ends: its result goes out, or an error does. *)
Return(w) ==
    /\ Goto(w, "idle")
    /\ job' = [job EXCEPT ![w] = NoRequest]
    /\ counted' = [counted EXCEPT ![w] = 0]
    /\ snapshot' = [snapshot EXCEPT ![w] = {}]

-----------------------------------------------------------------------------
(* create_request *)

(* Steps 1-3: the dedup lookup finds no mapping, the call goes on to insert
   a request.  When it finds one the call returns Deduplicated, a stutter. *)
Submit(w, r) ==
    /\ pc[w] = "idle"
    /\ status[r] = "none"
    /\ \A v \in Workers : job[v] # r
    /\ \A s \in mappings : TripleOf[s] # TripleOf[r]
    /\ Goto(w, "submit")
    /\ job' = [job EXCEPT ![w] = r]
    /\ UNCHANGED <<dbVars, counted, snapshot>>

(* insert_creation_request *)
InsertRow(r) == status' = [status EXCEPT ![r] = "pending_review"]

InsertRequest(w) ==
    /\ pc[w] = "submit"
    /\ InsertRow(job[w])
    /\ IF AutoPass THEN Goto(w, "read") /\ UNCHANGED <<job, counted, snapshot>>
                   ELSE Return(w)
    /\ UNCHANGED <<resolved, supervisors, mappings, kcount>>

-----------------------------------------------------------------------------
(* approve and reject *)

(* A reviewer's POST /supervisors/review/:id with action approve. *)
Review(w, r) ==
    /\ pc[w] = "idle"
    /\ status[r] # "none"
    /\ Goto(w, "read")
    /\ job' = [job EXCEPT ![w] = r]
    /\ UNCHANGED <<dbVars, counted, snapshot>>

(* The request is looked up before the transaction. *)
ReadRequest(w) ==
    /\ pc[w] = "read"
    /\ IF Pending(job[w])
         THEN Goto(w, "insert") /\ UNCHANGED <<job, counted, snapshot>>
         ELSE Return(w)
    /\ UNCHANGED dbVars

(* Mutant: the table without its unique indexes, checked by a SELECT. *)
InsertEntryUnlocked(w) ==
    /\ pc[w] = "insert"
    /\ \A s \in supervisors : Alias(s) # Alias(job[w])
    /\ Goto(w, "mark")
    /\ UNCHANGED <<dbVars, job, counted, snapshot>>

(* Statements 1 and 2, the supervisor and its mapping.  A committed row with
   an equal public_code, alias or dedup triple is a unique violation and the
   call fails; an uncommitted one makes the INSERT wait for its owner. *)
InsertEntry(w) ==
    LET r == job[w]
    IN  /\ pc[w] = "insert"
        /\ \A v \in Workers \ {w} : ~HoldsKeys(v, r)
        /\ IF \/ \E s \in supervisors : Alias(s) = Alias(r)
              \/ \E s \in mappings : TripleOf[s] = TripleOf[r]
             THEN Return(w)
             ELSE Goto(w, "mark") /\ UNCHANGED <<job, counted, snapshot>>
        /\ UNCHANGED dbVars

(* Mutant: the status is written through the pool, not the transaction. *)
MarkApprovedOutside(w) ==
    /\ pc[w] = "mark"
    /\ status' = [status EXCEPT ![job[w]] = "approved"]
    /\ Goto(w, "count")
    /\ UNCHANGED <<resolved, supervisors, mappings, kcount, job, counted, snapshot>>

(* Statement 3 has no status guard: it takes the row lock and will write
   'approved' over whatever is there. *)
MarkApproved(w) ==
    /\ pc[w] = "mark"
    /\ \A v \in Workers \ {w} : ~HoldsRequest(v, job[w])
    /\ Goto(w, "count")
    /\ UNCHANGED <<dbVars, job, counted, snapshot>>

(* Mutant: adds one for the new row, which the COUNT already sees. *)
CountBucketTwice(w) ==
    /\ pc[w] = "count"
    /\ counted' = [counted EXCEPT ![w] = Cardinality(BucketRows(Sees(w), job[w])) + 1]
    /\ Goto(w, "match")
    /\ UNCHANGED <<dbVars, job, snapshot>>

(* Statement 4: the COUNT sees committed rows and its own, no other's. *)
CountBucket(w) ==
    /\ pc[w] = "count"
    /\ counted' = [counted EXCEPT ![w] = Cardinality(BucketRows(Sees(w), job[w]))]
    /\ Goto(w, "match")
    /\ UNCHANGED <<dbVars, job, snapshot>>

(* Mutant: the UPDATE without its WHERE. *)
MatchRowsEverywhere(w) ==
    /\ pc[w] = "match"
    /\ snapshot' = [snapshot EXCEPT ![w] = Sees(w)]
    /\ Goto(w, "update")
    /\ UNCHANGED <<dbVars, job, counted>>

(* Statement 5 starts: the rows it will write are fixed by its snapshot,
   taken before it waits for any row lock. *)
MatchRows(w) ==
    /\ pc[w] = "match"
    /\ snapshot' = [snapshot EXCEPT ![w] = BucketRows(Sees(w), job[w])]
    /\ Goto(w, "update")
    /\ UNCHANGED <<dbVars, job, counted>>

(* Mutant: the counts are written through the pool, before Commit. *)
UpdateCountsOutside(w) ==
    /\ pc[w] = "update"
    /\ kcount' = [s \in Requests |-> IF s \in snapshot[w] THEN counted[w]
                                                          ELSE kcount[s]]
    /\ Goto(w, "commit")
    /\ UNCHANGED <<status, resolved, supervisors, mappings, job, counted, snapshot>>

(* Statement 5 gets all its row locks. *)
UpdateCounts(w) ==
    /\ pc[w] = "update"
    /\ \A v \in Workers \ {w} : \A s \in snapshot[w] : ~HoldsRow(v, s)
    /\ Goto(w, "commit")
    /\ UNCHANGED <<dbVars, job, counted, snapshot>>

Commit(w) ==
    /\ pc[w] = "commit"
    /\ status' = [status EXCEPT ![job[w]] = "approved"]
    /\ resolved' = [resolved EXCEPT ![job[w]] = TRUE]
    /\ supervisors' = supervisors \cup {job[w]}
    /\ mappings' = mappings \cup {job[w]}
    /\ kcount' = [s \in Requests |-> IF s \in snapshot[w] THEN counted[w]
                                                          ELSE kcount[s]]
    /\ Return(w)

(* reject_request: one UPDATE, also without a status guard. *)
Reject(r) ==
    /\ status[r] # "none"
    /\ \A v \in Workers : ~HoldsRequest(v, r)
    /\ status' = [status EXCEPT ![r] = "rejected"]
    /\ UNCHANGED <<resolved, supervisors, mappings, kcount,
                   pc, job, counted, snapshot>>

(* The handler is dropped or the server dies: an open transaction rolls
   back, what was committed before it stays. *)
Fail(w) ==
    /\ CanFail
    /\ pc[w] # "idle"
    /\ Return(w)
    /\ UNCHANGED dbVars

-----------------------------------------------------------------------------
Advance(w) == \/ InsertRequest(w) \/ ReadRequest(w) \/ InsertEntry(w)
              \/ MarkApproved(w)  \/ CountBucket(w) \/ MatchRows(w)
              \/ UpdateCounts(w)  \/ Commit(w)

Next == \/ \E w \in Workers : \/ Advance(w)
                              \/ Fail(w)
                              \/ \E r \in Requests : Submit(w, r) \/ Review(w, r)
        \/ \E r \in Requests : Reject(r)

Spec == Init /\ [][Next]_vars

(* The runtime keeps polling a started call.  A call that waits for a lock is
   woken when its holder's transaction ends, so it cannot be overtaken for
   ever: strong fairness.  Nobody has to submit or review anything. *)
FairSpec == Spec /\ \A w \in Workers : SF_vars(Advance(w))

-----------------------------------------------------------------------------
(* The flag of an entry's own page, and the rows search finds with its r. *)
Visible(s) == s \in supervisors /\ kcount[s] >= K
Listed(r) == {s \in BucketRows(supervisors, r) : kcount[s] >= K}
Population(s) == Cardinality(BucketRows(supervisors, s))

TypeOK ==
    /\ status \in [Requests -> {"none", "pending_review", "approved", "rejected"}]
    /\ resolved \in [Requests -> BOOLEAN]
    /\ supervisors \subseteq Requests
    /\ mappings \subseteq Requests
    /\ kcount \in [Requests -> Nat]
    /\ pc \in [Workers -> Statements]
    /\ job \in [Workers -> Requests \cup {NoRequest}]
    /\ \A w \in Workers : pc[w] # "idle" => job[w] \in Requests
    /\ counted \in [Workers -> Nat]
    /\ snapshot \in [Workers -> SUBSET Requests]

(* G-14: an entry that search lists, or that its own page marks as visible,
   has at least K approved entries in its (discipline, college), whatever
   approvals interleave or fail. *)
KAnonymity ==
    /\ \A s \in supervisors : Visible(s) => Population(s) >= K
    /\ \A r \in Requests : Listed(r) # {} => Population(r) >= K

(* The stored count never overstates its bucket: the fact KAnonymity needs
   of the unsynchronised COUNT and UPDATE of approve_request. *)
KCountBound == \A s \in supervisors : kcount[s] <= Population(s)

(* G-19 and G-20: two entries never share a submitted triple nor an alias,
   although duplicate requests may be pending and approved concurrently. *)
OneEntryPerTripleAndAlias ==
    \A s, t \in supervisors :
        s # t => TripleOf[s] # TripleOf[t] /\ Alias(s) # Alias(t)

(* A request that says approved owns a committed entry and its mapping: no
   interleaving or failure leaves half of an approval behind. *)
ApprovedHasEntry ==
    /\ \A r \in Requests : status[r] = "approved" => r \in supervisors
    /\ \A r \in Requests : resolved[r] <=> r \in supervisors
    /\ supervisors = mappings

(* The comment of the column k_anonymity_count: it is the number of approved
   entries of the bucket.  Stated when no call is running. *)
KCountExact ==
    (\A w \in Workers : pc[w] = "idle") =>
        \A s \in supervisors : kcount[s] = Population(s)

(* Calls wait for each other's unique keys, request rows and bucket rows;
   every call still returns: the locks are never awaited in a circle. *)
CallsReturn == \A w \in Workers : (pc[w] # "idle") ~> (pc[w] = "idle")

(* Every behaviour is one of SupervisorDirectory: a committed approval is
   Publish, every other statement changes nothing the public can see. *)
Directory == INSTANCE SupervisorDirectory
                 WITH entries <- supervisors,
                      shown <- {s \in supervisors : Visible(s)}
ImplementsDirectory == Directory!Spec
=============================================================================
