----------------------- MODULE SupervisorReview_proofs -----------------------
(***************************************************************************)
(* Proofs about SupervisorReview, for every set of workers, every finite   *)
(* set of requests, every assignment of triples, buckets and aliases, and  *)
(* every threshold K: the invariants and the refinement the runs of        *)
(* MCSupervisorReview check on four requests.                              *)
(***************************************************************************)
EXTENDS SupervisorReview, FiniteSetTheorems, TLAPS

(***************************************************************************)
(* The inductive invariant.  The invariants of the runs say nothing of an  *)
(* open transaction; what they need of one is that its keys are its own    *)
(* (the unique indexes), that what it counted is still there when it       *)
(* commits (entries are never deleted), and that the rows it will write    *)
(* are in the bucket it counted.                                           *)
(***************************************************************************)
OpenKeysFree ==
    \A w \in Workers : InTx(w) =>
        \A s \in supervisors : /\ TripleOf[s] # TripleOf[job[w]]
                               /\ Alias(s) # Alias(job[w])

OpenKeysDistinct ==
    \A v, w \in Workers : (v # w /\ InTx(v) /\ InTx(w)) =>
        /\ TripleOf[job[v]] # TripleOf[job[w]]
        /\ Alias(job[v]) # Alias(job[w])

CountedBound ==
    \A w \in Workers : pc[w] \in {"match", "update", "commit"} =>
        counted[w] <= Cardinality(BucketRows(Sees(w), job[w]))

SnapshotInBucket ==
    \A w \in Workers : pc[w] \in {"update", "commit"} =>
        /\ snapshot[w] \subseteq BucketRows(Sees(w), job[w])
        /\ job[w] \in snapshot[w]

IInv ==
    /\ TypeOK
    /\ OneEntryPerTripleAndAlias
    /\ ApprovedHasEntry
    /\ KCountBound
    /\ OpenKeysFree
    /\ OpenKeysDistinct
    /\ CountedBound
    /\ SnapshotInBucket

-----------------------------------------------------------------------------
(* Buckets of sets of rows. *)

LEMMA BucketCardinality ==
    ASSUME NEW rows, rows \subseteq Requests, NEW r
    PROVE  /\ IsFiniteSet(BucketRows(rows, r))
           /\ Cardinality(BucketRows(rows, r)) \in Nat
<1>1. BucketRows(rows, r) \subseteq Requests
    BY DEF BucketRows
<1>2. IsFiniteSet(BucketRows(rows, r))
    BY <1>1, ConstantsAssumption, FS_Subset
<1> QED
    BY <1>2, FS_CardinalityType

(* A bucket only grows with the table. *)
LEMMA BucketMonotone ==
    ASSUME NEW rows, NEW more, rows \subseteq more, more \subseteq Requests, NEW r
    PROVE  Cardinality(BucketRows(rows, r)) <= Cardinality(BucketRows(more, r))
<1>1. BucketRows(rows, r) \subseteq BucketRows(more, r)
    BY DEF BucketRows
<1>2. IsFiniteSet(BucketRows(more, r))
    BY BucketCardinality
<1> QED
    BY <1>1, <1>2, FS_Subset

LEMMA BucketOfMember ==
    ASSUME NEW rows, NEW r, NEW s \in BucketRows(rows, r), NEW others
    PROVE  BucketRows(others, s) = BucketRows(others, r)
BY DEF BucketRows

-----------------------------------------------------------------------------
LEMMA TypeStep == TypeOK /\ [Next]_vars => TypeOK'
<1> SUFFICES ASSUME TypeOK, [Next]_vars PROVE TypeOK'
    OBVIOUS
<1> USE DEF TypeOK, Statements
<1>1. ASSUME NEW w \in Workers, NEW r \in Requests, Submit(w, r) PROVE TypeOK'
    BY <1>1 DEF Submit, Goto, dbVars
<1>2. ASSUME NEW w \in Workers, InsertRequest(w) PROVE TypeOK'
    <2>1. job[w] \in Requests
        BY <1>2 DEF InsertRequest
    <2> QED BY <1>2, <2>1 DEF InsertRequest, InsertRow, Goto, Return
<1>3. ASSUME NEW w \in Workers, NEW r \in Requests, Review(w, r) PROVE TypeOK'
    BY <1>3 DEF Review, Goto, dbVars
<1>4. ASSUME NEW w \in Workers, ReadRequest(w) PROVE TypeOK'
    BY <1>4 DEF ReadRequest, Pending, Goto, Return, dbVars
<1>5. ASSUME NEW w \in Workers, InsertEntry(w) PROVE TypeOK'
    BY <1>5 DEF InsertEntry, Goto, Return, dbVars
<1>6. ASSUME NEW w \in Workers, MarkApproved(w) PROVE TypeOK'
    BY <1>6 DEF MarkApproved, Goto, dbVars
<1>7. ASSUME NEW w \in Workers, CountBucket(w) PROVE TypeOK'
    <2>1. Sees(w) \subseteq Requests
        BY <1>7 DEF CountBucket, Sees
    <2>2. Cardinality(BucketRows(Sees(w), job[w])) \in Nat
        BY <2>1, BucketCardinality
    <2> QED BY <1>7, <2>2 DEF CountBucket, Goto, dbVars
<1>8. ASSUME NEW w \in Workers, MatchRows(w) PROVE TypeOK'
    <2>1. BucketRows(Sees(w), job[w]) \subseteq Requests
        BY <1>8 DEF MatchRows, Sees, BucketRows
    <2> QED BY <1>8, <2>1 DEF MatchRows, Goto, dbVars
<1>9. ASSUME NEW w \in Workers, UpdateCounts(w) PROVE TypeOK'
    BY <1>9 DEF UpdateCounts, Goto, dbVars
<1>10. ASSUME NEW w \in Workers, Commit(w) PROVE TypeOK'
    <2>1. job[w] \in Requests
        BY <1>10 DEF Commit
    <2> QED BY <1>10, <2>1 DEF Commit, Goto, Return
<1>11. ASSUME NEW r \in Requests, Reject(r) PROVE TypeOK'
    BY <1>11 DEF Reject
<1>12. ASSUME NEW w \in Workers, Fail(w) PROVE TypeOK'
    BY <1>12 DEF Fail, Goto, Return, dbVars
<1>13. ASSUME UNCHANGED vars PROVE TypeOK'
    BY <1>13 DEF vars
<1> QED
    BY <1>1, <1>2, <1>3, <1>4, <1>5, <1>6, <1>7, <1>8, <1>9, <1>10,
       <1>11, <1>12, <1>13 DEF Next, Advance

(* The type invariant, of every reachable state: the statements of a call   *)
(* never run without the request they are for.                              *)
THEOREM TypeCorrect == Spec => []TypeOK
<1>1. Init => TypeOK
    BY DEF Init, TypeOK, Statements
<1> QED
    BY <1>1, TypeStep, PTL DEF Spec

-----------------------------------------------------------------------------
(* The steps of the invariant.  A step that writes no table and opens no     *)
(* transaction can only disturb what is said of the worker that takes it.    *)

LEMMA TablesUntouched ==
    ASSUME IInv, UNCHANGED dbVars
    PROVE  OneEntryPerTripleAndAlias' /\ ApprovedHasEntry' /\ KCountBound'
BY DEF IInv, dbVars, OneEntryPerTripleAndAlias, ApprovedHasEntry, KCountBound,
       Population

LEMMA EndOfCall ==
    ASSUME IInv, UNCHANGED supervisors, NEW w \in Workers, Return(w)
    PROVE  OpenKeysFree' /\ OpenKeysDistinct' /\ CountedBound' /\ SnapshotInBucket'
<1> USE DEF IInv, TypeOK, Return, Goto, InTx
<1>1. OpenKeysFree'
    BY DEF OpenKeysFree
<1>2. OpenKeysDistinct'
    BY DEF OpenKeysDistinct
<1>3. CountedBound'
    BY DEF CountedBound, Sees
<1>4. SnapshotInBucket'
    BY DEF SnapshotInBucket, Sees
<1> QED
    BY <1>1, <1>2, <1>3, <1>4

(* A call that has just started, or goes on outside a transaction.            *)
LEMMA OutsideTransaction ==
    ASSUME IInv, NEW w \in Workers, NEW statement \in {"submit", "read", "insert"},
           NEW r \in Requests, Goto(w, statement), job' = [job EXCEPT ![w] = r],
           UNCHANGED <<supervisors, counted, snapshot>>
    PROVE  OpenKeysFree' /\ OpenKeysDistinct' /\ CountedBound' /\ SnapshotInBucket'
<1> USE DEF IInv, TypeOK, Goto, InTx
<1>1. OpenKeysFree'
    BY DEF OpenKeysFree
<1>2. OpenKeysDistinct'
    BY DEF OpenKeysDistinct
<1>3. CountedBound'
    BY DEF CountedBound, Sees
<1>4. SnapshotInBucket'
    BY DEF SnapshotInBucket, Sees
<1> QED
    BY <1>1, <1>2, <1>3, <1>4

(* A statement inside a transaction, before Commit.                           *)
LEMMA InsideTransaction ==
    ASSUME IInv, NEW w \in Workers, InTx(w),
           NEW statement \in {"mark", "count", "match", "update", "commit"},
           Goto(w, statement), UNCHANGED <<supervisors, job>>
    PROVE  OpenKeysFree' /\ OpenKeysDistinct'
<1> USE DEF IInv, TypeOK, Goto, InTx
<1>1. OpenKeysFree'
    BY DEF OpenKeysFree
<1>2. OpenKeysDistinct'
    BY DEF OpenKeysDistinct
<1> QED
    BY <1>1, <1>2

(* The unique indexes: the transaction that opens has keys no committed row  *)
(* and no other open transaction has.                                        *)
LEMMA InsertEntryStep ==
    ASSUME IInv, NEW w \in Workers, InsertEntry(w)
    PROVE  OpenKeysFree' /\ OpenKeysDistinct' /\ CountedBound' /\ SnapshotInBucket'
<1> DEFINE taken == \/ \E s \in supervisors : Alias(s) = Alias(job[w])
                    \/ \E s \in mappings : TripleOf[s] = TripleOf[job[w]]
<1>1. CASE taken
    BY <1>1, EndOfCall DEF InsertEntry, dbVars
<1>2. CASE ~taken
    <2> USE DEF IInv, TypeOK, Goto, InTx
    <2>1. /\ Goto(w, "mark")
          /\ UNCHANGED <<dbVars, job, counted, snapshot>>
          /\ \A v \in Workers \ {w} : ~HoldsKeys(v, job[w])
        BY <1>2 DEF InsertEntry
    <2>2. supervisors = mappings
        BY DEF ApprovedHasEntry
    <2>3. OpenKeysFree'
        BY <1>2, <2>1, <2>2 DEF OpenKeysFree, dbVars
    <2>4. OpenKeysDistinct'
        BY <2>1 DEF OpenKeysDistinct, HoldsKeys
    <2>5. CountedBound'
        BY <2>1 DEF CountedBound, Sees, dbVars
    <2>6. SnapshotInBucket'
        BY <2>1 DEF SnapshotInBucket, Sees, dbVars
    <2> QED
        BY <2>3, <2>4, <2>5, <2>6
<1> QED
    BY <1>1, <1>2

-----------------------------------------------------------------------------
(* Commit, the only step that changes what is public.                        *)

LEMMA CommitStep ==
    ASSUME IInv, NEW w \in Workers, Commit(w)
    PROVE  /\ OneEntryPerTripleAndAlias' /\ ApprovedHasEntry' /\ KCountBound'
           /\ OpenKeysFree' /\ OpenKeysDistinct' /\ CountedBound' /\ SnapshotInBucket'
<1> DEFINE e == job[w]
           bucket == BucketRows(Sees(w), e)
<1>1. /\ TypeOK
      /\ InTx(w)
      /\ e \in Requests
      /\ supervisors' = Sees(w)
      /\ supervisors \subseteq supervisors'
      /\ supervisors' \subseteq Requests
    BY DEF IInv, TypeOK, Commit, InTx, Sees
<1>2. /\ mappings' = mappings \cup {e}
      /\ status' = [status EXCEPT ![e] = "approved"]
      /\ resolved' = [resolved EXCEPT ![e] = TRUE]
      /\ kcount' = [s \in Requests |-> IF s \in snapshot[w] THEN counted[w]
                                                            ELSE kcount[s]]
    BY DEF Commit
<1>3. /\ pc' = [pc EXCEPT ![w] = "idle"]
      /\ job' = [job EXCEPT ![w] = NoRequest]
      /\ counted' = [counted EXCEPT ![w] = 0]
      /\ snapshot' = [snapshot EXCEPT ![w] = {}]
    BY DEF Commit, Return, Goto
<1>4. OneEntryPerTripleAndAlias'
    BY <1>1 DEF IInv, OneEntryPerTripleAndAlias, OpenKeysFree, Sees
<1>5. ApprovedHasEntry'
    BY <1>1, <1>2 DEF IInv, ApprovedHasEntry, TypeOK, Sees
<1>6. KCountBound'
    <2> SUFFICES ASSUME NEW s \in supervisors'
                 PROVE  kcount'[s] <= Cardinality(BucketRows(supervisors', s))
        BY DEF KCountBound, Population
    <2>1. s \in Requests /\ kcount'[s] = IF s \in snapshot[w] THEN counted[w] ELSE kcount[s]
        BY <1>1, <1>2
    <2>2. CASE s \in snapshot[w]
        <3>1. s \in bucket /\ counted[w] <= Cardinality(bucket)
            BY <2>2 DEF IInv, SnapshotInBucket, CountedBound, Commit
        <3>2. BucketRows(supervisors', s) = bucket
            BY <3>1, <1>1, BucketOfMember
        <3> QED
            BY <2>1, <2>2, <3>1, <3>2
    <2>3. CASE s \notin snapshot[w] /\ s \in supervisors
        <3>1. kcount[s] <= Cardinality(BucketRows(supervisors, s))
            BY <2>3 DEF IInv, KCountBound, Population
        <3>2. /\ kcount[s] \in Nat
              /\ Cardinality(BucketRows(supervisors, s)) \in Nat
              /\ Cardinality(BucketRows(supervisors', s)) \in Nat
            BY <1>1, <2>1, BucketCardinality DEF TypeOK
        <3>3. Cardinality(BucketRows(supervisors, s)) <= Cardinality(BucketRows(supervisors', s))
            BY <1>1, BucketMonotone
        <3> QED
            BY <2>1, <2>3, <3>1, <3>2, <3>3
    <2>4. s \in supervisors \/ s \in snapshot[w]
        BY <1>1 DEF IInv, SnapshotInBucket, Commit, Sees
    <2> QED
        BY <2>2, <2>3, <2>4
<1>7. OpenKeysFree'
    BY <1>1, <1>3 DEF IInv, TypeOK, OpenKeysFree, OpenKeysDistinct, InTx, Sees
<1>8. OpenKeysDistinct'
    BY <1>1, <1>3 DEF IInv, TypeOK, OpenKeysDistinct, InTx
<1>9. CountedBound'
    <2> SUFFICES ASSUME NEW v \in Workers, pc'[v] \in {"match", "update", "commit"}
                 PROVE  counted'[v] <= Cardinality(BucketRows(supervisors' \cup {job'[v]}, job'[v]))
        BY DEF CountedBound, Sees
    <2>1. v # w /\ job'[v] = job[v] /\ counted'[v] = counted[v] /\ pc[v] = pc'[v]
        BY <1>1, <1>3 DEF TypeOK
    <2>2. job[v] \in Requests /\ counted[v] \in Nat
        BY <1>1, <2>1 DEF TypeOK
    <2>3. counted[v] <= Cardinality(BucketRows(Sees(v), job[v]))
        BY <2>1 DEF IInv, CountedBound
    <2> DEFINE later == supervisors' \cup {job[v]}
    <2>4. Sees(v) \subseteq later /\ later \subseteq Requests
        BY <1>1, <2>2 DEF Sees
    <2>5. /\ Cardinality(BucketRows(Sees(v), job[v])) <= Cardinality(BucketRows(later, job[v]))
          /\ Cardinality(BucketRows(Sees(v), job[v])) \in Nat
          /\ Cardinality(BucketRows(later, job[v])) \in Nat
        BY <2>4, BucketMonotone, BucketCardinality
    <2> HIDE DEF later
    <2>6. counted[v] <= Cardinality(BucketRows(later, job[v]))
        BY <2>2, <2>3, <2>5
    <2> QED
        BY <2>1, <2>6 DEF later
<1>10. SnapshotInBucket'
    BY <1>1, <1>3 DEF IInv, TypeOK, SnapshotInBucket, Sees, BucketRows
<1> QED
    BY <1>4, <1>5, <1>6, <1>7, <1>8, <1>9, <1>10

-----------------------------------------------------------------------------
LEMMA IInvStep == IInv /\ [Next]_vars => IInv'
<1> SUFFICES ASSUME IInv, [Next]_vars PROVE IInv'
    OBVIOUS
<1> DEFINE Tables == OneEntryPerTripleAndAlias /\ ApprovedHasEntry /\ KCountBound
           Transactions == OpenKeysFree /\ OpenKeysDistinct /\ CountedBound /\ SnapshotInBucket
<1>0. TypeOK /\ TypeOK'
    BY TypeStep DEF IInv
<1>1. ASSUME NEW w \in Workers, NEW r \in Requests, Submit(w, r) \/ Review(w, r)
      PROVE  Tables' /\ Transactions'
    BY <1>1, TablesUntouched, OutsideTransaction DEF Submit, Review, dbVars
<1>2. ASSUME NEW w \in Workers, InsertRequest(w) PROVE Tables' /\ Transactions'
    <2>1. job[w] \in Requests /\ UNCHANGED <<resolved, supervisors, mappings, kcount>>
        BY <1>0, <1>2 DEF InsertRequest, InsertRow, TypeOK
    <2>2. ApprovedHasEntry'
        BY <1>0, <1>2, <2>1 DEF InsertRequest, InsertRow, IInv, ApprovedHasEntry, TypeOK
    <2>3. OneEntryPerTripleAndAlias' /\ KCountBound'
        BY <2>1 DEF IInv, OneEntryPerTripleAndAlias, KCountBound, Population
    <2>4. CASE Return(w)
        BY <2>1, <2>2, <2>3, <2>4, EndOfCall
    <2>5. CASE Goto(w, "read") /\ UNCHANGED <<job, counted, snapshot>>
        <3>1. job' = [job EXCEPT ![w] = job[w]]
            BY <1>0, <2>5 DEF TypeOK
        <3> QED
            BY <2>1, <2>2, <2>3, <2>5, <3>1, OutsideTransaction
    <2> QED
        BY <1>2, <2>4, <2>5 DEF InsertRequest
<1>3. ASSUME NEW w \in Workers, ReadRequest(w) PROVE Tables' /\ Transactions'
    <2>1. job[w] \in Requests /\ UNCHANGED dbVars /\ UNCHANGED supervisors
        BY <1>0, <1>3 DEF ReadRequest, TypeOK, dbVars
    <2>2. CASE Return(w)
        BY <2>1, <2>2, TablesUntouched, EndOfCall
    <2>3. CASE Goto(w, "insert") /\ UNCHANGED <<job, counted, snapshot>>
        <3>1. job' = [job EXCEPT ![w] = job[w]]
            BY <1>0, <2>3 DEF TypeOK
        <3> QED
            BY <2>1, <2>3, <3>1, TablesUntouched, OutsideTransaction
    <2> QED
        BY <1>3, <2>2, <2>3 DEF ReadRequest
<1>4. ASSUME NEW w \in Workers, InsertEntry(w) PROVE Tables' /\ Transactions'
    BY <1>4, TablesUntouched, InsertEntryStep DEF InsertEntry
<1>5. ASSUME NEW w \in Workers, MarkApproved(w) \/ UpdateCounts(w)
      PROVE  Tables' /\ Transactions'
    <2>1. /\ UNCHANGED dbVars
          /\ UNCHANGED <<supervisors, job, counted, snapshot>>
          /\ InTx(w)
        BY <1>5 DEF MarkApproved, UpdateCounts, dbVars, InTx
    <2>2. OpenKeysFree' /\ OpenKeysDistinct'
        BY <1>5, <2>1, InsideTransaction DEF MarkApproved, UpdateCounts
    <2>3. CountedBound' /\ SnapshotInBucket'
        BY <1>0, <1>5, <2>1 DEF IInv, TypeOK, MarkApproved, UpdateCounts, Goto,
                                CountedBound, SnapshotInBucket, Sees
    <2> QED
        BY <2>1, <2>2, <2>3, TablesUntouched
<1>6. ASSUME NEW w \in Workers, CountBucket(w) PROVE Tables' /\ Transactions'
    <2>1. /\ UNCHANGED dbVars
          /\ UNCHANGED <<supervisors, job, snapshot>>
          /\ InTx(w)
        BY <1>6 DEF CountBucket, dbVars, InTx
    <2>2. OpenKeysFree' /\ OpenKeysDistinct'
        BY <1>6, <2>1, InsideTransaction DEF CountBucket
    <2>3. SnapshotInBucket'
        BY <1>0, <1>6, <2>1 DEF IInv, TypeOK, CountBucket, Goto, SnapshotInBucket, Sees
    <2>4. CountedBound'
        <3>1. Sees(w) \subseteq Requests
            BY <1>0, <1>6 DEF CountBucket, Sees, TypeOK
        <3>2. Cardinality(BucketRows(Sees(w), job[w])) \in Nat
            BY <3>1, BucketCardinality
        <3>3. /\ counted' = [counted EXCEPT ![w] = Cardinality(BucketRows(Sees(w), job[w]))]
              /\ pc' = [pc EXCEPT ![w] = "match"]
            BY <1>6 DEF CountBucket, Goto
        <3>4. \A v \in Workers : /\ Sees(v)' = Sees(v)
                                 /\ job'[v] = job[v]
            BY <2>1 DEF Sees
        <3>5. ASSUME NEW v \in Workers, pc'[v] \in {"match", "update", "commit"}
              PROVE  counted'[v] <= Cardinality(BucketRows(Sees(v), job[v]))
            <4>1. CASE v = w
                <5>1. counted'[v] = Cardinality(BucketRows(Sees(v), job[v]))
                    BY <1>0, <3>3, <4>1 DEF TypeOK
                <5> QED
                    BY <3>2, <4>1, <5>1
            <4>2. CASE v # w
                BY <1>0, <3>3, <3>5, <4>2 DEF IInv, TypeOK, CountedBound
            <4> QED
                BY <4>1, <4>2
        <3> QED
            BY <3>4, <3>5 DEF CountedBound, BucketRows
    <2> QED
        BY <2>1, <2>2, <2>3, <2>4, TablesUntouched
<1>7. ASSUME NEW w \in Workers, MatchRows(w) PROVE Tables' /\ Transactions'
    <2>1. /\ UNCHANGED dbVars
          /\ UNCHANGED <<supervisors, job, counted>>
          /\ InTx(w)
        BY <1>7 DEF MatchRows, dbVars, InTx
    <2>2. OpenKeysFree' /\ OpenKeysDistinct'
        BY <1>7, <2>1, InsideTransaction DEF MatchRows
    <2>3. CountedBound'
        BY <1>0, <1>7, <2>1 DEF IInv, TypeOK, MatchRows, Goto, CountedBound, Sees
    <2>4. SnapshotInBucket'
        <3>1. job[w] \in BucketRows(Sees(w), job[w])
            BY DEF BucketRows, Sees
        <3> QED
            BY <1>0, <1>7, <2>1, <3>1 DEF IInv, TypeOK, MatchRows, Goto, SnapshotInBucket, Sees
    <2> QED
        BY <2>1, <2>2, <2>3, <2>4, TablesUntouched
<1>8. ASSUME NEW w \in Workers, Commit(w) PROVE Tables' /\ Transactions'
    BY <1>8, CommitStep
<1>9. ASSUME NEW r \in Requests, Reject(r) PROVE Tables' /\ Transactions'
    <2> USE <1>9 DEF Reject, IInv
    <2>1. OneEntryPerTripleAndAlias' /\ KCountBound'
        BY DEF OneEntryPerTripleAndAlias, KCountBound, Population
    <2>2. ApprovedHasEntry'
        BY <1>0 DEF ApprovedHasEntry, TypeOK
    <2>3. Transactions'
        BY DEF OpenKeysFree, OpenKeysDistinct, CountedBound, SnapshotInBucket, InTx, Sees
    <2> QED
        BY <2>1, <2>2, <2>3
<1>10. ASSUME NEW w \in Workers, Fail(w) PROVE Tables' /\ Transactions'
    BY <1>10, TablesUntouched, EndOfCall DEF Fail, dbVars
<1>11. ASSUME UNCHANGED vars PROVE Tables' /\ Transactions'
    <2>1. UNCHANGED dbVars /\ UNCHANGED <<supervisors, pc, job, counted, snapshot>>
        BY <1>11 DEF vars, dbVars
    <2>2. Transactions'
        BY <2>1 DEF IInv, OpenKeysFree, OpenKeysDistinct, CountedBound, SnapshotInBucket,
                    InTx, Sees
    <2> QED
        BY <2>1, <2>2, TablesUntouched
<1> HIDE DEF Tables, Transactions
<1>12. Tables' /\ Transactions'
    BY <1>1, <1>2, <1>3, <1>4, <1>5, <1>6, <1>7, <1>8, <1>9, <1>10, <1>11
       DEF Next, Advance
<1> QED
    BY <1>0, <1>12 DEF Tables, Transactions, IInv

(* What open transactions have read of buckets and keys stays true. *)
THEOREM Invariance == Spec => []IInv
<1>1. Init => IInv
    BY DEF Init, IInv, TypeOK, Statements, OneEntryPerTripleAndAlias, ApprovedHasEntry,
           KCountBound, OpenKeysFree, OpenKeysDistinct, CountedBound, SnapshotInBucket, InTx
<1> QED
    BY <1>1, IInvStep, PTL DEF Spec

-----------------------------------------------------------------------------
(* The results. *)

LEMMA BoundGivesKAnonymity == TypeOK /\ KCountBound => KAnonymity
<1> SUFFICES ASSUME TypeOK, KCountBound PROVE KAnonymity
    OBVIOUS
<1>1. ASSUME NEW s \in supervisors, kcount[s] >= K PROVE Population(s) >= K
    <2>1. kcount[s] \in Nat /\ Population(s) \in Nat
        BY BucketCardinality DEF TypeOK, Population
    <2>2. kcount[s] <= Population(s)
        BY DEF KCountBound
    <2> QED
        BY <1>1, <2>1, <2>2, ConstantsAssumption
<1>2. ASSUME NEW r \in Requests, NEW s \in Listed(r) PROVE Population(r) >= K
    <2>1. s \in supervisors /\ kcount[s] >= K /\ Bucket(s) = Bucket(r)
        BY DEF Listed, BucketRows
    <2>2. BucketRows(supervisors, s) = BucketRows(supervisors, r)
        BY <2>1 DEF BucketRows
    <2> QED
        BY <1>1, <2>1, <2>2 DEF Population
<1> QED
    BY <1>1, <1>2 DEF KAnonymity, Visible

(* G-14: whatever approvals interleave, fail or are repeated, a public entry  *)
(* has at least K approved entries in its (discipline, college).              *)
THEOREM KAnonymityHolds == Spec => []KAnonymity
<1>1. IInv => KAnonymity
    BY BoundGivesKAnonymity DEF IInv
<1> QED
    BY <1>1, Invariance, PTL

(* The count approve_request stores is never more than the bucket holds.      *)
THEOREM KCountBoundHolds == Spec => []KCountBound
<1>1. IInv => KCountBound
    BY DEF IInv
<1> QED
    BY <1>1, Invariance, PTL

(* G-19, G-20: no two entries share a triple or an alias.                      *)
THEOREM UniqueEntries == Spec => []OneEntryPerTripleAndAlias
<1>1. IInv => OneEntryPerTripleAndAlias
    BY DEF IInv
<1> QED
    BY <1>1, Invariance, PTL

(* An approved request has its entry, its mapping and its resolved id.         *)
THEOREM ApprovalIsWhole == Spec => []ApprovedHasEntry
<1>1. IInv => ApprovedHasEntry
    BY DEF IInv
<1> QED
    BY <1>1, Invariance, PTL

-----------------------------------------------------------------------------
(* The refinement: Commit is Publish, every other step a stutter.              *)

LEMMA CommitPublishes ==
    ASSUME IInv, IInv', NEW w \in Workers, Commit(w)
    PROVE  Directory!Publish(job[w])
<1> DEFINE showing == {s \in supervisors : Visible(s)}
<1>1. InTx(w) /\ supervisors' = supervisors \cup {job[w]}
    BY DEF Commit, InTx
<1>2. \A f \in supervisors : /\ TripleOf[f] # TripleOf[job[w]]
                             /\ AliasOf[TripleOf[f]] # AliasOf[TripleOf[job[w]]]
    BY <1>1 DEF IInv, OpenKeysFree, Alias
<1>3. KAnonymity'
    <2>1. (TypeOK /\ KCountBound => KAnonymity)'
        BY BoundGivesKAnonymity, PTL
    <2> QED
        BY <2>1 DEF IInv
<1>4. \A s \in supervisors' : Population(s)' = Directory!Population(supervisors', s)
    BY DEF Population, BucketRows, Bucket, Directory!Population,
           Cardinality, Directory!Cardinality
<1>5. showing' \in SUBSET {f \in supervisors' : Directory!Population(supervisors', f) >= K}
    BY <1>3, <1>4 DEF KAnonymity
<1> QED
    BY <1>1, <1>2, <1>5 DEF Directory!Publish

(* Every behaviour of the component is one of SupervisorDirectory.             *)
THEOREM Refinement == Spec => ImplementsDirectory
<1> DEFINE showing == {s \in supervisors : Visible(s)}
<1>1. Init => Directory!Init
    BY DEF Init, Directory!Init
<1>2. IInv /\ IInv' /\ [Next]_vars => [Directory!Next]_<<supervisors, showing>>
    <2> SUFFICES ASSUME IInv, IInv', [Next]_vars
                 PROVE  Directory!Next \/ UNCHANGED <<supervisors, showing>>
        OBVIOUS
    <2>1. ASSUME NEW w \in Workers, Commit(w) PROVE Directory!Next
        <3>1. job[w] \in Requests
            BY <2>1 DEF IInv, TypeOK, Commit
        <3> QED
            BY <2>1, <3>1, CommitPublishes DEF Directory!Next
    <2>2. ASSUME UNCHANGED <<supervisors, kcount>> PROVE UNCHANGED <<supervisors, showing>>
        BY <2>2 DEF Visible
    <2>3. (\E w \in Workers : Commit(w)) \/ UNCHANGED <<supervisors, kcount>>
        BY DEF Next, Advance, vars, dbVars, Submit, Review, InsertRequest, ReadRequest,
               InsertEntry, MarkApproved, CountBucket, MatchRows, UpdateCounts, Reject, Fail
    <2> QED
        BY <2>1, <2>2, <2>3
<1> QED
    BY <1>1, <1>2, Invariance, PTL DEF Spec, ImplementsDirectory, Directory!Spec
=============================================================================
