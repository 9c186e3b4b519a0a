---------------------- MODULE PublishedRatings_proofs ----------------------
(***************************************************************************)
(* Proofs about ratings, for every set of workers, ratings and keys.       *)
(*                                                                         *)
(* About RatingSupersede: one current rating per key, chains that end at   *)
(* it, history that is never rewritten, and the refinement of              *)
(* CurrentRatings.  About PublishedRatings, for every choice of texts and  *)
(* accounts: what follows for the texts that are published and for the     *)
(* ratings that are counted, with what classify and redact_p1 do.          *)
(***************************************************************************)
EXTENDS PublishedRatings, TLAPS

(***************************************************************************)
(* The inductive invariant says of an open transaction that its new row is *)
(* its own, that the row it replaces has its key, and, once its INSERT is  *)
(* through, that the index slot of its key is free but for the row it      *)
(* replaces, and that no other transaction is that far with the same key.  *)
(***************************************************************************)
Open(w) == pc[w] \in {"detach", "insert", "attach", "commit"}
Inserted(w) == pc[w] \in {"attach", "commit"}

RowsAreFresh ==
    /\ \A r \in Ratings \ ratings : successor[r] = NoRating
    /\ \A w \in Workers : Open(w) => job[w] \notin ratings
    /\ \A w \in Workers : pc[w] = "classify" => job[w] \in ratings /\ old[w] = NoRating
    /\ \A w \in Workers : pc[w] = "idle" => job[w] = NoRating /\ old[w] = NoRating
    /\ \A v, w \in Workers : (job[v] = job[w] /\ job[v] # NoRating) => v = w

OldHasKey ==
    \A w \in Workers : Replaces(w) =>
        old[w] \in ratings /\ KeyOf[old[w]] = Key(w)

SlotIsFree ==
    \A w \in Workers : Inserted(w) =>
        /\ \A s \in ratings : (IsCurrent(s) /\ KeyOf[s] = Key(w)) => s = old[w]
        /\ Replaces(w) => IsCurrent(old[w])

SlotIsMine ==
    \A v, w \in Workers : (Inserted(v) /\ Inserted(w) /\ Key(v) = Key(w)) => v = w

IInv ==
    /\ TypeOK
    /\ RowsAreFresh
    /\ OldHasKey
    /\ SlotIsFree
    /\ SlotIsMine
    /\ OneCurrent
    /\ ChainsEndAtCurrent

-----------------------------------------------------------------------------
LEMMA TypeStep == TypeOK /\ [Next]_vars => TypeOK'
<1> SUFFICES ASSUME TypeOK, [Next]_vars PROVE TypeOK'
    OBVIOUS
<1> USE DEF TypeOK, Statements, table, review, Goto, Return
<1>1. ASSUME NEW w \in Workers, NEW r \in Ratings, Submit(w, r) PROVE TypeOK'
    BY <1>1 DEF Submit
<1>2. ASSUME NEW w \in Workers, Detach(w) PROVE TypeOK'
    BY <1>2 DEF Detach
<1>3. ASSUME NEW w \in Workers, Insert(w) PROVE TypeOK'
    BY <1>3 DEF Insert
<1>4. ASSUME NEW w \in Workers, Attach(w) PROVE TypeOK'
    BY <1>4 DEF Attach
<1>5. ASSUME NEW w \in Workers, Commit(w) PROVE TypeOK'
    <2>1. job[w] \in Ratings
        BY <1>5 DEF Commit
    <2> QED
        BY <1>5, <2>1 DEF Commit, Replaces
<1>6. ASSUME NEW w \in Workers, Classify(w) PROVE TypeOK'
    <2>1. job[w] \in Ratings
        BY <1>6 DEF Classify
    <2> QED
        BY <1>6, <2>1 DEF Classify
<1>7. ASSUME NEW r \in Ratings, NEW verdict \in {"approved", "rejected"}, Decide(r, verdict)
      PROVE  TypeOK'
    BY <1>7 DEF Decide
<1>8. ASSUME NEW w \in Workers, Fail(w) PROVE TypeOK'
    BY <1>8 DEF Fail
<1>9. ASSUME UNCHANGED vars PROVE TypeOK'
    BY <1>9 DEF vars
<1> QED
    BY <1>1, <1>2, <1>3, <1>4, <1>5, <1>6, <1>7, <1>8, <1>9 DEF Next, Advance, Review

(* The type invariant: a call never runs without the row it is to insert.  *)
THEOREM TypeCorrect == Spec => []TypeOK
<1>1. Init => TypeOK
    BY DEF Init, TypeOK, Statements
<1> QED
    BY <1>1, TypeStep, PTL DEF Spec

-----------------------------------------------------------------------------
(* Steps that write neither ratings nor superseded_by leave the table's own  *)
(* invariants; what they do to a worker is shown per action.                 *)

LEMMA TableUntouched ==
    ASSUME IInv, UNCHANGED <<ratings, successor>>
    PROVE  OneCurrent' /\ ChainsEndAtCurrent'
BY DEF IInv, OneCurrent, ChainsEndAtCurrent, IsCurrent

LEMMA WorkersUntouched ==
    ASSUME IInv, UNCHANGED <<ratings, successor, pc, job, old>>
    PROVE  RowsAreFresh' /\ OldHasKey' /\ SlotIsFree' /\ SlotIsMine'
<1> USE DEF IInv
<1>1. RowsAreFresh'
    BY DEF RowsAreFresh, Open
<1>2. OldHasKey'
    BY DEF OldHasKey, Replaces, Key
<1>3. SlotIsFree'
    BY DEF SlotIsFree, Inserted, Replaces, Key, IsCurrent
<1>4. SlotIsMine'
    BY DEF SlotIsMine, Inserted, Key
<1> QED
    BY <1>1, <1>2, <1>3, <1>4

LEMMA ReturnStep ==
    ASSUME IInv, NEW w \in Workers, Return(w), UNCHANGED <<ratings, successor>>
    PROVE  RowsAreFresh' /\ OldHasKey' /\ SlotIsFree' /\ SlotIsMine'
<1>1. /\ pc' = [pc EXCEPT ![w] = "idle"]
      /\ job' = [job EXCEPT ![w] = NoRating]
      /\ old' = [old EXCEPT ![w] = NoRating]
      /\ TypeOK
    BY DEF Return, Goto, IInv
<1>2. /\ pc'[w] = "idle" /\ job'[w] = NoRating /\ old'[w] = NoRating
      /\ \A v \in Workers \ {w} : pc'[v] = pc[v] /\ job'[v] = job[v] /\ old'[v] = old[v]
    BY <1>1 DEF TypeOK
<1>3. RowsAreFresh'
    BY <1>2 DEF IInv, RowsAreFresh, Open
<1>4. OldHasKey'
    BY <1>2 DEF IInv, OldHasKey, Replaces, Key
<1>5. SlotIsFree'
    BY <1>2 DEF IInv, SlotIsFree, Inserted, Replaces, Key, IsCurrent
<1>6. SlotIsMine'
    BY <1>2 DEF IInv, SlotIsMine, Inserted, Key
<1> QED
    BY <1>3, <1>4, <1>5, <1>6

LEMMA SubmitStep ==
    ASSUME IInv, NEW w \in Workers, NEW r \in Ratings, Submit(w, r)
    PROVE  RowsAreFresh' /\ OldHasKey' /\ SlotIsFree' /\ SlotIsMine'
<1>1. /\ UNCHANGED <<ratings, successor>>
      /\ r \notin ratings
      /\ \A v \in Workers : job[v] # r
      /\ TypeOK
    BY DEF Submit, IInv, table
<1>2. /\ pc'[w] \in {"detach", "insert"} /\ job'[w] = r
      /\ old'[w] # NoRating => old'[w] \in ratings /\ KeyOf[old'[w]] = KeyOf[r]
      /\ \A v \in Workers \ {w} : pc'[v] = pc[v] /\ job'[v] = job[v] /\ old'[v] = old[v]
    <2>1. /\ pc[w] = "idle"
          /\ job' = [job EXCEPT ![w] = r]
        BY DEF Submit
    <2>2. old[w] = NoRating
        BY <2>1 DEF IInv, RowsAreFresh
    <2>3. CASE \E s \in ratings : /\ IsCurrent(s)
                                  /\ KeyOf[s] = KeyOf[r]
                                  /\ old' = [old EXCEPT ![w] = s]
                                  /\ Goto(w, "detach")
        BY <1>1, <2>1, <2>3 DEF Goto, TypeOK
    <2>4. CASE Goto(w, "insert") /\ UNCHANGED old
        BY <1>1, <2>1, <2>2, <2>4 DEF Goto, TypeOK
    <2> QED
        BY <2>3, <2>4 DEF Submit
<1>3. RowsAreFresh'
    BY <1>1, <1>2 DEF IInv, RowsAreFresh, Open
<1>4. OldHasKey'
    BY <1>1, <1>2 DEF IInv, OldHasKey, Replaces, Key
<1>5. SlotIsFree'
    BY <1>1, <1>2 DEF IInv, SlotIsFree, Inserted, Replaces, Key, IsCurrent
<1>6. SlotIsMine'
    BY <1>1, <1>2 DEF IInv, SlotIsMine, Inserted, Key
<1> QED
    BY <1>3, <1>4, <1>5, <1>6

LEMMA DetachStep ==
    ASSUME IInv, NEW w \in Workers, Detach(w)
    PROVE  RowsAreFresh' /\ OldHasKey' /\ SlotIsFree' /\ SlotIsMine'
<1>1. /\ UNCHANGED <<ratings, successor, job, old>>
      /\ pc[w] = "detach" /\ pc'[w] = "insert"
      /\ \A v \in Workers \ {w} : pc'[v] = pc[v]
    BY DEF Detach, Goto, table, IInv, TypeOK
<1>2. RowsAreFresh'
    BY <1>1 DEF IInv, RowsAreFresh, Open
<1>3. OldHasKey'
    BY <1>1 DEF IInv, OldHasKey, Replaces, Key
<1>4. SlotIsFree'
    BY <1>1 DEF IInv, SlotIsFree, Inserted, Replaces, Key, IsCurrent
<1>5. SlotIsMine'
    BY <1>1 DEF IInv, SlotIsMine, Inserted, Key
<1> QED
    BY <1>2, <1>3, <1>4, <1>5

(* The unique index.  If the row to replace is no longer current its key has *)
(* another current row (OneCurrent) and the INSERT is a violation: a stale   *)
(* lookup never gets as far as Commit.                                       *)
LEMMA InsertStep ==
    ASSUME IInv, NEW w \in Workers, Insert(w)
    PROVE  RowsAreFresh' /\ OldHasKey' /\ SlotIsFree' /\ SlotIsMine'
<1> DEFINE violation == \E s \in ratings : IsCurrent(s) /\ KeyOf[s] = Key(w) /\ s # old[w]
<1>1. CASE violation
    BY <1>1, ReturnStep DEF Insert, table
<1>2. CASE ~violation
    <2>1. /\ UNCHANGED <<ratings, successor, job, old>>
          /\ pc[w] = "insert" /\ Inserted(w)'
          /\ \A v \in Workers \ {w} : pc'[v] = pc[v]
        BY <1>2 DEF Insert, Goto, table, IInv, TypeOK, Inserted
    <2>2. Replaces(w) => IsCurrent(old[w])
        BY <1>2 DEF IInv, OldHasKey, OneCurrent, IsCurrent
    <2>3. RowsAreFresh'
        BY <2>1 DEF IInv, RowsAreFresh, Open, Inserted
    <2>4. OldHasKey'
        BY <2>1 DEF IInv, OldHasKey, Replaces, Key
    <2>5. SlotIsFree'
        BY <1>2, <2>1, <2>2 DEF IInv, SlotIsFree, Inserted, Replaces, Key, IsCurrent
    <2>6. SlotIsMine'
        <3>1. job[w] # NoRating
            BY <2>1, ConstantsAssumption DEF IInv, TypeOK
        <3>2. \A v \in Workers \ {w} : Inserted(v) => Key(v) # Key(w)
            BY <2>1, <3>1, ConstantsAssumption DEF Insert, HoldsKey, Inserted, IInv, TypeOK
        <3> QED
            BY <2>1, <3>2 DEF IInv, SlotIsMine, Inserted, Key
    <2> QED
        BY <2>3, <2>4, <2>5, <2>6
<1> QED
    BY <1>1, <1>2

LEMMA AttachStep ==
    ASSUME IInv, NEW w \in Workers, Attach(w)
    PROVE  RowsAreFresh' /\ OldHasKey' /\ SlotIsFree' /\ SlotIsMine'
<1>1. /\ UNCHANGED <<ratings, successor, job, old>>
      /\ pc[w] = "attach" /\ pc'[w] = "commit"
      /\ \A v \in Workers \ {w} : pc'[v] = pc[v]
    BY DEF Attach, Goto, table, IInv, TypeOK
<1>2. RowsAreFresh'
    BY <1>1 DEF IInv, RowsAreFresh, Open
<1>3. OldHasKey'
    BY <1>1 DEF IInv, OldHasKey, Replaces, Key
<1>4. SlotIsFree'
    BY <1>1 DEF IInv, SlotIsFree, Inserted, Replaces, Key, IsCurrent
<1>5. SlotIsMine'
    BY <1>1 DEF IInv, SlotIsMine, Inserted, Key
<1> QED
    BY <1>2, <1>3, <1>4, <1>5

-----------------------------------------------------------------------------
(* Commit. *)

LEMMA CommitFacts ==
    ASSUME IInv, NEW w \in Workers, Commit(w)
    PROVE  /\ job[w] \in Ratings \ ratings
           /\ ratings' = ratings \cup {job[w]}
           /\ successor'[job[w]] = NoRating
           /\ \A s \in ratings : successor'[s] = IF s = old[w] THEN job[w] ELSE successor[s]
           /\ \A s \in ratings : (IsCurrent(s) /\ KeyOf[s] = Key(w)) => s = old[w]
           /\ Replaces(w) => /\ old[w] \in ratings
                             /\ IsCurrent(old[w])
                             /\ KeyOf[old[w]] = Key(w)
           /\ Inserted(w)
<1>1. pc[w] = "commit" /\ TypeOK /\ job[w] \in Ratings
    BY DEF Commit, IInv, TypeOK
<1>2. job[w] \notin ratings /\ successor[job[w]] = NoRating
    BY <1>1 DEF IInv, RowsAreFresh, Open
<1>3. Inserted(w)
    BY <1>1 DEF Inserted
<1>4. ratings' = ratings \cup {job[w]}
    BY DEF Commit
<1>5. Replaces(w) => old[w] \in ratings /\ KeyOf[old[w]] = Key(w)
    BY DEF IInv, OldHasKey
<1>6. /\ \A s \in ratings : (IsCurrent(s) /\ KeyOf[s] = Key(w)) => s = old[w]
      /\ Replaces(w) => IsCurrent(old[w])
    BY <1>3 DEF IInv, SlotIsFree
<1>7. successor' = IF Replaces(w) THEN [successor EXCEPT ![old[w]] = job[w]] ELSE successor
    BY DEF Commit
<1>8. ratings \subseteq Ratings /\ successor \in [Ratings -> Ratings \cup {NoRating}]
    BY <1>1 DEF TypeOK
<1>9. NoRating \notin ratings
    BY <1>8, ConstantsAssumption
<1>10. CASE Replaces(w)
    <2>1. successor'[job[w]] = NoRating
        BY <1>1, <1>2, <1>5, <1>7, <1>8, <1>10
    <2>2. \A s \in ratings : successor'[s] = IF s = old[w] THEN job[w] ELSE successor[s]
        BY <1>7, <1>8, <1>10
    <2> QED
        BY <1>1, <1>2, <1>3, <1>4, <1>5, <1>6, <2>1, <2>2
<1>11. CASE ~Replaces(w)
    <2>1. old[w] = NoRating
        BY <1>11 DEF Replaces
    <2> QED
        BY <1>1, <1>2, <1>3, <1>4, <1>5, <1>6, <1>7, <1>9, <1>11, <2>1
<1> QED
    BY <1>10, <1>11

LEMMA CommitTable ==
    ASSUME IInv, NEW w \in Workers, Commit(w)
    PROVE  OneCurrent' /\ ChainsEndAtCurrent'
<1> DEFINE e == job[w]
<1>1. /\ e \in Ratings /\ e \notin ratings /\ KeyOf[e] = Key(w)
      /\ ratings' = ratings \cup {e}
      /\ successor'[e] = NoRating
      /\ \A s \in ratings : successor'[s] = IF s = old[w] THEN e ELSE successor[s]
      /\ \A s \in ratings : (IsCurrent(s) /\ KeyOf[s] = Key(w)) => s = old[w]
      /\ Replaces(w) => old[w] \in ratings /\ IsCurrent(old[w]) /\ KeyOf[old[w]] = Key(w)
    BY CommitFacts DEF Key
<1> HIDE DEF e
<1>2. e # NoRating /\ e \in ratings'
    BY <1>1, ConstantsAssumption
<1>3. \A s \in ratings' : IsCurrent(s)' <=> s = e \/ (IsCurrent(s) /\ s # old[w])
    BY <1>1, <1>2 DEF IsCurrent
<1>4. \A s \in ratings : s = old[w] => KeyOf[s] = KeyOf[e]
    BY <1>1, ConstantsAssumption DEF IInv, TypeOK, Replaces
<1>5. OneCurrent'
    <2>1. \A r, s \in ratings' :
              (IsCurrent(r)' /\ IsCurrent(s)' /\ KeyOf[r] = KeyOf[s]) => r = s
        BY <1>1, <1>3 DEF IInv, OneCurrent, IsCurrent
    <2>2. ASSUME NEW r \in ratings'
          PROVE  \E s \in ratings' : IsCurrent(s)' /\ KeyOf[s] = KeyOf[r]
        <3>1. CASE KeyOf[r] = KeyOf[e]
            BY <1>2, <1>3, <3>1
        <3>2. CASE KeyOf[r] # KeyOf[e]
            <4>1. PICK s \in ratings : IsCurrent(s) /\ KeyOf[s] = KeyOf[r]
                BY <1>1, <2>2, <3>2 DEF IInv, OneCurrent
            <4> QED
                BY <1>1, <1>3, <1>4, <3>2, <4>1
        <3> QED
            BY <3>1, <3>2
    <2> QED
        BY <2>1, <2>2 DEF OneCurrent
<1>6. ChainsEndAtCurrent'
    <2>1. ASSUME NEW r \in ratings', ~IsCurrent(r)'
          PROVE  successor'[r] \in ratings' /\ KeyOf[successor'[r]] = KeyOf[r]
        <3>1. r \in ratings
            BY <1>1, <1>3, <2>1
        <3>2. CASE r = old[w]
            BY <1>1, <1>2, <1>4, <3>1, <3>2
        <3>3. CASE r # old[w]
            BY <1>1, <1>3, <2>1, <3>1, <3>3 DEF IInv, ChainsEndAtCurrent
        <3> QED
            BY <3>2, <3>3
    <2>2. ASSUME NEW S \in SUBSET ratings', S # {}, \A r \in S : ~IsCurrent(r)'
          PROVE  \E r \in S : successor'[r] \notin S
        <3>1. e \notin S
            BY <1>2, <1>3, <2>2
        <3>2. S \subseteq ratings
            BY <1>1, <3>1
        <3>3. CASE \E r \in S : r = old[w]
            BY <1>1, <3>1, <3>2, <3>3
        <3>4. CASE \A r \in S : r # old[w]
            <4>1. \A r \in S : ~IsCurrent(r)
                BY <1>3, <2>2, <3>4
            <4>2. PICK r \in S : successor[r] \notin S
                BY <2>2, <3>2, <4>1 DEF IInv, ChainsEndAtCurrent
            <4> QED
                BY <1>1, <3>2, <3>4, <4>2
        <3> QED
            BY <3>3, <3>4
    <2> QED
        BY <2>1, <2>2 DEF ChainsEndAtCurrent
<1> QED
    BY <1>5, <1>6

LEMMA CommitWorkers ==
    ASSUME IInv, NEW w \in Workers, Commit(w)
    PROVE  RowsAreFresh' /\ OldHasKey' /\ SlotIsFree' /\ SlotIsMine'
<1>1. /\ job[w] \in Ratings \ ratings
      /\ ratings' = ratings \cup {job[w]}
      /\ successor'[job[w]] = NoRating
      /\ \A s \in ratings : successor'[s] = IF s = old[w] THEN job[w] ELSE successor[s]
      /\ Replaces(w) => old[w] \in ratings /\ IsCurrent(old[w]) /\ KeyOf[old[w]] = Key(w)
      /\ Inserted(w)
    BY CommitFacts
<1>2. /\ pc'[w] = "classify" /\ old'[w] = NoRating /\ job' = job
      /\ \A v \in Workers \ {w} : pc'[v] = pc[v] /\ old'[v] = old[v]
    BY DEF Commit, Goto, IInv, TypeOK
<1>3. job[w] # NoRating
    BY <1>1, ConstantsAssumption
<1>4. \A r \in Ratings \ ratings' : successor'[r] = NoRating
    <2>1. \A r \in Ratings \ ratings : successor[r] = NoRating
        BY DEF IInv, RowsAreFresh
    <2>2. successor \in [Ratings -> Ratings \cup {NoRating}]
        BY DEF IInv, TypeOK
    <2>3. \A r \in Ratings \ ratings : r # old[w] \/ ~Replaces(w)
        BY <1>1
    <2>4. successor' = IF Replaces(w) THEN [successor EXCEPT ![old[w]] = job[w]] ELSE successor
        BY DEF Commit
    <2> QED
        BY <1>1, <2>1, <2>2, <2>3, <2>4
<1>5. RowsAreFresh'
    BY <1>1, <1>2, <1>3, <1>4 DEF IInv, RowsAreFresh, Open
<1>6. OldHasKey'
    BY <1>1, <1>2 DEF IInv, OldHasKey, Replaces, Key
<1>7. \A v \in Workers \ {w} : Inserted(v) => Key(v) # Key(w)
    BY <1>1 DEF IInv, SlotIsMine
<1>8. SlotIsFree'
    <2> SUFFICES ASSUME NEW v \in Workers, Inserted(v)'
                 PROVE  /\ \A s \in ratings' : (IsCurrent(s)' /\ KeyOf[s] = Key(v)') => s = old'[v]
                        /\ Replaces(v)' => old'[v] \in ratings' /\ successor'[old'[v]] = NoRating
        BY DEF SlotIsFree, IsCurrent, Key, Replaces, Inserted
    <2>1. v # w /\ Inserted(v) /\ old'[v] = old[v] /\ Key(v)' = Key(v) /\ Replaces(v)' = Replaces(v)
        BY <1>2 DEF Inserted, Key, Replaces
    <2>2. Key(v) # Key(w)
        BY <1>7, <2>1
    <2>3. \A s \in ratings' : IsCurrent(s)' => s = job[w] \/ IsCurrent(s)
        BY <1>1, <1>3 DEF IsCurrent
    <2>4. ASSUME NEW s \in ratings', IsCurrent(s)', KeyOf[s] = Key(v)
          PROVE  s = old[v]
        BY <2>1, <2>2, <2>3, <2>4 DEF IInv, SlotIsFree, IsCurrent, Key
    <2>5. Replaces(v) => old[v] \in ratings' /\ successor'[old[v]] = NoRating
        <3> SUFFICES ASSUME Replaces(v) PROVE old[v] \in ratings' /\ successor'[old[v]] = NoRating
            OBVIOUS
        <3>1. IsCurrent(old[v]) /\ KeyOf[old[v]] = Key(v) /\ old[v] \in ratings
            BY <2>1 DEF IInv, SlotIsFree, OldHasKey
        <3>2. old[v] # old[w] \/ ~Replaces(w)
            BY <1>1, <2>2, <3>1
        <3>3. old[v] # NoRating
            BY DEF Replaces
        <3>4. old[v] # old[w]
            BY <3>2, <3>3 DEF Replaces
        <3> QED
            BY <1>1, <3>1, <3>4 DEF IsCurrent
    <2> QED
        BY <2>1, <2>4, <2>5
<1>9. SlotIsMine'
    BY <1>2 DEF IInv, SlotIsMine, Inserted, Key
<1> QED
    BY <1>5, <1>6, <1>8, <1>9

-----------------------------------------------------------------------------
LEMMA IInvStep == IInv /\ [Next]_vars => IInv'
<1> SUFFICES ASSUME IInv, [Next]_vars PROVE IInv'
    OBVIOUS
<1> DEFINE Table == OneCurrent /\ ChainsEndAtCurrent
           Calls == RowsAreFresh /\ OldHasKey /\ SlotIsFree /\ SlotIsMine
<1>0. TypeOK /\ TypeOK'
    BY TypeStep DEF IInv
<1>1. ASSUME NEW w \in Workers, NEW r \in Ratings, Submit(w, r) PROVE Table' /\ Calls'
    BY <1>1, SubmitStep, TableUntouched DEF Submit, table
<1>2. ASSUME NEW w \in Workers, Detach(w) PROVE Table' /\ Calls'
    BY <1>2, DetachStep, TableUntouched DEF Detach, table
<1>3. ASSUME NEW w \in Workers, Insert(w) PROVE Table' /\ Calls'
    BY <1>3, InsertStep, TableUntouched DEF Insert, table
<1>4. ASSUME NEW w \in Workers, Attach(w) PROVE Table' /\ Calls'
    BY <1>4, AttachStep, TableUntouched DEF Attach, table
<1>5. ASSUME NEW w \in Workers, Commit(w) PROVE Table' /\ Calls'
    BY <1>5, CommitTable, CommitWorkers
<1>6. ASSUME NEW w \in Workers, Classify(w) PROVE Table' /\ Calls'
    BY <1>6, ReturnStep, TableUntouched DEF Classify
<1>7. ASSUME NEW r \in Ratings, NEW verdict \in {"approved", "rejected"}, Decide(r, verdict)
      PROVE  Table' /\ Calls'
    BY <1>7, WorkersUntouched, TableUntouched DEF Decide
<1>8. ASSUME NEW w \in Workers, Fail(w) PROVE Table' /\ Calls'
    BY <1>8, ReturnStep, TableUntouched DEF Fail, table
<1>9. ASSUME UNCHANGED vars PROVE Table' /\ Calls'
    BY <1>9, WorkersUntouched, TableUntouched DEF vars
<1> HIDE DEF Table, Calls
<1>10. Table' /\ Calls'
    BY <1>1, <1>2, <1>3, <1>4, <1>5, <1>6, <1>7, <1>8, <1>9 DEF Next, Advance, Review
<1> QED
    BY <1>0, <1>10 DEF Table, Calls, IInv

(* What open submissions rely on in the table of ratings stays true. *)
THEOREM Invariance == Spec => []IInv
<1>1. Init => IInv
    BY DEF Init, IInv, TypeOK, Statements, RowsAreFresh, OldHasKey, SlotIsFree, SlotIsMine,
           OneCurrent, ChainsEndAtCurrent, Open, Inserted, Replaces, IsCurrent
<1> QED
    BY <1>1, IInvStep, PTL DEF Spec

-----------------------------------------------------------------------------
(* The results. *)

(* B-9: exactly one current rating per rated key.                            *)
THEOREM OneCurrentHolds == Spec => []OneCurrent
<1>1. IInv => OneCurrent
    BY DEF IInv
<1> QED
    BY <1>1, Invariance, PTL

(* H-31: superseded rows form chains that end, in their key, at a current row. *)
THEOREM ChainsHold == Spec => []ChainsEndAtCurrent
<1>1. IInv => ChainsEndAtCurrent
    BY DEF IInv
<1> QED
    BY <1>1, Invariance, PTL

(* G-12: only a reviewer approves a P0 or an unclassified text, in either mode. *)
THEOREM P0Reviewed == Spec => []P0NeedsReviewer
<1>1. Init => P0NeedsReviewer
    BY ConstantsAssumption DEF Init, P0NeedsReviewer
<1>2. TypeOK /\ P0NeedsReviewer /\ [Next]_vars => P0NeedsReviewer'
    <2> SUFFICES ASSUME TypeOK, P0NeedsReviewer, [Next]_vars PROVE P0NeedsReviewer'
        OBVIOUS
    <2> USE DEF TypeOK, P0NeedsReviewer
    <2>1. ASSUME NEW w \in Workers, Commit(w) PROVE P0NeedsReviewer'
        BY <2>1 DEF Commit
    <2>2. ASSUME NEW w \in Workers, Classify(w) PROVE P0NeedsReviewer'
        BY <2>2 DEF Classify
    <2>3. ASSUME NEW r \in Ratings, NEW verdict \in {"approved", "rejected"}, Decide(r, verdict)
          PROVE  P0NeedsReviewer'
        BY <2>3 DEF Decide
    <2>4. ASSUME UNCHANGED review PROVE P0NeedsReviewer'
        BY <2>4 DEF review
    <2> QED
        BY <2>1, <2>2, <2>3, <2>4
           DEF Next, Advance, Review, Submit, Detach, Insert, Attach, Fail, table, vars, review
<1> QED
    BY <1>1, <1>2, TypeCorrect, PTL DEF Spec

(* B-9 keeps the history: no step removes a row or redirects a link.          *)
THEOREM HistoryHolds == Spec => HistoryIsKept
<1>1. IInv /\ [Next]_vars =>
          [/\ ratings \subseteq ratings'
           /\ \A r \in ratings : ~IsCurrent(r) => successor'[r] = successor[r]]_vars
    <2> SUFFICES ASSUME IInv, [Next]_vars
                 PROVE  /\ ratings \subseteq ratings'
                        /\ \A r \in ratings : ~IsCurrent(r) => successor'[r] = successor[r]
        OBVIOUS
    <2>1. ASSUME NEW w \in Workers, Commit(w)
          PROVE  /\ ratings \subseteq ratings'
                 /\ \A r \in ratings : ~IsCurrent(r) => successor'[r] = successor[r]
        <3>1. \A r \in ratings : ~IsCurrent(r) => r # old[w]
            BY <2>1, CommitFacts, ConstantsAssumption DEF Replaces, IInv, TypeOK
        <3> QED
            BY <2>1, <3>1, CommitFacts
    <2>2. (\E w \in Workers : Commit(w)) \/ UNCHANGED <<ratings, successor>>
        BY DEF Next, Advance, vars, table, Submit, Detach, Insert, Attach, Classify, Review, Decide,
               Fail
    <2> QED
        BY <2>1, <2>2
<1> QED
    BY <1>1, Invariance, PTL DEF Spec, HistoryIsKept

(* Every behaviour is one of CurrentRatings: Commit is Submit, every other    *)
(* step a stutter.                                                            *)
THEOREM Refinement == Spec => ImplementsHistory
<1> DEFINE now == {r \in ratings : IsCurrent(r)}
           before == {r \in ratings : ~IsCurrent(r)}
<1>1. Init => History!Init
    BY DEF Init, History!Init
<1>2. IInv /\ [Next]_vars => [History!Next]_<<now, before>>
    <2> SUFFICES ASSUME IInv, [Next]_vars
                 PROVE  History!Next \/ UNCHANGED <<now, before>>
        OBVIOUS
    <2>1. ASSUME NEW w \in Workers, Commit(w) PROVE History!Submit(job[w])
        <3> DEFINE replaced == {s \in now : KeyOf[s] = KeyOf[job[w]]}
        <3>1. /\ job[w] \in Ratings \ ratings
              /\ ratings' = ratings \cup {job[w]}
              /\ successor'[job[w]] = NoRating
              /\ \A s \in ratings : successor'[s] = IF s = old[w] THEN job[w] ELSE successor[s]
              /\ \A s \in ratings : (IsCurrent(s) /\ KeyOf[s] = Key(w)) => s = old[w]
              /\ Replaces(w) => old[w] \in ratings /\ IsCurrent(old[w]) /\ KeyOf[old[w]] = Key(w)
            BY <2>1, CommitFacts
        <3>2. job[w] # NoRating /\ NoRating \notin ratings
            BY <3>1, ConstantsAssumption DEF IInv, TypeOK
        <3>3. \A s \in ratings : s \in replaced <=> s = old[w]
            BY <3>1, <3>2 DEF Key, Replaces
        <3>4. now' = (now \ replaced) \cup {job[w]}
            BY <3>1, <3>2, <3>3 DEF IsCurrent
        <3>5. before' = before \cup replaced
            BY <3>1, <3>2, <3>3 DEF IsCurrent
        <3> QED
            BY <3>1, <3>4, <3>5 DEF History!Submit
    <2>2. ASSUME NEW w \in Workers, Commit(w) PROVE History!Next
        <3>1. job[w] \in Ratings
            BY <2>2, CommitFacts
        <3> QED
            BY <2>1, <2>2, <3>1 DEF History!Next
    <2>3. ASSUME UNCHANGED <<ratings, successor>> PROVE UNCHANGED <<now, before>>
        BY <2>3 DEF IsCurrent
    <2>4. (\E w \in Workers : Commit(w)) \/ UNCHANGED <<ratings, successor>>
        BY DEF Next, Advance, vars, table, Submit, Detach, Insert, Attach, Classify, Review, Decide,
               Fail
    <2> QED
        BY <2>2, <2>3, <2>4
<1> QED
    BY <1>1, <1>2, Invariance, PTL DEF Spec, ImplementsHistory, History!Spec

-----------------------------------------------------------------------------
(* What is published. *)

(* Every pattern of P0 outranks whatever else matches. *)
LEMMA StrictestWins ==
    ASSUME NEW text, \E i \in DOMAIN text : DirectIdentifier(text, i)
    PROVE  ClassifyText(text) = 4
<1> DEFINE S == {f \in 1 .. 4 : Matches(text, f)}
<1>1. 4 \in S /\ \A f \in S : f \in 1 .. 4
    BY DEF Matches
<1> HIDE DEF S
<1>2. \E x \in S : \A y \in S : x >= y
    BY <1>1
<1>3. Max(S) \in S /\ \A y \in S : Max(S) >= y
    BY <1>2 DEF Max
<1> QED
    BY <1>1, <1>3 DEF ClassifyText, S

(* classify yields one of the four flags, whatever the text.                 *)
LEMMA ClassifyType ==
    ASSUME NEW text
    PROVE  ClassifyText(text) \in 1 .. 4
<1> DEFINE S == {f \in 1 .. 4 : Matches(text, f)}
<1>1. 1 \in S /\ S \subseteq 1 .. 4
    BY DEF Matches
<1> HIDE DEF S
<1>2. \E x \in S : \A y \in S : x >= y
    <2>1. CASE 4 \in S
        BY <1>1, <2>1
    <2>2. CASE 4 \notin S /\ 3 \in S
        BY <1>1, <2>2
    <2>3. CASE 4 \notin S /\ 3 \notin S /\ 2 \in S
        BY <1>1, <2>3
    <2>4. CASE 4 \notin S /\ 3 \notin S /\ 2 \notin S
        BY <1>1, <2>4
    <2> QED
        BY <2>1, <2>2, <2>3, <2>4
<1>3. Max(S) \in S
    BY <1>2 DEF Max
<1> QED
    BY <1>1, <1>3 DEF ClassifyText, S

(* A row with a direct identifier in either of its texts is a P0 row.        *)
LEMMA IdentifiersAreP0 ==
    ASSUME NEW r \in Ratings,
           NEW x \in {DimText[r], OverallText[r]},
           \E i \in DOMAIN x : DirectIdentifier(x, i)
    PROVE  r \in P0
<1> DEFINE a == ClassifyText(DimText[r])
           b == ClassifyText(OverallText[r])
<1>1. a \in 1 .. 4 /\ b \in 1 .. 4
    BY ClassifyType
<1>2. a = 4 \/ b = 4
    BY StrictestWins
<1> HIDE DEF a, b
<1>3. \E c \in {a, b} : \A y \in {a, b} : c >= y
    BY <1>1, <1>2
<1>4. Max({a, b}) \in {a, b} /\ \A y \in {a, b} : Max({a, b}) >= y
    BY <1>3 DEF Max
<1>5. Max({a, b}) = 4
    BY <1>1, <1>2, <1>4
<1>6. Flags[Flag(r)] = "P0_strict"
    BY <1>5 DEF Flag, Flags, a, b
<1> QED
    BY <1>6, PublishedAssumption

(* Redaction leaves every piece where it is, or masks it, and masks the two  *)
(* Chinese words wherever they stand.                                        *)
LEMMA RedactPieces ==
    ASSUME NEW x \in Seq(Pieces)
    PROVE  /\ DOMAIN Redact(x) = 1 .. Len(x) /\ Len(Redact(x)) = Len(x)
           /\ \A i \in 1 .. Len(x) :
                  /\ Redact(x)[i] \in {x[i], "mask"}
                  /\ Redact(x)[i] \notin {"laboratory", "research_group"}
<1> DEFINE a == MaskPiece(x, "laboratory")
           b == MaskPiece(a, "research_group")
           c == MaskNames(b)
<1>1. DOMAIN x = 1 .. Len(x) /\ Len(x) \in Nat
    OBVIOUS
<1>2. DOMAIN a = 1 .. Len(x)
      /\ \A i \in 1 .. Len(x) : a[i] \in {x[i], "mask"} /\ a[i] # "laboratory"
    BY <1>1 DEF MaskPiece
<1>3. DOMAIN b = 1 .. Len(x)
      /\ \A i \in 1 .. Len(x) : /\ b[i] \in {x[i], "mask"}
                                 /\ b[i] \notin {"laboratory", "research_group"}
    <2> HIDE DEF a
    <2> QED
        BY <1>2 DEF MaskPiece
<1>4. DOMAIN c = 1 .. Len(x)
      /\ \A i \in 1 .. Len(x) : c[i] \in {b[i], "mask"}
    <2> HIDE DEF b
    <2> QED
        BY <1>3 DEF MaskNames
<1>5. Redact(x) = c
    BY DEF Redact
<1> HIDE DEF c, b
<1>6. Len(c) = Len(x)
    BY <1>1, <1>4
<1> QED
    BY <1>3, <1>4, <1>5, <1>6

(* A text without a direct identifier gets none by redaction, but at a word  *)
(* boundary that a mask makes.                                               *)
LEMMA RedactUncovers ==
    ASSUME NEW x \in Seq(Pieces), \A i \in DOMAIN x : ~DirectIdentifier(x, i),
           NEW i \in 1 .. Len(x)
    PROVE  ~Free(Redact(x), i) /\ (Anchored(Redact(x), i) => NextToMask(Redact(x), i))
<1> DEFINE y == Redact(x)
<1>1. Len(y) = Len(x) /\ Len(x) \in Nat /\ DOMAIN x = 1 .. Len(x)
      /\ \A k \in 1 .. Len(x) : y[k] = x[k] \/ y[k] = "mask"
    BY RedactPieces
<1> HIDE DEF y
<1>2. ~Free(x, i) /\ ~Anchored(x, i)
    BY <1>1 DEF DirectIdentifier
<1>3. ~Free(y, i)
    <2>1. CASE y[i] = "address" \/ y[i] = "i_am"
        BY <1>1, <1>2, <2>1 DEF Free
    <2>2. CASE y[i] = "at"
        <3> SUFFICES ASSUME Free(y, i) PROVE FALSE
            OBVIOUS
        <3>1. /\ i > 1 /\ i < Len(x) /\ x[i] = "at"
              /\ y[i - 1] \in {"latin", "suffix", "acronym", "number"}
              /\ y[i + 1] \in {"latin", "suffix", "acronym"}
            BY <1>1, <2>2 DEF Free
        <3>2. i - 1 \in 1 .. Len(x) /\ i + 1 \in 1 .. Len(x)
            BY <1>1, <3>1
        <3>3. x[i - 1] = y[i - 1] /\ x[i + 1] = y[i + 1]
            BY <1>1, <3>1, <3>2
        <3> QED
            BY <1>2, <3>1, <3>3 DEF Free
    <2> QED
        BY <2>1, <2>2 DEF Free
<1>4. ASSUME Anchored(y, i) PROVE NextToMask(y, i)
    <2>1. y[i] = x[i]
        BY <1>1, <1>4 DEF Anchored
    <2>2. CASE Opens(y, i) /\ ~Opens(x, i)
        <3>1. i > 1 /\ i - 1 \in 1 .. Len(x)
            BY <1>1, <2>2 DEF Opens
        <3>2. EndsWord(x[i - 1]) /\ ~EndsWord(y[i - 1])
            BY <3>1, <2>2 DEF Opens
        <3> QED
            BY <1>1, <3>1, <3>2 DEF NextToMask
    <2>3. CASE Closes(y, i) /\ ~Closes(x, i)
        <3>1. i < Len(x) /\ i + 1 \in 1 .. Len(x)
            BY <1>1, <2>3 DEF Closes
        <3>2. StartsWord(x[i + 1]) /\ ~StartsWord(y[i + 1])
            BY <1>1, <3>1, <2>3 DEF Closes
        <3> QED
            BY <1>1, <3>1, <3>2 DEF NextToMask
    <2> QED
        BY <1>2, <1>4, <2>1, <2>2, <2>3 DEF Anchored
<1> QED
    BY <1>3, <1>4 DEF y

(* G-12: for all texts, what a public copy shows of an approved text nobody  *)
(* has read, that classification did not see, stands beside a mask.          *)
THEOREM PublicTextHolds == Spec => []OnlyMasksUncover
<1>1. TypeOK /\ P0NeedsReviewer => OnlyMasksUncover
    <2> SUFFICES ASSUME P0NeedsReviewer, NEW r \in Ratings, status[r] = "approved", r \notin reviewed,
                        NEW x \in {DimText[r], OverallText[r]}, NEW i \in DOMAIN Redact(x)
                 PROVE  /\ Redact(x)[i] \notin {"laboratory", "research_group"}
                        /\ ~Free(Redact(x), i)
                        /\ Anchored(Redact(x), i) => NextToMask(Redact(x), i)
        BY DEF OnlyMasksUncover, PublicTexts, TypeOK
    <2>1. r \notin P0
        BY DEF P0NeedsReviewer
    <2>2. \A k \in DOMAIN x : ~DirectIdentifier(x, k)
        BY <2>1, IdentifiersAreP0
    <2>3. x \in Seq(Pieces)
        BY PublishedAssumption DEF Texts
    <2>4. i \in 1 .. Len(x)
        BY <2>3, RedactPieces
    <2> QED
        BY <2>2, <2>3, <2>4, RedactPieces, RedactUncovers
<1> QED
    BY <1>1, TypeCorrect, P0Reviewed, PTL

(* B-9 as the score sees it: one rating of an account per dimension.         *)
THEOREM CountedOnceHolds == Spec => []CountedOnce
<1>1. OneCurrent => CountedOnce
    BY DEF OneCurrent, CountedOnce, Scored
<1> QED
    BY <1>1, OneCurrentHolds, PTL
=============================================================================
