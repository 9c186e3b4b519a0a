---------------------------- MODULE Server_proofs ----------------------------
(***************************************************************************)
(* Proofs about Migrations and Server.                                     *)
(*                                                                         *)
(* The start of the processes first, for any number of processes, releases *)
(* and versions: the inductive invariant adds what one process knows of    *)
(* the ledger, and that no two processes have the same version open.  Then *)
(* the servers: the limiter never writes what Migrations is about and a    *)
(* process dies as Migrations says, so that the servers implement MSpec    *)
(* and have every property proved of it.  Last the limiter itself, for any *)
(* limit and any window.                                                   *)
(***************************************************************************)
EXTENDS Server, TLAPS

KnownIsApplied == \A p \in Processes : known[p] \subseteq ledger

OneTxPerVersion ==
    \A p, q \in Processes : p # q /\ InTx(p) /\ InTx(q) => current[p] # current[q]

(* Every smaller version is committed before a version is begun. *)
OpenIsNext ==
    \A p \in Processes : InTx(p) =>
        \A u \in Versions : u < current[p] => u \in ledger

CommitIsFirst == \A p \in Processes : phase[p] = "commit" => current[p] \notin ledger

UpIsConfigured ==
    \A p \in Processes :
        /\ phase[p] # "down" => Deserializes(env[p]) /\ Validates(env[p]) /\ KeysDecode(env[p])
        /\ phase[p] \notin {"down", "connect"} => env[p]["database_url"] = "ok"

BoundIsApplied ==
    \A p \in Processes : phase[p] \in {"bind", "serving"} => FilesOf[p] \subseteq ledger

MInv == /\ MTypeOK
        /\ AppliedOnce
        /\ AppliedInOrder
        /\ KnownIsApplied
        /\ OneTxPerVersion
        /\ OpenIsNext
        /\ CommitIsFirst
        /\ UpIsConfigured
        /\ BoundIsApplied

(* Nothing is running and nothing is applied. *)
LEMMA InitInv == MInit => MInv
  <1> SUFFICES ASSUME MInit PROVE MInv
    OBVIOUS
  <1> USE MigrationsAssumption DEF MInit
  <1>1. MTypeOK
    BY DEF MTypeOK, Phases, InTx
  <1>2. AppliedOnce /\ AppliedInOrder /\ KnownIsApplied
    BY DEF AppliedOnce, AppliedInOrder, KnownIsApplied
  <1>3. OneTxPerVersion /\ OpenIsNext /\ CommitIsFirst
    BY DEF OneTxPerVersion, OpenIsNext, CommitIsFirst, InTx
  <1>4. UpIsConfigured /\ BoundIsApplied
    BY DEF UpIsConfigured, BoundIsApplied
  <1> QED
    BY <1>1, <1>2, <1>3, <1>4 DEF MInv

(* A process that changes its phase alone keeps the invariant if it does not
   enter a transaction and has what its new phase promises. *)
LEMMA PhaseStep ==
    ASSUME MInv, NEW p \in Processes, NEW f \in Phases, Goto(p, f),
           UNCHANGED <<env, current, ledger, runs>>,
           known' \in [Processes -> SUBSET Versions], KnownIsApplied',
           faults' \in 0 .. MaxFaults,
           f = "record" => FALSE,
           f = "commit" => phase[p] = "record" /\ current[p] \notin ledger,
           f # "down" => Deserializes(env[p]) /\ Validates(env[p]) /\ KeysDecode(env[p]),
           f \notin {"down", "connect"} => env[p]["database_url"] = "ok",
           f \in {"bind", "serving"} => FilesOf[p] \subseteq ledger
    PROVE  MInv'
  <1> USE DEF Goto
  <1>0. phase \in [Processes -> Phases]
    BY DEF MInv, MTypeOK
  <1>1. phase' \in [Processes -> Phases] /\ phase'[p] = f
        /\ \A q \in Processes \ {p} : phase'[q] = phase[q]
    BY <1>0
  <1>2. \A q \in Processes : InTx(q)' => InTx(q)
    BY <1>1 DEF InTx
  <1>3. MTypeOK'
    BY <1>1, <1>2 DEF MInv, MTypeOK, InTx
  <1>4. AppliedOnce' /\ AppliedInOrder'
    BY DEF MInv, AppliedOnce, AppliedInOrder
  <1>5. OneTxPerVersion' /\ OpenIsNext'
    BY <1>2 DEF MInv, OneTxPerVersion, OpenIsNext
  <1>6. CommitIsFirst'
    BY <1>1 DEF MInv, CommitIsFirst
  <1>7. UpIsConfigured'
    BY <1>1 DEF MInv, UpIsConfigured, Deserializes, Validates, KeysDecode
  <1>8. BoundIsApplied'
    BY <1>1 DEF MInv, BoundIsApplied
  <1> QED
    BY <1>3, <1>4, <1>5, <1>6, <1>7, <1>8 DEF MInv

(* Beginning a transaction: every smaller version is committed, and nobody
   else has this one open. *)
LEMMA ExecuteStep == ASSUME MInv, NEW p \in Processes, Execute(p) PROVE MInv'
  <1> USE DEF Goto
  <1>0. phase \in [Processes -> Phases] /\ current \in [Processes -> Versions \cup {0}]
        /\ phase[p] = "migrate" /\ UNCHANGED <<env, known, ledger, runs, faults>>
    BY DEF MInv, MTypeOK, Execute
  <1>1. PICK v \in Pending(p) : /\ IsNext(p, v)
                                /\ ~Blocked(p, v)
                                /\ IF runs[v] = 0 \/ v \in Rerunnable
                                   THEN Goto(p, "record") /\ current' = [current EXCEPT ![p] = v]
                                   ELSE Goto(p, "down") /\ UNCHANGED current
    BY DEF Execute
  <1>2. CASE Goto(p, "down") /\ UNCHANGED current
    BY <1>0, <1>2, PhaseStep DEF MInv, MTypeOK, KnownIsApplied, Phases
  <1>3. CASE Goto(p, "record") /\ current' = [current EXCEPT ![p] = v]
    <2>0. v \in Versions /\ v \in FilesOf[p]
      BY MigrationsAssumption DEF Pending
    <2>1. phase' \in [Processes -> Phases] /\ phase'[p] = "record" /\ current'[p] = v
          /\ \A q \in Processes \ {p} : phase'[q] = phase[q] /\ current'[q] = current[q]
      BY <1>0, <1>3, <2>0 DEF Phases
    <2>2. \A u \in Versions : u < v => u \in ledger
      <3> SUFFICES ASSUME NEW u \in Versions, u < v PROVE u \in ledger
        OBVIOUS
      <3>1. u \in FilesOf[p]
        BY <2>0, MigrationsAssumption
      <3>2. ~(v <= u)
        BY <2>0, MigrationsAssumption
      <3>3. u \notin Pending(p)
        BY <1>1, <3>2 DEF IsNext
      <3> QED
        BY <3>1, <3>3 DEF Pending, MInv, KnownIsApplied
    <2>3. MTypeOK'
      BY <1>0, <1>3, <2>0, <2>1 DEF MInv, MTypeOK, InTx
    <2>4. AppliedOnce' /\ AppliedInOrder' /\ KnownIsApplied'
      BY <1>0 DEF MInv, AppliedOnce, AppliedInOrder, KnownIsApplied
    <2>5. \A q \in Processes \ {p} : InTx(q)' => InTx(q) /\ current[q] # v
      BY <1>1, <2>1 DEF InTx, Blocked
    <2>6. OneTxPerVersion'
      BY <2>1, <2>5 DEF MInv, OneTxPerVersion
    <2>7. OpenIsNext'
      BY <1>0, <2>1, <2>2, <2>5 DEF MInv, OpenIsNext
    <2>8. CommitIsFirst' /\ BoundIsApplied'
      BY <1>0, <2>1 DEF MInv, CommitIsFirst, BoundIsApplied
    <2>9. UpIsConfigured'
      BY <1>0, <2>1 DEF MInv, UpIsConfigured, Deserializes, Validates, KeysDecode
    <2> QED
      BY <2>3, <2>4, <2>6, <2>7, <2>8, <2>9 DEF MInv
  <1> QED
    BY <1>1, <1>2, <1>3

(* The one step that changes the ledger. *)
LEMMA CommitStep == ASSUME MInv, NEW p \in Processes, Commit(p) PROVE MInv'
  <1> USE DEF Goto
  <1> DEFINE v == current[p]
  <1>0. phase \in [Processes -> Phases] /\ phase[p] = "commit" /\ InTx(p)
        /\ UNCHANGED <<env, current, faults>> /\ v \in Versions /\ v \notin ledger
    BY DEF MInv, MTypeOK, Commit, InTx, CommitIsFirst
  <1>1. phase' \in [Processes -> Phases] /\ phase'[p] = "migrate"
        /\ \A q \in Processes \ {p} : phase'[q] = phase[q]
    BY <1>0 DEF Commit, Phases
  <1>2. ledger' = ledger \cup {v} /\ known' = [known EXCEPT ![p] = known[p] \cup {v}]
        /\ runs' = [runs EXCEPT ![v] = runs[v] + 1]
    BY DEF Commit
  <1>3. runs[v] = 0
    BY <1>0 DEF MInv, AppliedOnce
  <1>4. \A q \in Processes : InTx(q)' => InTx(q) /\ q # p
    BY <1>1 DEF InTx
  <1>5. MTypeOK'
    BY <1>0, <1>1, <1>2, <1>3, <1>4 DEF MInv, MTypeOK
  <1>6. AppliedOnce'
    BY <1>0, <1>2, <1>3 DEF MInv, MTypeOK, AppliedOnce
  <1>7. AppliedInOrder'
    BY <1>0, <1>2 DEF MInv, AppliedInOrder, OpenIsNext
  <1>8. KnownIsApplied'
    BY <1>2 DEF MInv, MTypeOK, KnownIsApplied
  <1>9. OneTxPerVersion' /\ OpenIsNext'
    BY <1>0, <1>2, <1>4 DEF MInv, OneTxPerVersion, OpenIsNext
  <1>10. CommitIsFirst'
    <2> SUFFICES ASSUME NEW q \in Processes, phase'[q] = "commit" PROVE current'[q] \notin ledger'
      BY DEF CommitIsFirst
    <2>1. q # p /\ phase[q] = "commit" /\ InTx(q)
      BY <1>1 DEF InTx
    <2> QED
      BY <1>0, <1>2, <2>1 DEF MInv, CommitIsFirst, OneTxPerVersion
  <1>11. UpIsConfigured'
    BY <1>0, <1>1 DEF MInv, UpIsConfigured, Deserializes, Validates, KeysDecode
  <1>12. BoundIsApplied'
    BY <1>1, <1>2 DEF MInv, BoundIsApplied
  <1> QED
    BY <1>5, <1>6, <1>7, <1>8, <1>9, <1>10, <1>11, <1>12 DEF MInv

LEMMA NextInv == MInv /\ [MNext]_mvars => MInv'
  <1> SUFFICES ASSUME MInv, [MNext]_mvars PROVE MInv'
    OBVIOUS
  <1>0. CASE UNCHANGED mvars
    BY <1>0 DEF mvars, MInv, MTypeOK, AppliedOnce, AppliedInOrder, KnownIsApplied, InTx,
         OneTxPerVersion, OpenIsNext, CommitIsFirst, UpIsConfigured, BoundIsApplied,
         Deserializes, Validates, KeysDecode
  <1>1. ASSUME NEW p \in Processes, Step(p) PROVE MInv'
    <2> USE <1>1
    <2>0. MTypeOK /\ KnownIsApplied /\ faults \in 0 .. MaxFaults
          /\ known \in [Processes -> SUBSET Versions] /\ phase \in [Processes -> Phases]
      BY DEF MInv, MTypeOK
    <2>1. CASE Start(p)
      BY <2>0, <2>1, PhaseStep DEF Start, Phases, KnownIsApplied
    <2>2. CASE Connect(p)
      BY <2>0, <2>2, PhaseStep DEF Connect, Phases, KnownIsApplied, MInv, UpIsConfigured
    <2>3. CASE ListApplied(p)
      <3>1. known' \in [Processes -> SUBSET Versions] /\ KnownIsApplied'
        BY <2>0, <2>3 DEF ListApplied, KnownIsApplied, MInv, MTypeOK
      <3> QED
        BY <2>0, <2>3, <3>1, PhaseStep DEF ListApplied, Phases, MInv, UpIsConfigured
    <2>4. CASE Execute(p)
      BY <2>4, ExecuteStep
    <2>5. CASE Record(p)
      BY <2>0, <2>5, PhaseStep DEF Record, Phases, KnownIsApplied, MInv, UpIsConfigured
    <2>6. CASE Commit(p)
      BY <2>6, CommitStep
    <2>7. CASE Finish(p)
      <3>1. FilesOf[p] \subseteq ledger
        BY <2>7 DEF Finish, Pending, MInv, KnownIsApplied
      <3> QED
        BY <2>0, <2>7, <3>1, PhaseStep DEF Finish, Phases, KnownIsApplied, MInv, UpIsConfigured
    <2>8. CASE Bind(p)
      BY <2>0, <2>8, PhaseStep DEF Bind, Phases, KnownIsApplied, MInv, UpIsConfigured, BoundIsApplied
    <2> QED
      BY <2>1, <2>2, <2>3, <2>4, <2>5, <2>6, <2>7, <2>8 DEF Step
  <1>2. ASSUME NEW p \in Processes, Crash(p) PROVE MInv'
    <2>1. faults' \in 0 .. MaxFaults
      BY <1>2, MigrationsAssumption DEF Crash, MInv, MTypeOK
    <2> QED
      BY <1>2, <2>1, PhaseStep DEF Crash, Phases, MInv, MTypeOK, KnownIsApplied
  <1> QED
    BY <1>0, <1>1, <1>2 DEF MNext

(* What processes know of the ledger stays true whatever the others do. *)
THEOREM InvHolds == MSpec => []MInv
  BY InitInv, NextInv, PTL DEF MSpec

(* A usable environment is all that the checks of a start let through. *)
LEMMA ReadyWhenBound == MInv => ServingIsReady
  <1> SUFFICES ASSUME MInv, NEW p \in Processes, phase[p] = "serving"
               PROVE  Usable(env[p]) /\ FilesOf[p] \subseteq ledger
    BY DEF ServingIsReady
  <1> DEFINE e == env[p]
  <1>1. e \in Environments
    BY DEF MInv, MTypeOK
  <1>2. e \in [Settings -> Values] /\ e["jwt_secret"] # "garbled"
    BY <1>1, MigrationsAssumption
  <1>3. Deserializes(e) /\ Validates(e) /\ KeysDecode(e) /\ e["database_url"] = "ok"
    BY DEF MInv, UpIsConfigured
  <1>4. Usable(e)
    <2>1. e["jwt_secret"] = "ok"
      BY <1>2, <1>3 DEF Deserializes, Validates, Settings, Values
    <2>2. e["field_key"] = "ok" /\ e["hmac_salt_key"] = "ok"
      BY <1>3 DEF KeysDecode, KeySettings
    <2> QED
      BY <1>3, <2>1, <2>2 DEF Usable, Deserializes, Validates, Settings
  <1> QED
    BY <1>4 DEF MInv, BoundIsApplied

(* Every reachable state of a start is well typed. *)
THEOREM TypeCorrect == MSpec => []MTypeOK
  BY InvHolds, PTL DEF MInv

(* The SQL of a version takes effect exactly once, for any number of processes
   that start together and any failures. *)
THEOREM AppliedOnceHolds == MSpec => []AppliedOnce
  BY InvHolds, PTL DEF MInv

(* The ledger never skips a version. *)
THEOREM InOrder == MSpec => []AppliedInOrder
  BY InvHolds, PTL DEF MInv

(* A process serves only on a usable environment and a complete schema. *)
THEOREM ReadyToServe == MSpec => []ServingIsReady
  BY InvHolds, ReadyWhenBound, PTL

-----------------------------------------------------------------------------
(* A step of the servers is a step of their start, or leaves it alone. *)
LEMMA StepMaps == [Next]_vars => [MNext]_mvars
  <1> SUFFICES ASSUME [Next]_vars PROVE [MNext]_mvars
    OBVIOUS
  <1>1. CASE UNCHANGED vars
    BY <1>1 DEF vars
  <1>2. CASE \E p \in Processes : (Step(p) /\ UNCHANGED lvars) \/ Die(p)
    BY <1>2 DEF MNext, Die
  <1>3. CASE \E c \in Clients : CheckAndRecord(c) \/ \E p \in Processes, i \in Ips : Attempt(c, p, i)
    BY <1>3 DEF CheckAndRecord, Attempt
  <1>4. CASE Tick
    BY <1>4 DEF Tick
  <1> QED
    BY <1>1, <1>2, <1>3, <1>4 DEF Next

(* Whatever the limiter does, the processes start as Migrations describes. *)
THEOREM ServersMigrate == Spec => MSpec
  BY StepMaps, PTL DEF Spec, Init, MSpec

-----------------------------------------------------------------------------
Entries == [age : 0 .. Window + 1, count : 0 .. Limit]
Ages == [1 .. MaxBurst + 1 -> 0 .. Window]

LTypeOK ==
    /\ entry \in [Processes -> [Ips -> Entries]]
    /\ login \in [Clients -> LoginStates]
    /\ recent \in [Processes -> [Ips -> Ages]]

LEMMA IdleIsNoCheck == Idle \notin [pc : {"check"}, process : Processes, ip : Ips, now : {0, 1}]
  BY DEF Idle

LEMMA ChargedType ==
    ASSUME NEW e \in Entries, NEW now \in {0, 1}
    PROVE  Charged(e, now) \in Entries
  BY ServerAssumption DEF Charged, Entries

LEMMA AdmittedType == ASSUME NEW ages \in Ages PROVE Admitted(ages) \in Ages
  BY ServerAssumption DEF Admitted, Ages, MaxBurst

LEMMA InitLType == Init => LTypeOK
  BY ServerAssumption
  DEF Init, LTypeOK, Entries, NoEntry, NoAdmission, LoginStates, Ages, MaxBurst

(* An admitted login is counted only below the limit. *)
LEMMA CheckType == ASSUME LTypeOK, NEW c \in Clients, CheckAndRecord(c) PROVE LTypeOK'
  <1> DEFINE l == login[c]
             p == l.process
             i == l.ip
             e == Charged(entry[p][i], l.now)
  <1>1. l \in LoginStates /\ l.pc = "check"
    BY DEF LTypeOK, CheckAndRecord
  <1>2. p \in Processes /\ i \in Ips /\ l.now \in {0, 1}
    BY <1>1 DEF LoginStates, Idle
  <1>3. entry[p] \in [Ips -> Entries] /\ entry[p][i] \in Entries
    BY <1>2 DEF LTypeOK
  <1>4. e \in Entries
    BY <1>2, <1>3, ChargedType
  <1>5. login' = [login EXCEPT ![c] = Idle] /\ login' \in [Clients -> LoginStates]
    BY DEF CheckAndRecord, LTypeOK, LoginStates
  <1> HIDE DEF e
  <1>6. CASE e.count >= Limit
    <2>1. entry' = [entry EXCEPT ![p][i] = e] /\ recent' = recent
      BY <1>6 DEF CheckAndRecord, e
    <2> QED
      BY <1>2, <1>3, <1>4, <1>5, <2>1 DEF LTypeOK
  <1>7. CASE ~(e.count >= Limit)
    <2> DEFINE d == [e EXCEPT !.count = e.count + 1]
    <2>1. entry' = [entry EXCEPT ![p][i] = d]
          /\ recent' = [recent EXCEPT ![p][i] = Admitted(recent[p][i])]
      BY <1>7 DEF CheckAndRecord, e
    <2>2. d \in Entries
      BY <1>4, <1>7, ServerAssumption DEF Entries
    <2>3. entry' \in [Processes -> [Ips -> Entries]]
      BY <1>2, <1>3, <2>1, <2>2 DEF LTypeOK
    <2>4. recent[p] \in [Ips -> Ages] /\ Admitted(recent[p][i]) \in Ages
      BY <1>2, AdmittedType DEF LTypeOK
    <2>5. recent' \in [Processes -> [Ips -> Ages]]
      BY <1>2, <2>1, <2>4 DEF LTypeOK
    <2> QED
      BY <1>5, <2>3, <2>5 DEF LTypeOK
  <1> QED
    BY <1>6, <1>7

LEMMA TickType == ASSUME LTypeOK, Tick PROVE LTypeOK'
  <1>1. login' \in [Clients -> LoginStates]
    <2> SUFFICES ASSUME NEW c \in Clients, login[c] # Idle
                 PROVE  [login[c] EXCEPT !.now = 1] \in LoginStates
      BY DEF Tick, LoginStates
    <2> QED
      BY DEF LTypeOK, LoginStates
  <1>2. entry' \in [Processes -> [Ips -> Entries]]
    <2> SUFFICES ASSUME NEW p \in Processes, NEW i \in Ips
                 PROVE  [entry[p][i] EXCEPT !.age = IF entry[p][i].age > Window
                            THEN entry[p][i].age ELSE entry[p][i].age + 1] \in Entries
      BY DEF Tick
    <2>1. entry[p][i] \in Entries
      BY DEF LTypeOK
    <2> QED
      BY <2>1, ServerAssumption DEF Entries
  <1>3. recent' \in [Processes -> [Ips -> Ages]]
    <2> SUFFICES ASSUME NEW p \in Processes, NEW i \in Ips, NEW k \in 1 .. MaxBurst + 1
                 PROVE  (IF recent[p][i][k] = Window THEN Window ELSE recent[p][i][k] + 1)
                            \in 0 .. Window
      BY DEF Tick, Ages
    <2>1. recent[p][i] \in Ages
      BY DEF LTypeOK
    <2>2. recent[p][i][k] \in 0 .. Window
      BY <2>1 DEF Ages
    <2> QED
      BY <2>2, ServerAssumption
  <1> QED
    BY <1>1, <1>2, <1>3 DEF LTypeOK

LEMMA NextLType == LTypeOK /\ [Next]_vars => LTypeOK'
  <1> SUFFICES ASSUME LTypeOK, [Next]_vars PROVE LTypeOK'
    OBVIOUS
  <1>1. CASE UNCHANGED lvars
    BY <1>1 DEF lvars, LTypeOK
  <1>2. ASSUME NEW p \in Processes, Die(p) PROVE LTypeOK'
    <2>1. [i \in Ips |-> NoEntry] \in [Ips -> Entries]
      BY ServerAssumption DEF NoEntry, Entries
    <2>2. NoAdmission \in [Ips -> Ages]
      BY ServerAssumption DEF NoAdmission, Ages
    <2> QED
      BY <1>2, <2>1, <2>2 DEF Die, LTypeOK, LoginStates
  <1>3. ASSUME NEW c \in Clients, CheckAndRecord(c) PROVE LTypeOK'
    BY <1>3, CheckType
  <1>4. ASSUME NEW c \in Clients, NEW p \in Processes, NEW i \in Ips, Attempt(c, p, i)
        PROVE  LTypeOK'
    BY <1>4 DEF Attempt, LTypeOK, LoginStates
  <1>5. CASE Tick
    BY <1>5, TickType
  <1> QED
    BY <1>1, <1>2, <1>3, <1>4, <1>5 DEF Next, vars, lvars

(* Every reachable state of the servers is well typed; the counter of a window
   stays within the limit. *)
THEOREM ServerTypeCorrect == Spec => []TypeOK
  <1>1. LTypeOK /\ MTypeOK => TypeOK
    BY DEF LTypeOK, TypeOK, Entries, Ages
  <1>2. Spec => []LTypeOK
    BY InitLType, NextLType, PTL DEF Spec
  <1> QED
    BY <1>1, <1>2, ServersMigrate, TypeCorrect, PTL

(* However many servers start together and fail, each migration takes effect
   once. *)
THEOREM ServersApplyOnce == Spec => []AppliedOnce
  BY ServersMigrate, AppliedOnceHolds, PTL

(* The ledger of the servers never skips a version. *)
THEOREM ServersApplyInOrder == Spec => []AppliedInOrder
  BY ServersMigrate, InOrder, PTL

(* Requests are served only on a usable environment and a complete schema. *)
THEOREM ServersAreReady == Spec => []ServingIsReady
  BY ServersMigrate, ReadyToServe, PTL

-----------------------------------------------------------------------------
(* The limiter.  BurstBounded says nothing of the entry, so it is strengthened
   by what the entry knows of the admissions: they are not older than its
   window allows; those it has not counted were made before its window, hence
   are at least as old as it is; and those before the last Limit of these were
   made before the window that preceded it. *)
InWindow(e, ages) ==
    \A k \in 1 .. MaxBurst + 1 :
        /\ ages[k] >= e.age - Window
        /\ k > e.count => ages[k] >= e.age \/ ages[k] = Window
        /\ k > e.count + Limit => ages[k] = Window

WindowInv == LTypeOK /\ \A p \in Processes, i \in Ips : InWindow(entry[p][i], recent[p][i])

LEMMA FreshInWindow == InWindow(NoEntry, [k \in 1 .. MaxBurst + 1 |-> Window])
  BY ServerAssumption DEF InWindow, NoEntry

(* An admission is counted in the window of the entry, which is a new one
   when the old one has expired: then every admission so far is older. *)
LEMMA AdmissionInWindow ==
    ASSUME NEW e \in Entries, NEW ages \in Ages, NEW now \in {0, 1},
           InWindow(e, ages), Charged(e, now).count < Limit
    PROVE  InWindow([Charged(e, now) EXCEPT !.count = Charged(e, now).count + 1], Admitted(ages))
  <1> DEFINE c == Charged(e, now)
             new == [c EXCEPT !.count = c.count + 1]
  <1>1. c \in Entries /\ c.age \in 0 .. Window + 1 /\ c.count \in 0 .. Limit
    BY ChargedType DEF Entries
  <1>2. new.age = c.age /\ new.count = c.count + 1
    BY <1>1 DEF Entries
  <1>3. c.age <= Window
    BY ServerAssumption DEF Charged, Entries
  <1>4. ASSUME NEW k \in 1 .. MaxBurst + 1
        PROVE  /\ k > c.count => ages[k] >= c.age \/ ages[k] = Window
               /\ k > c.count + Limit => ages[k] = Window
    <2>1. ages[k] \in 0 .. Window
      BY DEF Ages
    <2>2. e.age \in 0 .. Window + 1 /\ e.count \in 0 .. Limit
      BY DEF Entries
    <2>3. CASE e.age - now >= Window
      <3>1. c.age = now /\ c.count = 0
        BY <2>3 DEF Charged
      <3>2. ages[k] >= e.age - Window /\ (k > e.count => ages[k] >= e.age \/ ages[k] = Window)
        BY DEF InWindow
      <3>3. k \in Int /\ Window \in Nat /\ Limit \in Nat
        BY ServerAssumption DEF MaxBurst
      <3> HIDE DEF c
      <3>4. ages[k] >= now
        BY <2>1, <2>2, <2>3, <3>2, <3>3
      <3>5. k > Limit => ages[k] = Window
        BY <2>1, <2>2, <2>3, <3>2, <3>3
      <3> QED
        BY <3>1, <3>3, <3>4, <3>5
    <2>4. CASE ~(e.age - now >= Window)
      BY <2>4 DEF Charged, InWindow
    <2> QED
      BY <2>3, <2>4
  <1> HIDE DEF c
  <1>5. ASSUME NEW k \in 1 .. MaxBurst + 1
        PROVE  /\ Admitted(ages)[k] >= new.age - Window
               /\ k > new.count => Admitted(ages)[k] >= new.age \/ Admitted(ages)[k] = Window
               /\ k > new.count + Limit => Admitted(ages)[k] = Window
    <2>1. Admitted(ages)[k] = IF k = 1 THEN 0 ELSE ages[k - 1]
      BY DEF Admitted
    <2>2. CASE k = 1
      BY <1>1, <1>2, <1>3, <2>1, <2>2, ServerAssumption
    <2>3. CASE k # 1
      <3>1. k - 1 \in 1 .. MaxBurst + 1 /\ ages[k - 1] \in 0 .. Window
        BY <2>3, ServerAssumption DEF Ages, MaxBurst
      <3>2. Admitted(ages)[k] = ages[k - 1] /\ k \in 1 .. MaxBurst + 1
        BY <2>1, <2>3
      <3>3. /\ k - 1 > c.count => ages[k - 1] >= c.age \/ ages[k - 1] = Window
            /\ k - 1 > c.count + Limit => ages[k - 1] = Window
        BY <1>4, <3>1
      <3> HIDE DEF new
      <3>4. k \in Int /\ new.count \in Int /\ MaxBurst \in Int
        BY <1>1, <1>2, ServerAssumption DEF MaxBurst
      <3> QED
        BY <1>1, <1>2, <1>3, <3>1, <3>2, <3>3, <3>4, ServerAssumption
    <2> QED
      BY <2>2, <2>3
  <1> QED
    BY <1>5 DEF InWindow, c

(* A tick ages the entry and the admissions alike, each up to its cap. *)
LEMMA TickInWindow ==
    ASSUME NEW e \in Entries, NEW ages \in Ages, InWindow(e, ages)
    PROVE  InWindow([e EXCEPT !.age = IF e.age > Window THEN e.age ELSE e.age + 1],
                    [k \in 1 .. MaxBurst + 1 |-> IF ages[k] = Window THEN Window ELSE ages[k] + 1])
  <1> DEFINE new == [e EXCEPT !.age = IF e.age > Window THEN e.age ELSE e.age + 1]
             older == [k \in 1 .. MaxBurst + 1 |-> IF ages[k] = Window THEN Window ELSE ages[k] + 1]
  <1>1. e.age \in 0 .. Window + 1 /\ e.count \in 0 .. Limit
    BY DEF Entries
  <1>2. new.count = e.count /\ new.age = IF e.age > Window THEN e.age ELSE e.age + 1
    BY DEF Entries
  <1>3. ASSUME NEW k \in 1 .. MaxBurst + 1
        PROVE  /\ older[k] >= new.age - Window
               /\ k > new.count => older[k] >= new.age \/ older[k] = Window
               /\ k > new.count + Limit => older[k] = Window
    <2>1. ages[k] \in 0 .. Window
      BY DEF Ages
    <2>2. older[k] = IF ages[k] = Window THEN Window ELSE ages[k] + 1
      OBVIOUS
    <2> HIDE DEF older, new
    <2> QED
      BY <1>1, <1>2, <2>1, <2>2, ServerAssumption DEF InWindow
  <1> QED
    BY <1>3 DEF InWindow

LEMMA InitWindow == Init => WindowInv
  BY InitLType, FreshInWindow DEF Init, WindowInv, NoAdmission

LEMMA CheckWindow ==
    ASSUME WindowInv, NEW c \in Clients, CheckAndRecord(c)
    PROVE  \A p \in Processes, i \in Ips : InWindow(entry'[p][i], recent'[p][i])
  <1> DEFINE l == login[c]
             p == l.process
             i == l.ip
             e == entry[p][i]
             d == Charged(e, l.now)
  <1>1. p \in Processes /\ i \in Ips /\ l.now \in {0, 1}
    BY DEF WindowInv, LTypeOK, CheckAndRecord, LoginStates, Idle
  <1>2. entry \in [Processes -> [Ips -> Entries]] /\ recent \in [Processes -> [Ips -> Ages]]
    BY DEF WindowInv, LTypeOK
  <1>3. e \in Entries /\ recent[p][i] \in Ages /\ InWindow(e, recent[p][i])
    BY <1>1, <1>2 DEF WindowInv
  <1>4. d \in Entries
    BY <1>1, <1>3, ChargedType
  <1>5. CASE d.count >= Limit
    <2>1. d = e
      BY <1>1, <1>3, <1>5, ServerAssumption DEF Charged
    <2>2. entry' = [entry EXCEPT ![p][i] = d] /\ recent' = recent
      BY <1>5 DEF CheckAndRecord
    <2> QED
      BY <1>1, <1>2, <2>1, <2>2 DEF WindowInv
  <1>6. CASE ~(d.count >= Limit)
    <2> DEFINE new == [d EXCEPT !.count = d.count + 1]
    <2>1. entry' = [entry EXCEPT ![p][i] = new]
          /\ recent' = [recent EXCEPT ![p][i] = Admitted(recent[p][i])]
      BY <1>6 DEF CheckAndRecord
    <2>2. d.count < Limit
      BY <1>4, <1>6, ServerAssumption DEF Entries
    <2>3. InWindow(new, Admitted(recent[p][i]))
      BY <1>1, <1>3, <2>2, AdmissionInWindow
    <2> HIDE DEF new, p, i
    <2>4. ASSUME NEW q \in Processes, NEW j \in Ips
          PROVE  InWindow(entry'[q][j], recent'[q][j])
      <3>1. CASE q = p /\ j = i
        BY <1>1, <1>2, <2>1, <2>3, <3>1
      <3>2. CASE ~(q = p /\ j = i)
        <4>1. entry'[q][j] = entry[q][j] /\ recent'[q][j] = recent[q][j]
          BY <1>1, <1>2, <2>1, <3>2
        <4> QED
          BY <4>1 DEF WindowInv
      <3> QED
        BY <3>1, <3>2
    <2> QED
      BY <2>4
  <1> QED
    BY <1>5, <1>6

LEMMA NextWindow == WindowInv /\ [Next]_vars => WindowInv'
  <1> SUFFICES ASSUME WindowInv, [Next]_vars PROVE WindowInv'
    OBVIOUS
  <1> USE DEF WindowInv
  <1>1. LTypeOK'
    BY NextLType
  <1>2. ASSUME UNCHANGED <<entry, recent>> PROVE WindowInv'
    BY <1>1, <1>2
  <1>3. CASE UNCHANGED lvars
    BY <1>2, <1>3 DEF lvars
  <1>4. ASSUME NEW p \in Processes, Die(p) PROVE WindowInv'
    BY <1>1, <1>4, FreshInWindow DEF Die, NoAdmission, LTypeOK
  <1>5. ASSUME NEW c \in Clients, CheckAndRecord(c) PROVE WindowInv'
    BY <1>1, <1>5, CheckWindow
  <1>6. ASSUME NEW c \in Clients, NEW p \in Processes, NEW i \in Ips, Attempt(c, p, i)
        PROVE  WindowInv'
    BY <1>2, <1>6 DEF Attempt
  <1>7. CASE Tick
    <2> SUFFICES ASSUME NEW p \in Processes, NEW i \in Ips
                 PROVE  InWindow(entry'[p][i], recent'[p][i])
      BY <1>1
    <2>1. entry[p][i] \in Entries /\ recent[p][i] \in Ages /\ InWindow(entry[p][i], recent[p][i])
      BY DEF LTypeOK
    <2>2. /\ entry'[p][i] = [entry[p][i] EXCEPT !.age =
                IF entry[p][i].age > Window THEN entry[p][i].age ELSE entry[p][i].age + 1]
          /\ recent'[p][i] = [k \in 1 .. MaxBurst + 1 |->
                IF recent[p][i][k] = Window THEN Window ELSE recent[p][i][k] + 1]
      BY <1>7 DEF Tick
    <2> QED
      BY <2>1, <2>2, TickInWindow
  <1> QED
    BY <1>3, <1>4, <1>5, <1>6, <1>7 DEF Next, vars, lvars

(* For every limit and window: whatever calls race for the lock with a clock
   they read before, no address is admitted more than twice the limit within
   any minute of a process's life. *)
THEOREM BurstsBounded == Spec => []BurstBounded
  <1>1. WindowInv => BurstBounded
    <2> SUFFICES ASSUME WindowInv, NEW p \in Processes, NEW i \in Ips
                 PROVE  recent[p][i][MaxBurst + 1] = Window
      BY DEF BurstBounded
    <2>1. entry[p][i].count \in 0 .. Limit /\ InWindow(entry[p][i], recent[p][i])
      BY DEF WindowInv, LTypeOK, Entries
    <2> QED
      BY <2>1, ServerAssumption DEF InWindow, MaxBurst
  <1> QED
    BY <1>1, InitWindow, NextWindow, PTL DEF Spec
=============================================================================
