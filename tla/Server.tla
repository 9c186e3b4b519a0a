-------------------------------- MODULE Server --------------------------------
(***************************************************************************)
(* Server processes from start to crash, with the one piece of state they  *)
(* keep in memory: the login limiter of rate_limit/login.rs, which every   *)
(* POST /auth/login asks first.  It is empty when a process starts and     *)
(* belongs to that process alone.                                          *)
(*                                                                         *)
(* Time passes in ticks, Window of them being the minute of the limiter;   *)
(* times are kept as ages.  A call reads the clock before it takes the     *)
(* lock, so that the clock may tick, once, in between.                     *)
(***************************************************************************)
EXTENDS Migrations

CONSTANTS
    Clients,  \* concurrent logins
    Ips,
    Limit,    \* LIMIT_PER_MIN
    Window    \* WINDOW, in ticks

ASSUME ServerAssumption == Limit \in Nat \ {0} /\ Window \in Nat \ {0}

VARIABLES
    entry,   \* LoginRateLimiter.inner of each process
    login,   \* the login of each client
    recent   \* how old its last admissions of each address are, newest first

vars == <<mvars, entry, login, recent>>
lvars == <<entry, login, recent>>

NoEntry == [age |-> Window + 1, count |-> 0]
Idle == [pc |-> "idle"]
(* An age of Window stands for any greater one and for no admission; a process
   remembers one admission more than it may grant in a window. *)
MaxBurst == 2 * Limit
NoAdmission == [i \in Ips |-> [k \in 1 .. MaxBurst + 1 |-> Window]]

Init ==
    /\ MInit
    /\ entry = [p \in Processes |-> [i \in Ips |-> NoEntry]]
    /\ login = [c \in Clients |-> Idle]
    /\ recent = [p \in Processes |-> NoAdmission]

-----------------------------------------------------------------------------
(* The handler extracts the address and reads the clock. *)
Attempt(c, p, i) ==
    /\ login[c] = Idle
    /\ phase[p] = "serving"
    /\ login' = [login EXCEPT ![c] = [pc |-> "check", process |-> p, ip |-> i, now |-> 0]]
    /\ UNCHANGED <<mvars, entry, recent>>

(* One admission more. *)
Admitted(ages) == [k \in 1 .. MaxBurst + 1 |-> IF k = 1 THEN 0 ELSE ages[k - 1]]

(* Mutant: a later window keeps the old start. *)
ChargedAnew(e, now) ==
    IF e.age - now >= Window THEN [e EXCEPT !.count = 0] ELSE e

(* The entry a call is charged to: a new one when the window has expired; a
   missing entry behaves like an expired one. *)
Charged(e, now) ==
    IF e.age - now >= Window THEN [age |-> now, count |-> 0] ELSE e

(* check_and_record under the lock; an admitted call goes on to the database
   as AccountInvitation describes. *)
CheckAndRecord(c) ==
    LET l == login[c]  p == l.process  i == l.ip
        e == Charged(entry[p][i], l.now)
    IN  /\ l.pc = "check"
        /\ login' = [login EXCEPT ![c] = Idle]
        /\ IF e.count >= Limit
           THEN entry' = [entry EXCEPT ![p][i] = e] /\ UNCHANGED recent
           ELSE /\ entry' = [entry EXCEPT ![p][i] = [e EXCEPT !.count = @ + 1]]
                /\ recent' = [recent EXCEPT ![p][i] = Admitted(@)]
        /\ UNCHANGED mvars

(* No login waits for the lock longer than a tick. *)
Tick ==
    /\ \A c \in Clients : login[c] # Idle => login[c].now = 0
    /\ login' = [c \in Clients |->
                    IF login[c] = Idle THEN Idle ELSE [login[c] EXCEPT !.now = 1]]
    /\ entry' = [p \in Processes |-> [i \in Ips |->
                    [entry[p][i] EXCEPT !.age = IF @ > Window THEN @ ELSE @ + 1]]]
    /\ recent' = [p \in Processes |-> [i \in Ips |-> [k \in 1 .. MaxBurst + 1 |->
                    IF recent[p][i][k] = Window THEN Window ELSE recent[p][i][k] + 1]]]
    /\ UNCHANGED mvars

(* A crash ends the logins of the process and loses its counters. *)
Die(p) ==
    /\ Crash(p)
    /\ entry' = [entry EXCEPT ![p] = [i \in Ips |-> NoEntry]]
    /\ login' = [c \in Clients |->
                    IF login[c] # Idle /\ login[c].process = p THEN Idle ELSE login[c]]
    /\ recent' = [recent EXCEPT ![p] = NoAdmission]

Next ==
    \/ \E p \in Processes : (Step(p) /\ UNCHANGED lvars) \/ Die(p)
    \/ \E c \in Clients : CheckAndRecord(c) \/ \E p \in Processes, i \in Ips : Attempt(c, p, i)
    \/ Tick

Spec == Init /\ [][Next]_vars

(* systemd restarts a process that failed, and a process that runs is
   scheduled; nobody has to log in and no process has to crash. *)
FairSpec == Spec /\ \A p \in Processes : WF_vars(Step(p) /\ UNCHANGED lvars)

-----------------------------------------------------------------------------
LoginStates == {Idle} \cup
    [pc : {"check"}, process : Processes, ip : Ips, now : {0, 1}]

TypeOK ==
    /\ MTypeOK
    /\ entry \in [Processes -> [Ips -> [age : 0 .. Window + 1, count : 0 .. Limit]]]
    /\ login \in [Clients -> LoginStates]
    /\ recent \in [Processes -> [Ips -> [1 .. MaxBurst + 1 -> 0 .. Window]]]

(* E-2: a process admits at most twice the limit of logins of one address in
   any minute of its life, also of logins that read the clock in one minute
   and are counted in the next: the admission before the last 2 * Limit of
   them is always a minute old. *)
BurstBounded == \A p \in Processes, i \in Ips : recent[p][i][MaxBurst + 1] = Window

(* However often processes start together and fail, each process whose
   environment is usable serves in the end. *)
EveryProcessServes ==
    \A p \in Processes : Usable(env[p]) => <>[](phase[p] = "serving")
=============================================================================
