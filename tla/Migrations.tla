------------------------------ MODULE Migrations ------------------------------
(***************************************************************************)
(* The start of the server, main.rs, config.rs, lib.rs and db.rs, up to    *)
(* the moment it listens: several processes, of several releases, start on *)
(* one database and each runs the migrations that are missing there.       *)
(*                                                                         *)
(* A process is down until it starts, and down again when a step fails;    *)
(* systemd restarts it (DEPLOYMENT.md).  An environment value is           *)
(* abstracted to what the checks tell apart.  A migration runs in a        *)
(* transaction of its own; PostgreSQL makes a second one for the same      *)
(* version wait for the first, on the name it creates or the row it        *)
(* inserts.                                                                *)
(***************************************************************************)
EXTENDS Integers

CONSTANTS
    Processes,
    Environments,  \* the environments processes are deployed with
    Versions,      \* the versions of the migration files, in their order
    FilesOf,       \* the versions in ./migrations of each process's release
    Rerunnable,    \* the versions that run without error a second time
    MaxFaults      \* bound of the model

(* The settings without a default. *)
Settings == {"database_url", "redis_url", "jwt_secret", "field_key", "hmac_salt_key"}
KeySettings == {"field_key", "hmac_salt_key"}
Values == {"missing", "empty", "short", "garbled", "ok"}

(* A release has the files of the releases before it, and maybe more. *)
ASSUME MigrationsAssumption ==
    /\ Environments \subseteq [Settings -> Values]
    /\ \A e \in Environments : e["jwt_secret"] # "garbled"  \* any bytes do
    /\ Versions \subseteq Nat
    /\ FilesOf \in [Processes -> SUBSET Versions]
    /\ \A p \in Processes : \A v \in FilesOf[p], u \in Versions : u < v => u \in FilesOf[p]
    /\ Rerunnable \subseteq Versions
    /\ MaxFaults \in Nat

VARIABLES
    env,      \* the environment of each process
    phase,    \* the statement each process executes next
    known,    \* versions a process has read in _migrations or applied since
    current,  \* the version whose transaction a process has begun
    ledger,   \* the committed rows of _migrations
    runs,     \* how often the SQL of a version was committed
    faults    \* failures so far

mvars == <<env, phase, known, current, ledger, runs, faults>>

Phases == {"down", "connect", "list", "migrate", "record", "commit", "bind", "serving"}

InTx(p) == phase[p] \in {"record", "commit"}

MInit ==
    /\ env \in [Processes -> Environments]
    /\ phase = [p \in Processes |-> "down"]
    /\ known = [p \in Processes |-> {}]
    /\ current = [p \in Processes |-> 0]
    /\ ledger = {}
    /\ runs = [v \in Versions |-> 0]
    /\ faults = 0

Goto(p, f) == phase' = [phase EXCEPT ![p] = f]

-----------------------------------------------------------------------------
(* from_env: a setting without a default must be there. *)
Deserializes(e) == \A s \in Settings : e[s] # "missing"

(* Mutant: the length of the secret is not checked. *)
ValidatesAnyLength(e) ==
    /\ \A s \in Settings : e[s] # "empty"
    /\ \A s \in KeySettings : e[s] \notin {"short", "garbled"}

(* validate and validate_hex_key. *)
Validates(e) ==
    /\ \A s \in Settings : e[s] # "empty"
    /\ e["jwt_secret"] # "short"
    /\ \A s \in KeySettings : e[s] \notin {"short", "garbled"}

(* LocalKeyStore::from_config *)
KeysDecode(e) == \A s \in KeySettings : e[s] = "ok"

(* The configuration is refused before the database is touched. *)
Start(p) ==
    /\ phase[p] = "down"
    /\ Deserializes(env[p]) /\ Validates(env[p]) /\ KeysDecode(env[p])
    /\ Goto(p, "connect")
    /\ UNCHANGED <<env, known, current, ledger, runs, faults>>

(* build_pool: the URL is parsed and the server answers. *)
Connect(p) ==
    /\ phase[p] = "connect"
    /\ Goto(p, IF env[p]["database_url"] = "ok" THEN "list" ELSE "down")
    /\ UNCHANGED <<env, known, current, ledger, runs, faults>>

(* Mutant: the ledger is read only by the process that creates it. *)
ListAppliedOnce(p) ==
    /\ phase[p] = "list"
    /\ Goto(p, "migrate")
    /\ UNCHANGED <<env, known, current, ledger, runs, faults>>

(* run_migrations creates the ledger where it is missing and reads it once. *)
ListApplied(p) ==
    /\ phase[p] = "list"
    /\ known' = [known EXCEPT ![p] = ledger]
    /\ Goto(p, "migrate")
    /\ UNCHANGED <<env, current, ledger, runs, faults>>

Pending(p) == FilesOf[p] \ known[p]

IsNext(p, v) == v \in Pending(p) /\ \A u \in Pending(p) : v <= u

(* An open transaction of the version holds what the statement needs. *)
Blocked(p, v) == \E q \in Processes \ {p} : InTx(q) /\ current[q] = v

(* Mutant: the files are taken as the directory lists them. *)
ExecuteUnsorted(p) ==
    /\ phase[p] = "migrate"
    /\ \E v \in Pending(p) :
           /\ ~Blocked(p, v)
           /\ IF runs[v] = 0 \/ v \in Rerunnable
              THEN Goto(p, "record") /\ current' = [current EXCEPT ![p] = v]
              ELSE Goto(p, "down") /\ UNCHANGED current
    /\ UNCHANGED <<env, known, ledger, runs, faults>>

(* The SQL of the next file.  What it creates may have been committed by
   another process since the ledger was read: then it fails, and with it the
   start. *)
Execute(p) ==
    /\ phase[p] = "migrate"
    /\ \E v \in Pending(p) :
           /\ IsNext(p, v)
           /\ ~Blocked(p, v)
           /\ IF runs[v] = 0 \/ v \in Rerunnable
              THEN Goto(p, "record") /\ current' = [current EXCEPT ![p] = v]
              ELSE Goto(p, "down") /\ UNCHANGED current
    /\ UNCHANGED <<env, known, ledger, runs, faults>>

(* Mutant: the version is not the primary key of the ledger. *)
RecordTwice(p) ==
    /\ phase[p] = "record"
    /\ Goto(p, "commit")
    /\ UNCHANGED <<env, known, current, ledger, runs, faults>>

(* The row of the ledger, whose primary key is the version. *)
Record(p) ==
    /\ phase[p] = "record"
    /\ Goto(p, IF current[p] \in ledger THEN "down" ELSE "commit")
    /\ UNCHANGED <<env, known, current, ledger, runs, faults>>

Commit(p) ==
    /\ phase[p] = "commit"
    /\ ledger' = ledger \cup {current[p]}
    /\ runs' = [runs EXCEPT ![current[p]] = @ + 1]
    /\ known' = [known EXCEPT ![p] = @ \cup {current[p]}]
    /\ Goto(p, "migrate")
    /\ UNCHANGED <<env, current, faults>>

(* Every file is applied. *)
Finish(p) ==
    /\ phase[p] = "migrate"
    /\ Pending(p) = {}
    /\ Goto(p, "bind")
    /\ UNCHANGED <<env, known, current, ledger, runs, faults>>

Bind(p) ==
    /\ phase[p] = "bind"
    /\ Goto(p, "serving")
    /\ UNCHANGED <<env, known, current, ledger, runs, faults>>

(* A statement fails, also the loser's of two CREATE TABLE IF NOT EXISTS, or
   the process is killed: its transaction is rolled back. *)
Crash(p) ==
    /\ phase[p] # "down"
    /\ faults < MaxFaults
    /\ faults' = faults + 1
    /\ Goto(p, "down")
    /\ UNCHANGED <<env, known, current, ledger, runs>>

Step(p) == \/ Start(p) \/ Connect(p) \/ ListApplied(p) \/ Execute(p)
           \/ Record(p) \/ Commit(p) \/ Finish(p) \/ Bind(p)

MNext == \E p \in Processes : Step(p) \/ Crash(p)

MSpec == MInit /\ [][MNext]_mvars

-----------------------------------------------------------------------------
MTypeOK ==
    /\ env \in [Processes -> Environments]
    /\ phase \in [Processes -> Phases]
    /\ known \in [Processes -> SUBSET Versions]
    /\ current \in [Processes -> Versions \cup {0}]
    /\ \A p \in Processes : InTx(p) => current[p] \in Versions
    /\ ledger \subseteq Versions
    /\ runs \in [Versions -> Nat]
    /\ faults \in 0 .. MaxFaults

(* Whoever starts together, and wherever one fails: the SQL of a version takes
   effect exactly once if the ledger lists it and not at all otherwise, also
   of a version that would run a second time without an error. *)
AppliedOnce == \A v \in Versions : runs[v] = IF v \in ledger THEN 1 ELSE 0

(* The ledger never skips a version, whatever releases migrate together. *)
AppliedInOrder == \A v \in ledger, u \in Versions : u < v => u \in ledger

(* H-53: every setting the server uses is usable, and every file of its
   release is applied, before it takes a request. *)
Usable(e) == /\ \A s \in Settings \ {"redis_url"} : e[s] = "ok"
             /\ e["redis_url"] \notin {"missing", "empty"}

ServingIsReady ==
    \A p \in Processes : phase[p] = "serving" => Usable(env[p]) /\ FilesOf[p] \subseteq ledger
=============================================================================
