----------------------------- MODULE ServerStartup -----------------------------
(***************************************************************************)
(* Start of the four Go servers of books-app over one PostgreSQL           *)
(* (internal/apps, internal/pkg/db and internal/pkg/db/migrations).  Each   *)
(* connects or dies, runs the same migration files, and serves whether or  *)
(* not they succeeded.  golang-migrate is external: an advisory lock held  *)
(* by a database session, and a version row with a dirty flag set before   *)
(* and cleared after each file.                                            *)
(***************************************************************************)
EXTENDS Naturals

CONSTANTS Servers,
          Files,       \* number of migration files
          MaxStarts,   \* bound on the starts of one server
          MaxOutages,  \* bound on the outages of the database
          None

ASSUME ConstantsAssumption ==
    /\ Files \in Nat /\ Files > 0
    /\ MaxStarts \in Nat /\ MaxOutages \in Nat
    /\ None \notin Servers

VARIABLES
    dbUp,      \* the database accepts connections
    outages,   \* outages so far
    version,   \* version row: the last file begun
    dirty,     \* its flag
    runs,      \* how often the effect of each file was committed
    lock,      \* the session that holds the advisory lock
    conn,      \* servers whose migration session is alive
    pending,   \* sessions whose request for the lock outlived its timeout
    pc,        \* where each server's Start is
    starts,    \* starts so far
    logged     \* what RunMigrationsWith logged last

database == <<version, dirty, runs>>
environment == <<dbUp, outages>>
sessions == <<conn, pending>>
vars == <<environment, database, lock, sessions, pc, starts, logged>>

Migrating == {"check", "mark", "run", "clear"}
PC == {"down", "exited", "connect", "prepare", "up", "serving"} \union Migrating

Init ==
    /\ dbUp = FALSE
    /\ outages = 0
    /\ version = 0
    /\ dirty = FALSE
    /\ runs = [f \in 1..Files |-> 0]
    /\ lock = None
    /\ conn = {}
    /\ pending = {}
    /\ pc = [s \in Servers |-> "down"]
    /\ starts = [s \in Servers |-> 0]
    /\ logged = [s \in Servers |-> "nothing"]

Goto(s, to) == pc' = [pc EXCEPT ![s] = to]

\* What ends a session releases the lock it holds.
Released(S) == IF lock \in S THEN None ELSE lock

-------------------------------------------------------------------------------
(* Mutants: slips that the properties below must notice. *)

\* A start that waits for the database instead of exiting.
ConnectWaits(s) ==
    /\ pc[s] = "connect"
    /\ dbUp
    /\ Goto(s, "prepare")
    /\ conn' = conn \union {s}
    /\ UNCHANGED <<environment, database, lock, pending, starts, logged>>

\* The dirty flag is not looked at.
CheckTrusting(s) ==
    /\ pc[s] = "check" /\ s \in conn
    /\ Goto(s, IF version = Files THEN "serving" ELSE "mark")
    /\ logged' = [logged EXCEPT ![s] = IF version = Files THEN "no change" ELSE @]
    /\ lock' = IF version = Files THEN None ELSE lock
    /\ UNCHANGED <<environment, database, sessions, starts>>

\* One file too many.
CheckOnceTooOften(s) ==
    /\ pc[s] = "check" /\ s \in conn
    /\ ~dirty /\ version <= Files
    /\ Goto(s, "mark")
    /\ UNCHANGED <<environment, database, lock, sessions, starts, logged>>

-------------------------------------------------------------------------------
(* The database (restart: always) and the operator. *)

DbStarts ==
    /\ ~dbUp
    /\ dbUp' = TRUE
    /\ UNCHANGED <<outages, database, lock, sessions, pc, starts, logged>>

DbStops ==
    /\ dbUp
    /\ outages < MaxOutages
    /\ dbUp' = FALSE
    /\ outages' = outages + 1
    /\ lock' = None
    /\ conn' = {}
    /\ pending' = {}
    /\ UNCHANGED <<database, pc, starts, logged>>

Launch(s) ==
    /\ pc[s] \in {"down", "exited"}
    /\ starts[s] < MaxStarts
    /\ starts' = [starts EXCEPT ![s] = @ + 1]
    /\ logged' = [logged EXCEPT ![s] = "nothing"]
    /\ Goto(s, "connect")
    /\ UNCHANGED <<environment, database, lock, sessions>>

\* The process is killed, at any point.
Crash(s) ==
    /\ pc[s] \notin {"down", "exited"}
    /\ Goto(s, "down")
    /\ lock' = Released({s})
    /\ conn' = conn \ {s}
    /\ pending' = pending \ {s}
    /\ UNCHANGED <<environment, database, starts, logged>>

-------------------------------------------------------------------------------
(* Start up to RunMigrations: ProvideDBConn and ProvideMigrator end the        *)
(* process when they fail.                                                     *)

Exit(s) ==
    /\ Goto(s, "exited")
    /\ conn' = conn \ {s}

Connect(s) ==
    /\ pc[s] = "connect"
    /\ IF dbUp
       THEN Goto(s, "prepare") /\ conn' = conn \union {s}
       ELSE Exit(s)
    /\ UNCHANGED <<environment, database, lock, pending, starts, logged>>

\* Creating the version table takes the lock for a moment, and waits for it without
\* a timeout.
Prepare(s) ==
    /\ pc[s] = "prepare"
    /\ IF s \in conn
       THEN lock = None /\ Goto(s, "up") /\ UNCHANGED conn
       ELSE Exit(s)
    /\ UNCHANGED <<environment, database, lock, pending, starts, logged>>

-------------------------------------------------------------------------------
(* RunMigrationsWith around Up. An error is logged, then success is logged all  *)
(* the same, and the server serves.                                            *)

Report(s, line) ==
    /\ logged' = [logged EXCEPT ![s] = line]
    /\ Goto(s, "serving")
    /\ lock' = Released({s})
    /\ UNCHANGED <<environment, conn, starts>>

UpSucceeds(s)   == Report(s, "applied") /\ UNCHANGED pending
UpFails(s)      == Report(s, "applied") /\ UNCHANGED pending
UpNoChange(s)   == Report(s, "no change") /\ UNCHANGED pending
LockTimesOut(s) == Report(s, "applied") /\ pending' = pending \union {s}

Continue(s, to) ==
    /\ Goto(s, to)
    /\ UNCHANGED <<environment, sessions, starts, logged>>

Acquire(s) ==
    /\ pc[s] = "up" /\ s \in conn
    /\ \/ lock = None /\ lock' = s /\ Continue(s, "check")
       \/ lock # None /\ LockTimesOut(s) \* ErrLockTimeout
    /\ UNCHANGED database

\* The goroutine that asked for the lock still waits when Up has given up on it, and
\* gets a lock that nobody will release while the server runs.
LateLock(s) ==
    /\ s \in pending
    /\ lock = None
    /\ lock' = s
    /\ pending' = pending \ {s}
    /\ UNCHANGED <<environment, database, conn, pc, starts, logged>>

Check(s) ==
    /\ pc[s] = "check" /\ s \in conn
    /\ \/ dirty /\ UpFails(s)            \* ErrDirty
       \/ ~dirty /\ version = Files /\ UpNoChange(s)
       \/ ~dirty /\ version < Files /\ Continue(s, "mark") /\ UNCHANGED lock
    /\ UNCHANGED database

Mark(s) ==
    /\ pc[s] = "mark" /\ s \in conn
    /\ version' = version + 1
    /\ dirty' = TRUE
    /\ Continue(s, "run")
    /\ UNCHANGED <<runs, lock>>

\* One file is one transaction; it may fail, and its commit may go unacknowledged.
Committed == runs' = [runs EXCEPT ![version] = @ + 1]

Run(s) ==
    /\ pc[s] = "run" /\ s \in conn
    /\ \/ Committed /\ Continue(s, "clear") /\ UNCHANGED lock
       \/ (Committed \/ UNCHANGED runs) /\ UpFails(s)
    /\ UNCHANGED <<version, dirty>>

Clear(s) ==
    /\ pc[s] = "clear" /\ s \in conn
    /\ dirty' = FALSE
    /\ IF version = Files
       THEN UpSucceeds(s)
       ELSE Continue(s, "mark") /\ UNCHANGED lock
    /\ UNCHANGED <<version, runs>>

\* Any step of Up on a session that is gone.
SessionLost(s) ==
    /\ pc[s] \in {"up"} \union Migrating
    /\ s \notin conn
    /\ UpFails(s)
    /\ UNCHANGED database

-------------------------------------------------------------------------------

StartStep(s) ==
    \/ Connect(s) \/ Prepare(s)
    \/ Acquire(s) \/ Check(s) \/ Mark(s) \/ Run(s) \/ Clear(s) \/ SessionLost(s)

Next ==
    \/ DbStarts \/ DbStops
    \/ \E s \in Servers : Launch(s) \/ Crash(s) \/ StartStep(s) \/ LateLock(s)

SafeSpec == Init /\ [][Next]_vars

\* A server that is starting goes on starting.
Spec == SafeSpec /\ \A s \in Servers : WF_vars(StartStep(s))

-------------------------------------------------------------------------------
(* Properties. *)

TypeOK ==
    /\ outages \in 0..MaxOutages
    /\ version \in 0..Files
    /\ runs \in [1..Files -> Nat]
    /\ lock \in Servers \union {None}
    /\ conn \subseteq Servers
    /\ pending \subseteq conn
    /\ pc \in [Servers -> PC]
    /\ logged \in [Servers -> {"nothing", "applied", "no change"}]

\* Whatever crashes when, no file is applied twice, none is skipped, and a clean
\* version row says exactly which files were applied. A server that logged "No change
\* detected" has the whole schema.
VersionMatchesSchema ==
    /\ \A f \in 1..Files :
         /\ runs[f] <= 1
         /\ f < version => runs[f] = 1
         /\ f > version => runs[f] = 0
         /\ f = version /\ ~dirty => runs[f] = 1
    /\ \A s \in Servers : logged[s] = "no change" => \A f \in 1..Files : runs[f] = 1

\* A file was begun, and the server that began it lost its session or ended.
Stuck == dirty /\ \A s \in conn : pc[s] \notin {"run", "clear"}

\* Such a file blocks the migrations for good, even if it was committed itself: no
\* start of any server, with the lock or without, clears the flag, takes the file up
\* again or goes on to the next one.
DirtyIsForever == [][Stuck => Stuck' /\ UNCHANGED database]_vars

\* A server that serves although its request for the lock timed out may have got
\* the lock since.
LockLeaked == lock \in Servers /\ pc[lock] = "serving"

\* A start hangs only behind a leaked lock: otherwise it serves, or exits, or is
\* killed.
StartEnds ==
    \A s \in Servers :
        pc[s] = "connect" ~> pc[s] \in {"serving", "exited", "down"} \/ LockLeaked

\* migrator.go:54: "Migrations applied successfully".
AppliedMeansMigrated ==
    \A s \in Servers : logged[s] = "applied" => \A f \in 1..Files : runs[f] = 1
===============================================================================
