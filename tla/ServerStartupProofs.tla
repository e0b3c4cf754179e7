-------------------------- MODULE ServerStartupProofs --------------------------
(* Theorems about ServerStartup, for any servers, files, starts and outages.   *)
EXTENDS ServerStartup, TLAPS

-------------------------------------------------------------------------------
(* The inductive invariant: who migrates holds the lock, so there is only one, *)
(* and its place in the file under way says what the version row must say.     *)

Types ==
    /\ outages \in 0..MaxOutages
    /\ version \in 0..Files
    /\ dirty \in BOOLEAN
    /\ runs \in [1..Files -> Nat]
    /\ pc \in [Servers -> PC]
    /\ logged \in [Servers -> {"nothing", "applied", "no change"}]

\* Sessions belong to servers that have connected; the lock belongs to a session.
Sessions ==
    /\ conn \subseteq Servers
    /\ pending \subseteq conn
    /\ \A s \in conn : pc[s] \notin {"down", "exited", "connect"}
    /\ lock \in conn \union {None}

Migrates(s) == s \in conn /\ pc[s] \in Migrating

Locked == \A s \in Servers : Migrates(s) => lock = s

InFile ==
    \A s \in Servers : Migrates(s) =>
        /\ pc[s] = "mark" => ~dirty /\ version < Files
        /\ pc[s] \in {"run", "clear"} => dirty
        /\ pc[s] = "run" => runs[version] = 0
        /\ pc[s] = "clear" => runs[version] = 1

Rows ==
    /\ dirty => version > 0
    /\ VersionMatchesSchema

IInv == Types /\ Sessions /\ Locked /\ InFile /\ Rows

LEMMA InitIInv == Init => IInv
<1> SUFFICES ASSUME Init PROVE IInv
  OBVIOUS
<1> USE ConstantsAssumption DEF ConstantsAssumption, Init
<1>1. Types
  <2>1. outages \in 0..MaxOutages /\ version \in 0..Files
    OBVIOUS
  <2>5. dirty \in BOOLEAN
    OBVIOUS
  <2>2. runs \in [1..Files -> Nat]
    OBVIOUS
  <2>3. pc \in [Servers -> PC]
    BY DEF PC
  <2>4. logged \in [Servers -> {"nothing", "applied", "no change"}]
    OBVIOUS
  <2> QED BY <2>1, <2>2, <2>3, <2>4, <2>5 DEF Types
<1>2. Sessions /\ Locked /\ InFile
  BY DEF Sessions, Locked, InFile, Migrates
<1>3. Rows
  BY DEF Rows, VersionMatchesSchema
<1> QED
  BY <1>1, <1>2, <1>3 DEF IInv

-------------------------------------------------------------------------------
(* Steps that leave the tables alone and start no migration. *)

\* What such a step may do to the sessions, the lock and the places of the servers.
Quieter ==
    /\ UNCHANGED database
    /\ pc' \in [Servers -> PC]
    /\ logged' \in [Servers -> {"nothing", "applied", "no change"}]
    /\ \A s \in Servers : logged'[s] = "no change" =>
         logged[s] = "no change" \/ runs = [f \in 1..Files |-> 1]
    /\ outages' \in 0..MaxOutages
    /\ \A s \in Servers : Migrates(s)' => Migrates(s) /\ pc'[s] = pc[s] /\ lock' = lock

LEMMA QuietStep == IInv /\ Quieter /\ Sessions' => IInv'
<1> SUFFICES ASSUME IInv, Quieter, Sessions' PROVE IInv'
  OBVIOUS
<1> USE ConstantsAssumption DEF ConstantsAssumption, IInv, Quieter, database
<1>1. Types'
  BY DEF Types
<1>2. Locked'
  BY DEF Locked
<1>3. InFile'
  BY DEF InFile
<1>4. Rows'
  BY DEF Rows, VersionMatchesSchema
<1> QED
  BY <1>1, <1>2, <1>3, <1>4

\* Migrates(s) of a server that has just moved.
LEMMA Moved ==
    ASSUME Types, NEW s \in Servers, NEW to \in PC, Goto(s, to)
    PROVE  /\ pc' \in [Servers -> PC] /\ pc'[s] = to
           /\ \A t \in Servers : t # s => pc'[t] = pc[t]
  BY DEF Types, Goto

LEMMA Outside ==
    IInv /\ [\/ DbStarts \/ DbStops
             \/ \E s \in Servers : Launch(s) \/ Crash(s) \/ Connect(s) \/ Prepare(s)
                                   \/ LateLock(s) \/ SessionLost(s)]_vars => IInv'
<1> SUFFICES ASSUME IInv,
                    [\/ DbStarts \/ DbStops
                     \/ \E s \in Servers : Launch(s) \/ Crash(s) \/ Connect(s) \/ Prepare(s)
                                           \/ LateLock(s) \/ SessionLost(s)]_vars
             PROVE  IInv'
  OBVIOUS
<1> USE ConstantsAssumption DEF ConstantsAssumption
<1>1. CASE UNCHANGED vars
  <2>1. Sessions' /\ Quieter
    BY <1>1 DEF IInv, Types, Sessions, Quieter, Migrates, vars, database, environment, sessions
  <2> QED BY <2>1, QuietStep
<1>2. CASE DbStarts
  <2>1. Sessions' /\ Quieter
    BY <1>2 DEF DbStarts, IInv, Types, Sessions, Quieter, Migrates, database, sessions
  <2> QED BY <2>1, QuietStep
<1>3. CASE DbStops
  <2>1. outages' \in 0..MaxOutages
    <3>1. outages \in 0..MaxOutages
      BY DEF IInv, Types
    <3>2. outages < MaxOutages /\ outages' = outages + 1
      BY <1>3 DEF DbStops
    <3> QED BY <3>1, <3>2
  <2>2. Sessions' /\ Quieter
    BY <1>3, <2>1 DEF DbStops, IInv, Types, Sessions, Quieter, Migrates, database
  <2> QED BY <2>2, QuietStep
<1>4. ASSUME NEW s \in Servers, Launch(s) PROVE IInv'
  <2>1. Goto(s, "connect") /\ "connect" \in PC
    BY <1>4 DEF Launch, PC
  <2>2. Sessions'
    BY <1>4, <2>1, Moved DEF Launch, IInv, Sessions, sessions
  <2>3. Quieter
    BY <1>4, <2>1, Moved DEF Launch, IInv, Types, Quieter, Migrates, database, environment,
       sessions, Migrating
  <2> QED BY <2>2, <2>3, QuietStep
<1>5. ASSUME NEW s \in Servers, Crash(s) PROVE IInv'
  <2>1. Goto(s, "down") /\ "down" \in PC
    BY <1>5 DEF Crash, PC
  <2>2. Sessions'
    BY <1>5, <2>1, Moved DEF Crash, IInv, Sessions, Released
  <2>3. Quieter
    BY <1>5, <2>1, Moved DEF Crash, IInv, Types, Quieter, Locked, Migrates, database,
       environment, Migrating, Released
  <2> QED BY <2>2, <2>3, QuietStep
<1>6. ASSUME NEW s \in Servers, Connect(s) \/ Prepare(s) PROVE IInv'
  <2>1. PICK to \in {"prepare", "up", "exited"} : Goto(s, to)
    BY <1>6 DEF Connect, Prepare, Exit
  <2>2. to \in PC /\ to \notin Migrating
    BY DEF PC, Migrating
  <2>3. Sessions'
    <3>1. CASE Connect(s)
      <4>1. pc[s] = "connect" /\ s \notin conn /\ UNCHANGED <<lock, pending>>
        BY <3>1 DEF Connect, IInv, Sessions
      <4>2. \/ pc'[s] = "prepare" /\ conn' = conn \union {s}
            \/ pc'[s] = "exited" /\ conn' = conn \ {s}
        BY <3>1, Moved DEF Connect, Exit, IInv, PC
      <4> QED BY <4>1, <4>2, <2>1, <2>2, Moved DEF IInv, Sessions
    <3>2. CASE Prepare(s)
      BY <3>2, <1>6, <2>1, <2>2, Moved DEF Prepare, Exit, Goto, IInv, Types, Sessions
    <3> QED BY <1>6, <3>1, <3>2
  <2>4. \A t \in Servers : t # s => (t \in conn' <=> t \in conn)
    BY <1>6 DEF Connect, Prepare, Exit
  <2>5. UNCHANGED <<database, environment, lock, logged>>
    BY <1>6 DEF Connect, Prepare
  <2>6. Quieter
    BY <2>1, <2>2, <2>4, <2>5, Moved DEF IInv, Types, Quieter, Migrates, database, environment
  <2> QED BY <2>3, <2>6, QuietStep
<1>7. ASSUME NEW s \in Servers, LateLock(s) PROVE IInv'
  <2>1. Sessions'
    BY <1>7 DEF LateLock, IInv, Sessions
  <2>2. Quieter
    BY <1>7 DEF LateLock, IInv, Types, Quieter, Locked, Migrates, database, environment
  <2> QED BY <2>1, <2>2, QuietStep
<1>8. ASSUME NEW s \in Servers, SessionLost(s) PROVE IInv'
  <2>1. Goto(s, "serving") /\ "serving" \in PC /\ "serving" \notin Migrating
    BY <1>8 DEF SessionLost, UpFails, Report, PC, Migrating
  <2>2. lock' = lock /\ s \notin conn
    BY <1>8 DEF SessionLost, UpFails, Report, Released, IInv, Sessions
  <2>3. /\ UNCHANGED <<database, environment, sessions>>
        /\ logged' = [logged EXCEPT ![s] = "applied"]
    BY <1>8 DEF SessionLost, UpFails, Report, sessions
  <2>4. Sessions'
    BY <2>1, <2>2, <2>3, Moved DEF IInv, Sessions, sessions
  <2>5. Quieter
    BY <2>1, <2>2, <2>3, Moved DEF IInv, Types, Quieter, Migrates, database, environment,
       sessions
  <2> QED BY <2>4, <2>5, QuietStep
<1> QED
  BY <1>1, <1>2, <1>3, <1>4, <1>5, <1>6, <1>7, <1>8

-------------------------------------------------------------------------------
(* The steps of a migration. *)

\* Up ends with a line in the log and the lock given back.
LEMMA UpEnds ==
    ASSUME IInv, NEW s \in Servers, s \in conn, pc[s] \in {"up"} \union Migrating,
           NEW line \in {"nothing", "applied", "no change"}, Report(s, line),
           pending' = pending \/ pending' = pending \union {s},
           UNCHANGED database,
           line = "no change" => runs = [f \in 1..Files |-> 1]
    PROVE  IInv'
<1>1. Goto(s, "serving") /\ "serving" \in PC /\ "serving" \notin Migrating
  BY DEF Report, PC, Migrating
<1>2. pc[s] \notin {"down", "exited", "connect"} /\ s \in conn
  BY DEF IInv, Sessions, Migrating
<1>3. Sessions'
  BY <1>1, <1>2, Moved DEF Report, Released, IInv, Sessions
<1>4. \A t \in Servers : Migrates(t)' =>
        t # s /\ Migrates(t) /\ pc'[t] = pc[t] /\ lock' = lock
  BY <1>1, Moved DEF Report, Released, IInv, Migrates, Locked
<1>5. logged' = [logged EXCEPT ![s] = line] /\ UNCHANGED environment
  BY DEF Report
<1>6. Quieter
  BY <1>1, <1>4, <1>5, Moved DEF IInv, Types, Quieter, environment
<1> QED
  BY <1>3, <1>6, QuietStep

\* The one server that migrates goes on.
LEMMA GoesOn ==
    ASSUME IInv, NEW s \in Servers, NEW to \in Migrating, Continue(s, to),
           \/ Migrates(s) /\ lock' = lock
           \/ pc[s] = "up" /\ s \in conn /\ lock = None /\ lock' = s
    PROVE  /\ Sessions' /\ Locked' /\ pc' \in [Servers -> PC] /\ pc'[s] = to
           /\ \A t \in Servers : Migrates(t)' => t = s
           /\ UNCHANGED <<outages, logged>>
<1> USE ConstantsAssumption DEF ConstantsAssumption
<1>1. Goto(s, to) /\ to \in PC /\ to \notin {"down", "exited", "connect"}
  BY DEF Continue, PC, Migrating
<1>2. UNCHANGED <<conn, pending, outages, logged>> /\ s \in conn
  BY DEF Continue, sessions, environment, Migrates
<1>3. lock' = s
  BY DEF IInv, Locked
<1>4. \A t \in Servers : Migrates(t) => t = s
  BY DEF IInv, Locked
<1>5. \A t \in Servers : Migrates(t)' => t = s
  BY <1>1, <1>2, <1>4, Moved DEF Migrates, IInv
<1>6. Sessions'
  BY <1>1, <1>2, <1>3, Moved DEF IInv, Sessions
<1> QED
  BY <1>1, <1>2, <1>3, <1>5, <1>6, Moved DEF IInv, Locked

LEMMA AcquireStep ==
    ASSUME IInv, NEW s \in Servers, Acquire(s) PROVE IInv'
<1>1. pc[s] = "up" /\ s \in conn /\ UNCHANGED database
  BY DEF Acquire
<1>2. CASE lock = None /\ lock' = s /\ Continue(s, "check")
  <2>1. "check" \in Migrating
    BY DEF Migrating
  <2>2. /\ Sessions' /\ Locked' /\ pc' \in [Servers -> PC] /\ pc'[s] = "check"
        /\ \A t \in Servers : Migrates(t)' => t = s
        /\ UNCHANGED <<outages, logged>>
    BY <1>1, <1>2, <2>1, GoesOn
  <2> QED BY <1>1, <2>2 DEF IInv, Types, InFile, Rows, VersionMatchesSchema, database
<1>3. CASE LockTimesOut(s)
  BY <1>1, <1>3, UpEnds DEF LockTimesOut
<1> QED
  BY <1>2, <1>3 DEF Acquire

LEMMA CheckStep ==
    ASSUME IInv, NEW s \in Servers, Check(s) PROVE IInv'
<1>1. Migrates(s) /\ UNCHANGED database
  BY DEF Check, Migrates, Migrating
<1>5. s \in conn /\ pc[s] \in {"up"} \union Migrating
  BY DEF Check, Migrating
<1>2. CASE dirty /\ UpFails(s)
  BY <1>1, <1>2, <1>5, UpEnds DEF UpFails
<1>3. CASE ~dirty /\ version = Files /\ UpNoChange(s)
  <2>1. \A f \in 1..Files : f < version \/ f = version
    BY <1>3, ConstantsAssumption DEF ConstantsAssumption
  <2>2. runs = [f \in 1..Files |-> 1]
    BY <1>3, <2>1 DEF IInv, Types, Rows, VersionMatchesSchema
  <2> QED BY <1>1, <1>3, <1>5, <2>2, UpEnds DEF UpNoChange
<1>4. CASE ~dirty /\ version < Files /\ Continue(s, "mark") /\ UNCHANGED lock
  <2>1. "mark" \in Migrating
    BY DEF Migrating
  <2>2. /\ Sessions' /\ Locked' /\ pc' \in [Servers -> PC] /\ pc'[s] = "mark"
        /\ \A t \in Servers : Migrates(t)' => t = s
        /\ UNCHANGED <<outages, logged>>
    BY <1>1, <1>4, <2>1, GoesOn
  <2> QED BY <1>1, <1>4, <2>2 DEF IInv, Types, InFile, Rows, VersionMatchesSchema, database
<1> QED
  BY <1>2, <1>3, <1>4 DEF Check

\* What the invariant says of the runs, whatever the flag is.
LEMMA Runs ==
    ASSUME IInv
    PROVE  /\ version \in 0..Files /\ runs \in [1..Files -> Nat]
           /\ \A f \in 1..Files :
                /\ runs[f] <= 1
                /\ f < version => runs[f] = 1
                /\ f > version => runs[f] = 0
<1>1. version \in 0..Files /\ runs \in [1..Files -> Nat]
  BY Zenon DEF IInv, Types
<1>2. \A f \in 1..Files : runs[f] <= 1 /\ (f < version => runs[f] = 1)
                                     /\ (f > version => runs[f] = 0)
  BY Zenon DEF IInv, Rows, VersionMatchesSchema
<1> QED
  BY <1>1, <1>2

\* What the commit of the file under way does to them.
LEMMA Commit ==
    ASSUME IInv, version > 0, runs[version] = 0, Committed
    PROVE  /\ runs' \in [1..Files -> Nat] /\ runs'[version] = 1
           /\ \A f \in 1..Files : f # version => runs'[f] = runs[f]
<1>1. version \in 1..Files
  <2>1. version \in 0..Files /\ version > 0
    BY Runs
  <2> QED BY <2>1, ConstantsAssumption DEF ConstantsAssumption
<1>2. runs \in [1..Files -> Nat] /\ runs' = [runs EXCEPT ![version] = @ + 1]
  BY Runs DEF Committed
<1>3. runs[version] = 0
  OBVIOUS
<1> HIDE DEF IInv
<1> QED
  BY <1>1, <1>2, <1>3

\* A server whose session is alive at a step of a file.
LEMMA InTheFile ==
    ASSUME IInv, NEW s \in conn, pc[s] \in {"run", "clear"}
    PROVE  /\ s \in Servers /\ Migrates(s) /\ dirty /\ version > 0
           /\ pc[s] = "run" => runs[version] = 0
           /\ pc[s] = "clear" => runs[version] = 1
<1>1. s \in Servers /\ Migrates(s)
  BY DEF IInv, Sessions, Migrates, Migrating
<1>2. dirty
  BY <1>1 DEF IInv, InFile
<1>3. version > 0
  BY <1>2, Zenon DEF IInv, Rows
<1>4. pc[s] = "run" => runs[version] = 0
  BY <1>1, Zenon DEF IInv, InFile
<1>5. pc[s] = "clear" => runs[version] = 1
  BY <1>1, Zenon DEF IInv, InFile
<1> QED
  BY <1>1, <1>2, <1>3, <1>4, <1>5

\* A schema that is complete in its parts is that of the version row.
LEMMA SchemaOf ==
    ASSUME version' \in 0..Files,
           \A f \in 1..Files :
             /\ runs'[f] <= 1
             /\ f < version' => runs'[f] = 1
             /\ f > version' => runs'[f] = 0,
           ~dirty' => \A f \in 1..Files : f = version' => runs'[f] = 1,
           \A t \in Servers : logged'[t] = "no change" => \A f \in 1..Files : runs'[f] = 1
    PROVE  VersionMatchesSchema'
  BY Zenon DEF VersionMatchesSchema

LEMMA MarkStep ==
    ASSUME IInv, NEW s \in Servers, Mark(s) PROVE IInv'
<1>1. Migrates(s) /\ pc[s] = "mark"
  BY DEF Mark, Migrates, Migrating
<1>2. ~dirty
  BY <1>1 DEF IInv, InFile
<1>3. version < Files
  BY <1>1, Zenon DEF IInv, InFile
<1>4. version' = version + 1 /\ UNCHANGED runs
  BY DEF Mark
<1>5. dirty'
  BY DEF Mark
<1>6. version \in 0..Files /\ version' \in 1..Files
  <2>1. version \in 0..Files
    BY Runs
  <2> QED BY <1>3, <1>4, <2>1, ConstantsAssumption DEF ConstantsAssumption
<1>7. /\ Sessions' /\ Locked' /\ pc' \in [Servers -> PC] /\ pc'[s] = "run"
      /\ \A t \in Servers : Migrates(t)' => t = s
      /\ UNCHANGED <<outages, logged>>
  <2>1. "run" \in Migrating /\ Continue(s, "run") /\ lock' = lock
    BY DEF Migrating, Mark
  <2> QED BY <1>1, <2>1, GoesOn
<1>8. \A f \in 1..Files : f <= version => runs[f] = 1
  <2>1. \A f \in 1..Files : f = version => runs[f] = 1
    BY <1>2, Zenon DEF IInv, Rows, VersionMatchesSchema
  <2>2. \A f \in 1..Files : f < version => runs[f] = 1
    BY Runs
  <2> QED BY <1>6, <2>1, <2>2, ConstantsAssumption DEF ConstantsAssumption
<1>9. \A f \in 1..Files :
        /\ runs'[f] <= 1
        /\ f < version' => runs'[f] = 1
        /\ f > version' => runs'[f] = 0
  <2>1. \A f \in 1..Files : runs[f] <= 1 /\ (f > version => runs[f] = 0)
    BY Runs
  <2> QED BY <1>4, <1>6, <1>8, <2>1, ConstantsAssumption DEF ConstantsAssumption
<1>10. runs'[version'] = 0
  <2>1. \A f \in 1..Files : f > version => runs[f] = 0
    BY Runs
  <2> QED BY <1>4, <1>6, <2>1, ConstantsAssumption DEF ConstantsAssumption
<1>11. VersionMatchesSchema'
  <2>1. \A t \in Servers : logged'[t] = "no change" => \A f \in 1..Files : runs'[f] = 1
    BY <1>4, <1>7, Zenon DEF IInv, Rows, VersionMatchesSchema
  <2>2. version' \in 0..Files
    BY <1>6, ConstantsAssumption DEF ConstantsAssumption
  <2> QED BY <1>5, <1>9, <2>1, <2>2, SchemaOf
<1>12. Types'
  <2>1. version' \in 0..Files
    BY <1>6, ConstantsAssumption DEF ConstantsAssumption
  <2>2. dirty' \in BOOLEAN
    BY DEF Mark
  <2> QED BY <1>4, <1>7, <2>1, <2>2, Zenon DEF IInv, Types
<1>13. InFile'
  BY <1>5, <1>7, <1>10 DEF InFile
<1>14. Rows'
  <2>1. version' > 0
    BY <1>6, ConstantsAssumption DEF ConstantsAssumption
  <2> QED BY <1>11, <2>1, Zenon DEF Rows
<1> QED
  BY <1>7, <1>12, <1>13, <1>14 DEF IInv

\* The session ends its migration with a line in the log, having changed the tables.
LEMMA Leaves ==
    ASSUME IInv, NEW s \in Servers, Migrates(s), Report(s, "applied"), UNCHANGED pending
    PROVE  /\ Sessions' /\ Locked' /\ InFile' /\ pc' \in [Servers -> PC]
           /\ logged' \in [Servers -> {"nothing", "applied", "no change"}]
           /\ \A t \in Servers : logged'[t] = "no change" => logged[t] = "no change"
           /\ UNCHANGED outages
<1>1. Goto(s, "serving") /\ "serving" \in PC /\ "serving" \notin Migrating
  BY DEF Report, PC, Migrating
<1>2. UNCHANGED <<conn, pending, outages>> /\ logged' = [logged EXCEPT ![s] = "applied"]
  BY DEF Report, environment
<1>3. lock' = None /\ \A t \in Servers : ~Migrates(t)'
  BY <1>1, <1>2, Moved DEF Report, Released, IInv, Locked, Migrates
<1>4. Sessions' /\ Locked' /\ InFile'
  BY <1>1, <1>2, <1>3, Moved DEF IInv, Sessions, Locked, InFile
<1>5. pc' \in [Servers -> PC]
  BY <1>1, Moved DEF IInv
<1>6. logged \in [Servers -> {"nothing", "applied", "no change"}]
  BY Zenon DEF IInv, Types
<1> QED
  BY <1>2, <1>4, <1>5, <1>6

LEMMA RunStep ==
    ASSUME IInv, NEW s \in Servers, Run(s) PROVE IInv'
<1>1. s \in conn /\ pc[s] = "run"
  BY DEF Run
<1>2. Migrates(s) /\ dirty /\ version > 0 /\ runs[version] = 0
  BY <1>1, InTheFile, Zenon
<1>3. UNCHANGED <<version, dirty>>
  BY DEF Run
<1>4. ASSUME Committed, NEW t \in Servers PROVE logged[t] # "no change"
  <2>1. version \in 1..Files
    <3>1. version \in 0..Files /\ version > 0
      BY <1>2, Runs, Zenon
    <3> QED BY <3>1, ConstantsAssumption DEF ConstantsAssumption
  <2>2. runs[version] # 1
    <3>1. runs[version] = 0
      BY <1>2, Zenon
    <3> QED BY <3>1
  <2> QED BY <2>1, <2>2, Zenon DEF IInv, Rows, VersionMatchesSchema
<1>5. ASSUME Committed PROVE runs' \in [1..Files -> Nat] /\ runs'[version'] = 1
  BY <1>2, <1>3, <1>5, Commit, Zenon
<1>6. ASSUME Committed, \A t \in Servers : logged'[t] = "no change" => logged[t] = "no change"
      PROVE  Rows'
  <2>1. \A f \in 1..Files :
          /\ runs'[f] <= 1
          /\ f < version' => runs'[f] = 1
          /\ f > version' => runs'[f] = 0
    <3>1. \A f \in 1..Files : f # version => runs'[f] = runs[f]
      BY <1>2, <1>6, Commit, Zenon
    <3>2. version' = version /\ runs'[version] = 1
      BY <1>2, <1>3, <1>6, Commit, Zenon
    <3> QED BY <3>1, <3>2, Runs, ConstantsAssumption DEF ConstantsAssumption
  <2>2. \A t \in Servers : logged'[t] = "no change" => \A f \in 1..Files : runs'[f] = 1
    BY <1>4, <1>6
  <2>3. version' \in 0..Files /\ version' > 0
    BY <1>2, <1>3, Runs, Zenon
  <2>4. dirty'
    BY <1>2, <1>3, Zenon
  <2>5. VersionMatchesSchema'
    BY <2>1, <2>2, <2>3, <2>4, SchemaOf
  <2> QED BY <2>3, <2>5, Zenon DEF Rows
<1>7. ASSUME Committed, pc' \in [Servers -> PC], UNCHANGED outages,
             logged' \in [Servers -> {"nothing", "applied", "no change"}]
      PROVE  Types'
  BY <1>3, <1>5, <1>7, Zenon DEF IInv, Types
<1>8. CASE Committed /\ Continue(s, "clear") /\ UNCHANGED lock
  <2>1. "clear" \in Migrating
    BY DEF Migrating
  <2>2. /\ Sessions' /\ Locked' /\ pc' \in [Servers -> PC] /\ pc'[s] = "clear"
        /\ \A t \in Servers : Migrates(t)' => t = s
        /\ UNCHANGED <<outages, logged>>
    BY <1>2, <1>8, <2>1, GoesOn
  <2>3. Types'
    BY <1>7, <1>8, <2>2, Zenon DEF IInv, Types
  <2>4. InFile'
    BY <1>2, <1>3, <1>5, <1>8, <2>2 DEF InFile
  <2> QED BY <1>6, <1>8, <2>2, <2>3, <2>4 DEF IInv
<1>9. CASE UNCHANGED runs /\ UpFails(s)
  <2>1. UNCHANGED database /\ pc[s] \in {"up"} \union Migrating
    BY <1>1, <1>3, <1>9 DEF database, Migrating
  <2> QED BY <1>1, <1>9, <2>1, UpEnds DEF UpFails
<1>10. CASE Committed /\ UpFails(s)
  BY <1>2, <1>6, <1>7, <1>10, Leaves DEF UpFails, IInv
<1> QED
  BY <1>8, <1>9, <1>10 DEF Run

LEMMA ClearStep ==
    ASSUME IInv, NEW s \in Servers, Clear(s) PROVE IInv'
<1>1. s \in conn /\ pc[s] = "clear"
  BY DEF Clear
<1>2. Migrates(s) /\ version > 0 /\ runs[version] = 1
  BY <1>1, InTheFile, Zenon
<1>3. UNCHANGED <<version, runs>>
  BY DEF Clear
<1>4. dirty' = FALSE
  BY DEF Clear
<1>5. ASSUME \A t \in Servers : logged'[t] = "no change" => logged[t] = "no change"
      PROVE  Rows'
  <2>1. \A f \in 1..Files :
          /\ runs'[f] <= 1
          /\ f < version' => runs'[f] = 1
          /\ f > version' => runs'[f] = 0
    BY <1>3, Runs
  <2>2. \A t \in Servers : logged'[t] = "no change" => \A f \in 1..Files : runs'[f] = 1
    BY <1>3, <1>5, Zenon DEF IInv, Rows, VersionMatchesSchema
  <2>3. \A f \in 1..Files : f = version' => runs'[f] = 1
    BY <1>2, <1>3
  <2>4. version' \in 0..Files
    BY <1>3, Runs
  <2>5. VersionMatchesSchema'
    BY <2>1, <2>2, <2>3, <2>4, SchemaOf
  <2> QED BY <1>4, <2>5, Zenon DEF Rows
<1>6. ASSUME pc' \in [Servers -> PC], UNCHANGED outages,
             logged' \in [Servers -> {"nothing", "applied", "no change"}]
      PROVE  Types'
  <2>1. dirty' \in BOOLEAN
    BY <1>4
  <2> QED BY <1>3, <1>6, <2>1, Zenon DEF IInv, Types
<1>7. CASE version = Files /\ UpSucceeds(s)
  BY <1>2, <1>5, <1>6, <1>7, Leaves DEF UpSucceeds, IInv
<1>8. CASE version # Files /\ Continue(s, "mark") /\ UNCHANGED lock
  <2>1. "mark" \in Migrating
    BY DEF Migrating
  <2>2. /\ Sessions' /\ Locked' /\ pc' \in [Servers -> PC] /\ pc'[s] = "mark"
        /\ \A t \in Servers : Migrates(t)' => t = s
        /\ UNCHANGED <<outages, logged>>
    BY <1>2, <1>8, <2>1, GoesOn
  <2>3. version' < Files
    BY <1>3, <1>8, Runs, ConstantsAssumption DEF ConstantsAssumption
  <2>4. logged' \in [Servers -> {"nothing", "applied", "no change"}]
    BY <2>2, Zenon DEF IInv, Types
  <2>5. InFile'
    BY <1>4, <2>2, <2>3, Zenon DEF InFile
  <2> QED BY <1>5, <1>6, <2>2, <2>4, <2>5 DEF IInv
<1> QED
  BY <1>7, <1>8 DEF Clear

LEMMA NextIInv == IInv /\ [Next]_vars => IInv'
<1> SUFFICES ASSUME IInv, [Next]_vars PROVE IInv'
  OBVIOUS
<1>1. ASSUME NEW s \in Servers, Acquire(s) \/ Check(s) \/ Mark(s) \/ Run(s) \/ Clear(s)
      PROVE  IInv'
  BY <1>1, AcquireStep, CheckStep, MarkStep, RunStep, ClearStep
<1> QED
  BY <1>1, Outside DEF Next, StartStep

LEMMA Invariant == SafeSpec => []IInv
  BY InitIInv, NextIInv, PTL DEF SafeSpec

-------------------------------------------------------------------------------
(* Theorems. *)

\* Every variable keeps its type, in every order of starts, crashes and outages.
THEOREM TypeCorrect == SafeSpec => []TypeOK
<1>1. IInv => TypeOK
  BY DEF IInv, Types, Sessions, TypeOK
<1> QED
  BY <1>1, Invariant, PTL

\* Any number of servers may be started, killed and cut off from the database at any
\* point of any number of files: none is applied twice or skipped, a clean version row
\* says which were, and "No change detected" means all of them.
THEOREM NoFileTwice == SafeSpec => []VersionMatchesSchema
<1>1. IInv => VersionMatchesSchema
  BY DEF IInv, Rows
<1> QED
  BY <1>1, Invariant, PTL

\* A step outside Mark, Run and Clear brings nobody into a file: it moves at most one
\* server, and that one to another place.
LEMMA NobodyEnters ==
    ASSUME IInv, [Next]_vars, \A s \in Servers : ~Mark(s) /\ ~Run(s) /\ ~Clear(s),
           NEW t \in conn', pc'[t] \in {"run", "clear"}
    PROVE  t \in conn /\ pc[t] = pc'[t]
<1>0. conn \subseteq Servers /\ IInv'
  BY NextIInv DEF IInv, Sessions
<1>1. t \in Servers
  BY <1>0 DEF IInv, Sessions
<1>2. CASE UNCHANGED vars \/ DbStarts \/ DbStops
  BY <1>2 DEF vars, sessions, DbStarts, DbStops
<1>3. ASSUME NEW s \in Servers, NEW to \in PC \ {"run", "clear"}, Goto(s, to),
             \A u \in Servers : u # s => (u \in conn' => u \in conn)
      PROVE  t \in conn /\ pc[t] = pc'[t]
  BY <1>1, <1>3, Moved DEF IInv
<1>4. ASSUME NEW s \in Servers, Launch(s) \/ Crash(s) \/ Connect(s) \/ Prepare(s)
      PROVE  t \in conn /\ pc[t] = pc'[t]
  <2>1. \E to \in {"connect", "down", "prepare", "up", "exited"} : Goto(s, to)
    BY <1>4 DEF Launch, Crash, Connect, Prepare, Exit
  <2>2. \A u \in Servers : u # s => (u \in conn' => u \in conn)
    BY <1>4 DEF Launch, Crash, Connect, Prepare, Exit, sessions
  <2> QED BY <1>3, <2>1, <2>2 DEF PC
<1>5. ASSUME NEW s \in Servers, LateLock(s) PROVE t \in conn /\ pc[t] = pc'[t]
  BY <1>5 DEF LateLock
<1>6. ASSUME NEW s \in Servers, Acquire(s) \/ Check(s) \/ SessionLost(s)
      PROVE  t \in conn /\ pc[t] = pc'[t]
  <2>1. \E to \in {"check", "mark", "serving"} : Goto(s, to)
    BY <1>6 DEF Acquire, Check, SessionLost, LockTimesOut, UpFails, UpNoChange, Report, Continue
  <2>2. UNCHANGED conn
    BY <1>6 DEF Acquire, Check, SessionLost, LockTimesOut, UpFails, UpNoChange, Report, Continue,
       sessions
  <2> QED BY <1>3, <2>1, <2>2 DEF PC, Migrating
<1> QED
  BY <1>2, <1>4, <1>5, <1>6 DEF Next, StartStep

\* A file begun by a server that lost its session or ended stays as it is, whichever
\* servers start later and whoever holds the lock: a later start reads the flag before
\* it may come to mark, run or clear anything.
THEOREM DirtyStays == SafeSpec => DirtyIsForever
<1>1. IInv /\ [Next]_vars => [Stuck => Stuck' /\ UNCHANGED database]_vars
  <2> SUFFICES ASSUME IInv, [Next]_vars, Stuck PROVE Stuck' /\ UNCHANGED database
    OBVIOUS
  <2>1. \A s \in Servers : ~Mark(s) /\ ~Run(s) /\ ~Clear(s)
    BY DEF Stuck, Mark, Run, Clear, IInv, InFile, Migrates, Migrating
  <2>2. UNCHANGED database
    BY <2>1 DEF Next, StartStep, vars, database, DbStarts, DbStops, Launch, Crash, Connect,
       Prepare, LateLock, Acquire, Check, SessionLost
  <2>3. dirty'
    BY <2>2 DEF Stuck, database
  <2>4. \A t \in conn' : pc'[t] \notin {"run", "clear"}
    BY <2>1, NobodyEnters DEF Stuck
  <2> QED BY <2>2, <2>3, <2>4 DEF Stuck
<1> QED
  BY <1>1, Invariant, PTL DEF SafeSpec, DirtyIsForever
===============================================================================
