----------------------------- MODULE ServicesProofs ----------------------------
(***************************************************************************)
(* The gateway manager, the worker process, the file locks and the PID     *)
(* file of the supervisor, for any number of requests, jobs, callers and   *)
(* processes.                                                              *)
(***************************************************************************)
EXTENDS Gateway, WorkerProcess, FileLocks, Supervisor, FiniteSetTheorems, TLAPS

-----------------------------------------------------------------------------
(* The gateway: while requests do not cross, at most one task is under way *)
(* and the only subprocess that may run, or be read, is self.proc.         *)

Pcs == {"idle", "spawn", "wait", "stopped"}

GatewayTypeOK ==
    /\ proc \in Nat /\ spawned \in Nat /\ proc <= spawned
    /\ running \subseteq 1..spawned /\ draining \subseteq 1..spawned
    /\ task \in [Task -> [pc : Pcs, proc : Nat, restart : BOOLEAN]]

\* One request at a time.
OneTask == \A t, u \in Task : task[t].pc # "idle" /\ task[u].pc # "idle" => t = u

\* What a request that is under way knows of the subprocess.
TaskKnows ==
    \A t \in Task :
        /\ task[t].pc = "wait" => task[t].proc = proc
        /\ task[t].pc \in {"spawn", "stopped"} => ~Alive
        /\ task[t].pc # "idle" => state # "running"

\* A subprocess that runs is read, and one that is read is self.proc.
OneProc == running \subseteq draining /\ draining \subseteq {proc}

\* The state says "running" from the start of the subprocess to the end of its output.
StateKnows ==
    /\ state = "running" => proc \in draining
    /\ Alive /\ (\A t \in Task : task[t].pc # "wait") => state = "running"

GatewayInv ==
    /\ GatewayTypeOK
    /\ ~crossed => OneTask /\ TaskKnows /\ OneProc /\ StateKnows

LEMMA NoTaskType == NoTask \in [pc : Pcs, proc : Nat, restart : BOOLEAN]
  <1>1. FALSE \in BOOLEAN  OBVIOUS
  <1> QED  BY <1>1 DEF NoTask, Pcs

\* Every step keeps the types.
LEMMA GatewayTypeKept == GatewayTypeOK /\ [GatewayNext]_gatewayVars => GatewayTypeOK'
  <1> SUFFICES ASSUME GatewayTypeOK, [GatewayNext]_gatewayVars
               PROVE  GatewayTypeOK'
    OBVIOUS
  <1> USE NoTaskType DEF GatewayTypeOK, Pcs
  <1>1. CASE UNCHANGED gatewayVars
    BY <1>1 DEF gatewayVars
  <1>2. ASSUME NEW t \in Task, start(t)
        PROVE  GatewayTypeOK'
    BY <1>2 DEF start, BeginStart
  <1>3. ASSUME NEW t \in Task, Spawned(t)
        PROVE  GatewayTypeOK'
    BY <1>3 DEF Spawned
  <1>4. ASSUME NEW t \in Task, SpawnFails(t) \/ Waited(t)
        PROVE  GatewayTypeOK'
    BY <1>4 DEF SpawnFails, Waited
  <1>5. ASSUME NEW t \in Task, NEW again \in BOOLEAN, stop(t, again)
        PROVE  GatewayTypeOK'
    BY <1>5 DEF stop
  <1>6. ASSUME NEW t \in Task, Killed(t)
        PROVE  GatewayTypeOK'
    BY <1>6 DEF Killed
  <1>7. ASSUME NEW t \in Task, Stopped(t)
        PROVE  GatewayTypeOK'
    BY <1>7 DEF Stopped, BeginStart
  <1>8. ASSUME NEW p \in running, ProcEnds(p)
        PROVE  GatewayTypeOK'
    BY <1>8 DEF ProcEnds
  <1>9. ASSUME NEW p \in draining, Drained(p)
        PROVE  GatewayTypeOK'
    BY <1>9 DEF Drained
  <1> QED
    BY <1>1, <1>2, <1>3, <1>4, <1>5, <1>6, <1>7, <1>8, <1>9 DEF GatewayNext

LEMMA GatewayKept == GatewayInv /\ [GatewayNext]_gatewayVars => GatewayInv'
  <1> SUFFICES ASSUME GatewayInv, [GatewayNext]_gatewayVars, ~crossed'
               PROVE  (OneTask /\ TaskKnows /\ OneProc /\ StateKnows)'
    BY GatewayTypeKept DEF GatewayInv
  <1>0. ~crossed
    BY DEF GatewayNext, gatewayVars, start, Spawned, SpawnFails, stop, Waited, Killed,
           Stopped, ProcEnds, Drained
  <1>i. GatewayTypeOK /\ OneTask /\ TaskKnows /\ OneProc /\ StateKnows
    BY <1>0 DEF GatewayInv
  <1> USE <1>i DEF GatewayTypeOK, OneTask, TaskKnows, OneProc, StateKnows, Alive
  <1>1. CASE UNCHANGED gatewayVars
    BY <1>1 DEF gatewayVars
  <1>2. ASSUME NEW t \in Task, start(t)
        PROVE  (OneTask /\ TaskKnows /\ OneProc /\ StateKnows)'
    <2>1. \A u \in Task : task[u].pc = "idle"
      BY <1>2 DEF start, AtRest
    <2>2. CASE Alive
      <3>1. state' = state /\ \A u \in Task : task'[u].pc = "idle"
        BY <1>2, <2>1, <2>2 DEF start, BeginStart, NoTask
      <3> QED  BY <1>2, <2>1, <3>1 DEF start
    <2>3. CASE ~Alive
      <3>1. /\ state' = "starting"
            /\ task' = [task EXCEPT ![t] = [NoTask EXCEPT !.pc = "spawn"]]
        BY <1>2, <2>3 DEF start, BeginStart
      <3>2. /\ task'[t].pc = "spawn"
            /\ \A u \in Task \ {t} : task'[u].pc = "idle"
        BY <3>1, <2>1 DEF NoTask
      <3> QED  BY <1>2, <2>3, <3>1, <3>2 DEF start
    <2> QED  BY <2>2, <2>3
  <1>3. ASSUME NEW t \in Task, Spawned(t)
        PROVE  (OneTask /\ TaskKnows /\ OneProc /\ StateKnows)'
    <2>1. draining = {} /\ running = {}
      BY <1>3 DEF Spawned
    <2> QED  BY <1>3, <2>1 DEF Spawned, NoTask, Pcs
  <1>4. ASSUME NEW t \in Task, SpawnFails(t)
        PROVE  (OneTask /\ TaskKnows /\ OneProc /\ StateKnows)'
    BY <1>4 DEF SpawnFails, NoTask, Pcs
  <1>5. ASSUME NEW t \in Task, NEW again \in BOOLEAN, stop(t, again)
        PROVE  (OneTask /\ TaskKnows /\ OneProc /\ StateKnows)'
    BY <1>5 DEF stop, AtRest, Pcs
  <1>6. ASSUME NEW t \in Task, Waited(t)
        PROVE  (OneTask /\ TaskKnows /\ OneProc /\ StateKnows)'
    BY <1>6 DEF Waited, Pcs
  <1>7. ASSUME NEW t \in Task, Killed(t)
        PROVE  (OneTask /\ TaskKnows /\ OneProc /\ StateKnows)'
    BY <1>7 DEF Killed, Pcs
  <1>8. ASSUME NEW t \in Task, Stopped(t)
        PROVE  (OneTask /\ TaskKnows /\ OneProc /\ StateKnows)'
    BY <1>8 DEF Stopped, BeginStart, NoTask, Pcs
  <1>9. ASSUME NEW p \in running, ProcEnds(p)
        PROVE  (OneTask /\ TaskKnows /\ OneProc /\ StateKnows)'
    BY <1>9 DEF ProcEnds
  <1>10. ASSUME NEW p \in draining, Drained(p)
         PROVE  (OneTask /\ TaskKnows /\ OneProc /\ StateKnows)'
    BY <1>10 DEF Drained
  <1> QED
    BY <1>1, <1>2, <1>3, <1>4, <1>5, <1>6, <1>7, <1>8, <1>9, <1>10 DEF GatewayNext

\* For any number of requests and of subprocesses: while requests do not cross
\* and no reader is late, the manager knows the subprocess that runs, and the
\* page says "running" just when one does.
THEOREM GatewayAgreesHolds == GatewaySpec => []GatewayAgrees
  <1>1. GatewayInit => GatewayInv
    BY DEF GatewayInit, GatewayInv, GatewayTypeOK, NoTask, Pcs, OneTask, TaskKnows,
           OneProc, StateKnows, Alive
  <1>2. GatewayInv => GatewayAgrees
    BY DEF GatewayInv, GatewayTypeOK, GatewayAgrees, OneProc, StateKnows, Alive, AtRest
  <1> QED  BY <1>1, <1>2, GatewayKept, PTL DEF GatewaySpec
-----------------------------------------------------------------------------
(* The worker: the map counts every handler in force, and what is counted  *)
(* is awaited.                                                             *)

Loops == {"top", "asked", "asked_last", "over", "drain", "drained", "late"}
Mapped == {j \in WorkerJob : inFlight[j] # 0}

WorkerTypeOK ==
    /\ loop \in Loops /\ claims \in Nat
    /\ inFlight \in [WorkerJob -> 0..claims] /\ holder \in [WorkerJob -> 0..claims]
    /\ handler \subseteq [job : WorkerJob, claim : 1..claims, given_up : BOOLEAN]

\* A job has one handler, and the map has its claim until it is given up.
OneHandler == \A h, g \in handler : h.job = g.job => h = g
Counted == \A h \in handler : ~h.given_up => inFlight[h.job] = h.claim

\* A claim is asked for only when there is room for it.
Room == Size <= concurrency /\ (loop \in {"asked", "asked_last"} => Size < concurrency)

\* A shutdown waits for the handlers it finds in the map, and no other comes.
Awaited ==
    /\ loop \in {"drain", "drained", "late"} => \A h \in handler : ~h.given_up => h.claim \in awaited
    /\ loop = "drained" => \A h \in handler : h.given_up

WorkerInv ==
    /\ WorkerTypeOK /\ Room
    /\ ~shadow => OneHandler /\ Counted /\ Awaited

LEMMA WorkerTypeKept == WorkerTypeOK /\ [WorkerNext]_workerVars => WorkerTypeOK'
  <1> SUFFICES ASSUME WorkerTypeOK, [WorkerNext]_workerVars
               PROVE  WorkerTypeOK'
    OBVIOUS
  <1> USE DEF WorkerTypeOK, Loops
  <1>1. CASE UNCHANGED workerVars
    BY <1>1 DEF workerVars
  <1>2. CASE Ask \/ NoJobs \/ Stop \/ Drain \/ \E inTime \in BOOLEAN : DrainEnds(inTime)
    BY <1>2 DEF Ask, NoJobs, Stop, Drain, DrainEnds, After
  <1>3. ASSUME NEW j \in WorkerJob, launchJob(j, After)
        PROVE  WorkerTypeOK'
    <2>1. claims' = claims + 1 /\ loop' \in Loops
      BY <1>3 DEF launchJob, After
    <2>2. /\ inFlight' \in [WorkerJob -> 0..claims'] /\ holder' \in [WorkerJob -> 0..claims']
      BY <1>3, <2>1 DEF launchJob
    <2>3. FALSE \in BOOLEAN
      OBVIOUS
    <2>4. [job |-> j, claim |-> claims', given_up |-> FALSE]
             \in [job : WorkerJob, claim : 1..claims', given_up : BOOLEAN]
      BY <2>1, <2>3
    <2>5. handler \subseteq [job : WorkerJob, claim : 1..claims', given_up : BOOLEAN]
      BY <2>1
    <2>6. handler' \subseteq [job : WorkerJob, claim : 1..claims', given_up : BOOLEAN]
      BY <1>3, <2>4, <2>5 DEF launchJob
    <2> QED  BY <2>1, <2>2, <2>6
  <1>4. ASSUME NEW h \in handler, Settle(h)
        PROVE  WorkerTypeOK'
    BY <1>4 DEF Settle
  <1>5. ASSUME NEW h \in handler, Evict(h)
        PROVE  WorkerTypeOK'
    <2>1. TRUE \in BOOLEAN
      OBVIOUS
    <2>2. [h EXCEPT !.given_up = TRUE] \in [job : WorkerJob, claim : 1..claims, given_up : BOOLEAN]
      BY <2>1
    <2>3. UNCHANGED <<loop, claims, holder>> /\ inFlight' \in [WorkerJob -> 0..claims]
      BY <1>5 DEF Evict
    <2>4. handler' \subseteq [job : WorkerJob, claim : 1..claims, given_up : BOOLEAN]
      BY <1>5, <2>2 DEF Evict
    <2> QED  BY <2>3, <2>4
  <1>6. ASSUME NEW j \in WorkerJob, LosesLock(j)
        PROVE  WorkerTypeOK'
    BY <1>6 DEF LosesLock
  <1> QED
    BY <1>1, <1>2, <1>3, <1>4, <1>5, <1>6 DEF WorkerNext, Launch

\* The map grows by at most one entry, and only by a claim.
LEMMA SizeFalls ==
    ASSUME WorkerTypeOK, Mapped' \subseteq Mapped
    PROVE  Size' <= Size /\ Size \in Nat /\ Size' \in Nat
  <1>1. IsFiniteSet(Mapped)
    BY WorkerAssumption, FS_Subset DEF Mapped
  <1>2. /\ IsFiniteSet(Mapped') /\ Cardinality(Mapped') <= Cardinality(Mapped)
    BY <1>1, FS_Subset
  <1> QED  BY <1>1, <1>2, FS_CardinalityType DEF Mapped, Size

LEMMA SizeRises ==
    ASSUME WorkerTypeOK, NEW j, Mapped' \subseteq Mapped \union {j}
    PROVE  Size' <= Size + 1 /\ Size \in Nat /\ Size' \in Nat
  <1>1. IsFiniteSet(Mapped)
    BY WorkerAssumption, FS_Subset DEF Mapped
  <1>2. /\ IsFiniteSet(Mapped \union {j})
        /\ Cardinality(Mapped \union {j}) <= Cardinality(Mapped) + 1
        /\ Cardinality(Mapped) \in Nat
    BY <1>1, FS_AddElement, FS_CardinalityType
  <1>3. IsFiniteSet(Mapped') /\ Cardinality(Mapped') <= Cardinality(Mapped \union {j})
    BY <1>2, FS_Subset
  <1>4. Cardinality(Mapped') \in Nat /\ Cardinality(Mapped \union {j}) \in Nat
    BY <1>2, <1>3, FS_CardinalityType
  <1> QED  BY <1>2, <1>3, <1>4 DEF Mapped, Size

LEMMA RoomKept == WorkerTypeOK /\ Room /\ [WorkerNext]_workerVars => Room'
  <1> SUFFICES ASSUME WorkerTypeOK, Room, [WorkerNext]_workerVars
               PROVE  Room'
    OBVIOUS
  <1> USE WorkerAssumption DEF Room
  <1>1. CASE UNCHANGED workerVars
    BY <1>1 DEF workerVars, Size
  <1>2. CASE Ask
    BY <1>2 DEF Ask, Free, Size
  <1>3. CASE NoJobs \/ Stop \/ Drain \/ \E inTime \in BOOLEAN : DrainEnds(inTime)
    <2>1. Size' = Size
      BY <1>3 DEF NoJobs, Stop, Drain, DrainEnds, Size
    <2> QED  BY <1>3, <2>1 DEF NoJobs, Stop, Drain, DrainEnds, After
  <1>4. ASSUME NEW j \in WorkerJob, launchJob(j, After)
        PROVE  Room'
    <2>1. Mapped' \subseteq Mapped \union {j}
      BY <1>4 DEF launchJob, Mapped, WorkerTypeOK
    <2>2. Size < concurrency /\ loop' \notin {"asked", "asked_last"}
      BY <1>4 DEF launchJob, After
    <2> QED  BY <2>1, <2>2, SizeRises
  <1>5. ASSUME NEW h \in handler, Settle(h) \/ Evict(h)
        PROVE  Room'
    <2>1. Mapped' \subseteq Mapped /\ loop' = loop
      BY <1>5 DEF Settle, Evict, Mapped, WorkerTypeOK
    <2> QED  BY <2>1, SizeFalls
  <1>6. ASSUME NEW j \in WorkerJob, LosesLock(j)
        PROVE  Room'
    BY <1>6 DEF LosesLock, Size
  <1> QED
    BY <1>1, <1>2, <1>3, <1>4, <1>5, <1>6 DEF WorkerNext, Launch

LEMMA HandlersKept ==
    WorkerInv /\ [WorkerNext]_workerVars /\ ~shadow' => (OneHandler /\ Counted /\ Awaited)'
  <1> SUFFICES ASSUME WorkerInv, [WorkerNext]_workerVars, ~shadow'
               PROVE  (OneHandler /\ Counted /\ Awaited)'
    OBVIOUS
  <1>0. ~shadow
    BY DEF WorkerNext, workerVars, Ask, Launch, launchJob, NoJobs, Stop, Drain, DrainEnds,
           Settle, Evict, LosesLock
  <1>i. WorkerTypeOK /\ OneHandler /\ Counted /\ Awaited
    BY <1>0 DEF WorkerInv
  <1> USE <1>i DEF OneHandler, Counted, Awaited
  <1>1. CASE UNCHANGED workerVars
    BY <1>1 DEF workerVars
  <1>2. CASE Ask \/ NoJobs \/ Stop
    BY <1>2 DEF Ask, NoJobs, Stop, After
  <1>3. CASE Drain
    <2>1. \A h \in handler : h.claim # 0 /\ h.job \in WorkerJob
      BY DEF WorkerTypeOK
    <2> QED  BY <1>3, <2>1 DEF Drain
  <1>4. ASSUME NEW inTime \in BOOLEAN, DrainEnds(inTime)
        PROVE  (OneHandler /\ Counted /\ Awaited)'
    <2>1. \A h \in handler : h.claim \in Unsettled
      BY DEF Unsettled
    <2>2. loop' = "drained" => \A h \in handler : h.given_up
      BY <1>4, <2>1 DEF DrainEnds
    <2> QED  BY <1>4, <2>2 DEF DrainEnds
  <1>5. ASSUME NEW j \in WorkerJob, launchJob(j, After)
        PROVE  (OneHandler /\ Counted /\ Awaited)'
    <2>1. \A h \in handler : h.job # j
      BY <1>5 DEF launchJob
    <2>2. loop' \in {"top", "over"}
      BY <1>5 DEF launchJob, After
    <2> DEFINE new == [job |-> j, claim |-> claims', given_up |-> FALSE]
    <2>3. new.job = j /\ new.claim = claims' /\ ~new.given_up
      OBVIOUS
    <2>4. handler' = handler \union {new}
      BY <1>5 DEF launchJob
    <2>5. inFlight' = [inFlight EXCEPT ![j] = claims'] /\ inFlight \in [WorkerJob -> 0..claims]
      BY <1>5 DEF launchJob, WorkerTypeOK
    <2>6. \A h \in handler : h.job \in WorkerJob
      BY DEF WorkerTypeOK
    <2> HIDE DEF new
    <2>7. OneHandler'
      BY <2>1, <2>3, <2>4
    <2>8. Counted'
      BY <2>1, <2>3, <2>4, <2>5, <2>6
    <2> QED  BY <2>2, <2>7, <2>8
  <1>6. ASSUME NEW h \in handler, Settle(h)
        PROVE  (OneHandler /\ Counted /\ Awaited)'
    <2>1. \A g \in handler' : g \in handler /\ g.job # h.job
      BY <1>6 DEF Settle
    <2> QED  BY <1>6, <2>1 DEF Settle, WorkerTypeOK
  <1>7. ASSUME NEW h \in handler, Evict(h)
        PROVE  (OneHandler /\ Counted /\ Awaited)'
    <2>0. handler' = (handler \ {h}) \union {[h EXCEPT !.given_up = TRUE]}
      BY <1>7 DEF Evict
    <2>1. [h EXCEPT !.given_up = TRUE].job = h.job /\ [h EXCEPT !.given_up = TRUE].given_up
      BY DEF WorkerTypeOK
    <2>2. \A g \in handler \ {h} : g.job # h.job
      OBVIOUS
    <2> QED  BY <1>7, <2>0, <2>1, <2>2 DEF Evict, WorkerTypeOK
  <1>8. ASSUME NEW j \in WorkerJob, LosesLock(j)
        PROVE  (OneHandler /\ Counted /\ Awaited)'
    BY <1>8 DEF LosesLock
  <1> QED
    BY <1>1, <1>2, <1>3, <1>4, <1>5, <1>6, <1>7, <1>8 DEF WorkerNext, Launch

\* The handlers in force are no more than the entries of the map.
LEMMA InForceMapped ==
    ASSUME WorkerTypeOK, OneHandler, Counted,
           NEW H \in SUBSET handler, \A h \in H : ~h.given_up
    PROVE  /\ Cardinality(H) <= Size
           /\ Cardinality(H) \in Nat /\ Size \in Nat
  <1> DEFINE f == [h \in H |-> h.job]
  <1>1. f \in [H -> Mapped]
    BY DEF WorkerTypeOK, Counted, Mapped
  <1>2. \A h, g \in H : f[h] = f[g] => h = g
    BY DEF OneHandler
  <1>3. f \in Injection(H, Mapped)
    BY <1>1, <1>2 DEF Injection, IsInjective
  <1>4. IsFiniteSet(Mapped)
    BY WorkerAssumption, FS_Subset DEF Mapped
  <1> HIDE DEF f
  <1>5. IsFiniteSet(H) /\ Cardinality(H) <= Cardinality(Mapped)
    BY <1>3, <1>4, FS_Injection
  <1> QED  BY <1>4, <1>5, FS_CardinalityType DEF Mapped, Size

\* For any set of jobs, any concurrency and any number of claims: the handlers
\* in force never exceed the concurrency, and none is left by a drain that says
\* it is complete, as long as no job was claimed again over a running handler.
THEOREM SlotsHonouredHolds == WorkerSpec => []SlotsHonoured
  <1>1. WorkerInit => WorkerInv
    <2> SUFFICES ASSUME WorkerInit PROVE WorkerInv  OBVIOUS
    <2>1. Mapped = {}
      BY DEF WorkerInit, Mapped
    <2>2. Size = 0
      BY <2>1, FS_EmptySet DEF Mapped, Size
    <2> QED
      BY <2>2, WorkerAssumption
         DEF WorkerInit, WorkerInv, WorkerTypeOK, Loops, Room, OneHandler, Counted, Awaited
  <1>2. WorkerInv /\ [WorkerNext]_workerVars => WorkerInv'
    BY WorkerTypeKept, RoomKept, HandlersKept DEF WorkerInv
  <1>3. WorkerInv => SlotsHonoured
    <2> SUFFICES ASSUME WorkerInv, ~shadow PROVE SlotsHonoured
      BY DEF SlotsHonoured
    <2> DEFINE inForce == {h \in handler : holder[h.job] = h.claim /\ ~h.given_up}
    <2>1. /\ Cardinality(inForce) <= Size
          /\ Cardinality(inForce) \in Nat /\ Size \in Nat
      BY InForceMapped DEF WorkerInv
    <2>2. Size <= concurrency
      BY DEF WorkerInv, Room
    <2>3. loop = "drained" => inForce = {}
      BY DEF WorkerInv, Awaited
    <2> QED  BY <2>1, <2>2, <2>3, WorkerAssumption DEF SlotsHonoured
  <1> QED  BY <1>1, <1>2, <1>3, PTL DEF WorkerSpec
-----------------------------------------------------------------------------
(* The file locks: as long as no two acquisitions meet, at most one caller *)
(* is anywhere but at rest, and the file says whose the lock is.           *)

Stages == {"idle", "remove", "create", "stamp", "holds", "unlink"}
Busy(c) == caller[c] # "idle"

LocksTypeOK ==
    /\ kind \in {"page", "cycle", "pglite"}
    /\ caller \in [Caller -> Stages] /\ alive \subseteq Process
    /\ lockFile \in [there : BOOLEAN, pid : Process \union {Nobody}, old : BOOLEAN]

\* Whoever has or wants the lock lives.
BusyLives == \A c \in Caller : Busy(c) => ProcessOf[c] \in alive

OneBusy == \A c, d \in Caller : Busy(c) /\ Busy(d) => c = d
FileSays ==
    \A c \in Caller : caller[c] \in {"holds", "unlink"} =>
        lockFile.there /\ lockFile.pid = ProcessOf[c]

LocksInv ==
    /\ LocksTypeOK /\ BusyLives
    /\ ~raced => OneBusy /\ FileSays

LEMMA NoFileType == NoFile \in [there : BOOLEAN, pid : Process \union {Nobody}, old : BOOLEAN]
  <1>1. FALSE \in BOOLEAN  OBVIOUS
  <1> QED  BY <1>1 DEF NoFile

LEMMA OwnType ==
    ASSUME NEW c \in Caller
    PROVE  Own(c) \in [there : BOOLEAN, pid : Process \union {Nobody}, old : BOOLEAN]
  <1>1. TRUE \in BOOLEAN /\ FALSE \in BOOLEAN  OBVIOUS
  <1>2. ProcessOf[c] \in Process  BY CallerAssumption
  <1> QED  BY <1>1, <1>2 DEF Own

LEMMA LocksTypeKept ==
    LocksTypeOK /\ BusyLives /\ [LocksNext]_lockVars => (LocksTypeOK /\ BusyLives)'
  <1> SUFFICES ASSUME LocksTypeOK, BusyLives, [LocksNext]_lockVars
               PROVE  (LocksTypeOK /\ BusyLives)'
    OBVIOUS
  <1> USE NoFileType, OwnType DEF LocksTypeOK, BusyLives, Busy, Stages
  <1>1. CASE UNCHANGED lockVars
    BY <1>1 DEF lockVars
  <1>2. ASSUME NEW c \in Caller,
               Look(c) \/ Remove(c) \/ Overwrite(c) \/ Stamp(c) \/ releaseLock(c) \/ Unlink(c)
        PROVE  (LocksTypeOK /\ BusyLives)'
    BY <1>2 DEF Look, Remove, Overwrite, Stamp, releaseLock, Unlink, Comes, Scheduled
  <1>3. ASSUME NEW c \in Caller, MakeDirectory(c)
        PROVE  (LocksTypeOK /\ BusyLives)'
    <2>1. TRUE \in BOOLEAN  OBVIOUS
    <2>2. [NoFile EXCEPT !.there = TRUE] \in [there : BOOLEAN, pid : Process \union {Nobody}, old : BOOLEAN]
      BY <2>1
    <2> QED  BY <1>3, <2>2 DEF MakeDirectory, Comes, Scheduled
  <1>4. CASE GrowsOld
    <2>1. TRUE \in BOOLEAN  OBVIOUS
    <2>2. lockFile' \in [there : BOOLEAN, pid : Process \union {Nobody}, old : BOOLEAN]
      BY <1>4, <2>1 DEF GrowsOld
    <2> QED  BY <1>4, <2>2 DEF GrowsOld
  <1>5. ASSUME NEW p \in Process, Dies(p) \/ Reborn(p)
        PROVE  (LocksTypeOK /\ BusyLives)'
    BY <1>5 DEF Dies, Reborn
  <1> QED  BY <1>1, <1>2, <1>3, <1>4, <1>5 DEF LocksNext

\* A caller that finds the lock free, where nobody else is about to take it,
\* finds nobody with it either: the holder's file is there and its pid lives.
LEMMA LookAlone ==
    ASSUME LocksInv, ~raced, NEW c \in Caller, Look(c), ~raced'
    PROVE  \A d \in Caller : ~Busy(d)
  <1> SUFFICES ASSUME NEW d \in Caller, Busy(d) PROVE FALSE  OBVIOUS
  <1>1. caller[d] = "holds"
    BY DEF Look, InCall, Acquiring, Busy, LocksInv, LocksTypeOK, Stages
  <1>2. lockFile.there /\ lockFile.pid = ProcessOf[d] /\ ProcessOf[d] \in alive
    BY <1>1 DEF LocksInv, FileSays, BusyLives
  <1>3. ~isPidAlive(c, lockFile.pid)
    BY <1>2 DEF Look
  <1>4. kind = "cycle" /\ ProcessOf[d] = ProcessOf[c]
    BY <1>2, <1>3 DEF isPidAlive
  <1>5. d # c
    BY <1>1 DEF Look
  <1> QED  BY <1>1, <1>4, <1>5 DEF Look, MayAsk

LEMMA HoldersKept ==
    LocksInv /\ [LocksNext]_lockVars /\ ~raced' => (OneBusy /\ FileSays)'
  <1> SUFFICES ASSUME LocksInv, [LocksNext]_lockVars, ~raced'
               PROVE  (OneBusy /\ FileSays)'
    OBVIOUS
  <1>t. LocksTypeOK
    BY DEF LocksInv
  <1>1. CASE raced
    <2>1. \A d \in Caller : caller'[d] = "idle"
      BY <1>1 DEF LocksNext, lockVars, Look, Remove, Overwrite, MakeDirectory, Stamp,
                  releaseLock, Unlink, Dies, Reborn, GrowsOld, Comes
    <2> QED  BY <2>1 DEF OneBusy, FileSays, Busy
  <1>2. CASE ~raced
    <2>i. OneBusy /\ FileSays
      BY <1>2 DEF LocksInv
    <2> USE <1>t, <2>i DEF OneBusy, FileSays, Busy, LocksTypeOK
    <2>1. CASE UNCHANGED lockVars
      BY <2>1 DEF lockVars
    <2>2. ASSUME NEW c \in Caller, Look(c)
          PROVE  (OneBusy /\ FileSays)'
      <3>1. \A d \in Caller : caller[d] = "idle"
        BY <1>2, <2>2, LookAlone
      <3>2. caller'[c] \in {"remove", "create"} /\ \A d \in Caller \ {c} : caller'[d] = "idle"
        BY <2>2, <3>1 DEF Look
      <3> QED  BY <3>2
    <2>3. ASSUME NEW c \in Caller,
                 \/ Remove(c) \/ Overwrite(c) \/ MakeDirectory(c) \/ Stamp(c)
                 \/ releaseLock(c) \/ Unlink(c)
          PROVE  (OneBusy /\ FileSays)'
      <3>1. caller[c] # "idle" /\ \A d \in Caller \ {c} : caller[d] = "idle"
        BY <2>3 DEF Remove, Overwrite, MakeDirectory, Stamp, releaseLock, Unlink
      <3>2. \A d \in Caller \ {c} : caller'[d] = "idle"
        BY <2>3, <3>1 DEF Remove, Overwrite, MakeDirectory, Stamp, releaseLock, Unlink, Comes
      <3>3. caller'[c] \in {"holds", "unlink"} => lockFile'.there /\ lockFile'.pid = ProcessOf[c]
        BY <2>3 DEF Remove, Overwrite, MakeDirectory, Stamp, releaseLock, Unlink, Comes, Own
      <3> QED  BY <3>2, <3>3
    <2>4. CASE GrowsOld
      BY <2>4 DEF GrowsOld
    <2>5. ASSUME NEW p \in Process, Dies(p) \/ Reborn(p)
          PROVE  (OneBusy /\ FileSays)'
      BY <2>5 DEF Dies, Reborn
    <2> QED  BY <2>1, <2>2, <2>3, <2>4, <2>5 DEF LocksNext
  <1> QED  BY <1>1, <1>2

\* For any number of callers and processes, whichever of the three locks it is,
\* and with pids that are given out again: two callers have it at once only
\* after acquisitions met or a living holder outlasted its time.
THEOREM LocksExcludeHolds == LocksSpec => []LocksExclude
  <1>1. LocksInit => LocksInv
    BY NoFileType
       DEF LocksInit, LocksInv, LocksTypeOK, BusyLives, Busy, Stages, OneBusy, FileSays
  <1>2. LocksInv /\ [LocksNext]_lockVars => LocksInv'
    BY LocksTypeKept, HoldersKept DEF LocksInv
  <1>3. LocksInv => LocksExclude
    <2> SUFFICES ASSUME LocksInv, ~raced PROVE LocksExclude
      BY DEF LocksExclude
    <2> DEFINE Holders == {c \in Caller : caller[c] \in {"holds", "unlink"}}
    <2>1. \A c, d \in Holders : c = d
      BY DEF LocksInv, OneBusy, Busy
    <2>2. CASE Holders = {}
      BY <2>2, FS_EmptySet DEF LocksExclude
    <2>3. CASE Holders # {}
      <3>1. PICK c \in Holders : TRUE
        BY <2>3
      <3>2. Holders = {c}
        BY <2>1, <3>1
      <3>3. Cardinality(Holders) = 1
        BY <3>2, FS_Singleton
      <3> QED  BY <3>3 DEF LocksExclude
    <2> QED  BY <2>2, <2>3
  <1> QED  BY <1>1, <1>2, <1>3, PTL DEF LocksSpec
-----------------------------------------------------------------------------
(* The PID file: as long as no two openings meet, it names the supervisor  *)
(* that is up, and nobody clears it away under a living one.               *)

SupPcs == {"down", "write", "read", "unlink", "retry", "up", "backoff", "stopping"}

SupTypeOK ==
    /\ sup \in [Host -> [pc : SupPcs, worker : {"none", "runs"}, crashCount : Nat]]
    /\ DOMAIN pidFile = {"by", "written"}

OneOpening == \A g, h \in Host : Opening(g) /\ Opening(h) => g = h
NamesTheOne == \A g \in Host : Up(g) => pidFile.by = g /\ pidFile.written

\* Whoever has found the file stale, or created it, has it to itself.
ClearsAlone ==
    \A h \in Host :
        /\ sup[h].pc \in {"write", "unlink", "retry"} => \A g \in Host : ~Up(g)
        /\ sup[h].pc = "write" => pidFile.by = h

SupInv ==
    /\ SupTypeOK
    /\ ~met => OneOpening /\ NamesTheOne /\ ClearsAlone

LEMMA SupTypeKept == SupTypeOK /\ [SupNext]_supVars => SupTypeOK'
  <1> SUFFICES ASSUME SupTypeOK, [SupNext]_supVars
               PROVE  SupTypeOK'
    OBVIOUS
  <1> USE DEF SupTypeOK, SupPcs, Becomes, NoPid
  <1>1. CASE UNCHANGED supVars
    BY <1>1 DEF supVars
  <1>2. ASSUME NEW h \in Host, Open(h) \/ Retry(h) \/ ReadPid(h) \/ UnlinkStale(h)
        PROVE  SupTypeOK'
    <2>1. CASE UNCHANGED pidFile
      <3>1. \E pc \in SupPcs : sup' = [sup EXCEPT ![h].pc = pc]
        BY <1>2 DEF Open, Retry, ReadPid, UnlinkStale
      <3> QED  BY <2>1, <3>1
    <2>2. CASE UnlinkStale(h)
      BY <2>2 DEF UnlinkStale
    <2>3. CASE (Open(h) \/ Retry(h)) /\ pidFile = NoPid
      <3>1. pidFile' = [by |-> h, written |-> FALSE]
        BY <2>3 DEF Open, Retry
      <3>2. DOMAIN pidFile' = {"by", "written"}
        BY <3>1
      <3>3. sup' = [sup EXCEPT ![h].pc = "write"]
        BY <2>3 DEF Open, Retry
      <3> QED  BY <3>2, <3>3
    <2> QED  BY <1>2, <2>1, <2>2, <2>3 DEF Open, Retry, ReadPid
  <1>3. ASSUME NEW h \in Host, WritePid(h)
        PROVE  SupTypeOK'
    BY <1>3 DEF WritePid, Down
  <1>4. ASSUME NEW h \in Host, spawnOnce(h) \/ BackoffEnds(h) \/ Shutdown(h) \/ Exit(h) \/ SupDies(h)
        PROVE  SupTypeOK'
    BY <1>4 DEF spawnOnce, BackoffEnds, Shutdown, Exit, SupDies
  <1>5. ASSUME NEW h \in Host, WorkerExits(h)
        PROVE  SupTypeOK'
    BY <1>5 DEF WorkerExits, Crashed
  <1> QED  BY <1>1, <1>2, <1>3, <1>4, <1>5 DEF SupNext, SupStep

LEMMA FileKept ==
    SupInv /\ [SupNext]_supVars /\ ~met' => (OneOpening /\ NamesTheOne /\ ClearsAlone)'
  <1> SUFFICES ASSUME SupInv, [SupNext]_supVars, ~met'
               PROVE  (OneOpening /\ NamesTheOne /\ ClearsAlone)'
    OBVIOUS
  <1>t. SupTypeOK
    BY DEF SupInv
  <1> USE <1>t DEF SupTypeOK, SupPcs, OneOpening, NamesTheOne, ClearsAlone, Opening, Up, Becomes
  <1>1. ASSUME NEW h \in Host, Open(h)
        PROVE  (OneOpening /\ NamesTheOne /\ ClearsAlone)'
    <2>1. \A g \in Host : ~Opening(g)
      BY <1>1 DEF Open
    <2>2. \A g \in Host : Up(g) => ~met /\ pidFile.by = g /\ pidFile.written
      BY <1>1 DEF Open, SupInv
    <2>3. CASE pidFile = NoPid
      <3>1. \A g \in Host : ~Up(g)
        BY <2>2, <2>3 DEF NoPid
      <3> QED  BY <1>1, <2>1, <2>3, <3>1 DEF Open
    <2>4. CASE pidFile # NoPid
      BY <1>1, <2>1, <2>2, <2>4 DEF Open
    <2> QED  BY <2>3, <2>4
  <1>2. CASE ~met
    <2>i. OneOpening /\ NamesTheOne /\ ClearsAlone
      BY <1>2 DEF SupInv
    <2> USE <2>i
    <2>1. CASE UNCHANGED supVars
      BY <2>1 DEF supVars
    <2>2. ASSUME NEW h \in Host, WritePid(h)
          PROVE  (OneOpening /\ NamesTheOne /\ ClearsAlone)'
      <3>1. /\ sup[h].pc = "write" /\ pidFile.by = h
            /\ \A g \in Host \ {h} : ~Up(g) /\ ~Opening(g)
        BY <2>2 DEF WritePid
      <3>2. pidFile'.by = h /\ pidFile'.written
        BY <2>2, <3>1 DEF WritePid
      <3>3. \A g \in Host \ {h} : sup'[g] = sup[g]
        BY <2>2 DEF WritePid
      <3>4. sup'[h].pc = "up"
        BY <2>2 DEF WritePid, Down
      <3> QED  BY <3>1, <3>2, <3>3, <3>4
    <2>3. ASSUME NEW h \in Host, ReadPid(h)
          PROVE  (OneOpening /\ NamesTheOne /\ ClearsAlone)'
      <3>1. CASE \E g \in Host : Up(g)
        <4>1. PICK g \in Host : Up(g)
          BY <3>1
        <4>2. pidFile # NoPid /\ pidFile.written /\ isProcessAlive(pidFile.by)
          BY <4>1 DEF NoPid, isProcessAlive
        <4>3. sup'[h].pc = "down"
          BY <2>3, <4>2 DEF ReadPid
        <4> QED  BY <2>3, <4>3 DEF ReadPid
      <3>2. CASE \A g \in Host : ~Up(g)
        BY <2>3, <3>2 DEF ReadPid
      <3> QED  BY <3>1, <3>2
    <2>4. ASSUME NEW h \in Host, UnlinkStale(h)
          PROVE  (OneOpening /\ NamesTheOne /\ ClearsAlone)'
      BY <2>4 DEF UnlinkStale
    <2>5. ASSUME NEW h \in Host, Retry(h)
          PROVE  (OneOpening /\ NamesTheOne /\ ClearsAlone)'
      BY <2>5 DEF Retry
    <2>6. ASSUME NEW h \in Host,
                 spawnOnce(h) \/ BackoffEnds(h) \/ Shutdown(h) \/ SupDies(h)
          PROVE  (OneOpening /\ NamesTheOne /\ ClearsAlone)'
      BY <2>6 DEF spawnOnce, BackoffEnds, Shutdown, SupDies
    <2>7. ASSUME NEW h \in Host, WorkerExits(h)
          PROVE  (OneOpening /\ NamesTheOne /\ ClearsAlone)'
      BY <2>7 DEF WorkerExits
    <2>8. ASSUME NEW h \in Host, Exit(h)
          PROVE  (OneOpening /\ NamesTheOne /\ ClearsAlone)'
      BY <2>8 DEF Exit
    <2> QED
      BY <1>1, <2>1, <2>2, <2>3, <2>4, <2>5, <2>6, <2>7, <2>8 DEF SupNext, SupStep
  <1>3. met => \E h \in Host : Open(h)
    BY DEF SupNext, SupStep, supVars, WritePid, ReadPid, UnlinkStale, Retry, spawnOnce,
           WorkerExits, BackoffEnds, Shutdown, Exit, SupDies
  <1> QED  BY <1>1, <1>2, <1>3

\* For any number of supervisors and any crash limit, with supervisors that die
\* and leave their file: two are up only after two openings of the file met.
THEOREM OneSupervisorHolds == SupSpec => []OneSupervisor
  <1>1. SupInit => SupInv
    BY DEF SupInit, SupInv, SupTypeOK, SupPcs, Down, NoPid, OneOpening, NamesTheOne,
           ClearsAlone, Opening, Up
  <1>2. SupInv /\ [SupNext]_supVars => SupInv'
    BY SupTypeKept, FileKept DEF SupInv
  <1>3. SupInv => OneSupervisor
    <2> SUFFICES ASSUME SupInv, ~met PROVE OneSupervisor
      BY DEF OneSupervisor
    <2> DEFINE Ups == {h \in Host : Up(h)}
    <2>1. \A g, h \in Ups : g = h
      BY DEF SupInv, NamesTheOne
    <2>2. CASE Ups = {}
      BY <2>2, FS_EmptySet DEF OneSupervisor
    <2>3. CASE Ups # {}
      <3>1. PICK h \in Ups : TRUE
        BY <2>3
      <3>2. Ups = {h}
        BY <2>1, <3>1
      <3>3. Cardinality(Ups) = 1
        BY <3>2, FS_Singleton
      <3> QED  BY <3>3 DEF OneSupervisor
    <2> QED  BY <2>2, <2>3
  <1> QED  BY <1>1, <1>2, <1>3, PTL DEF SupSpec
================================================================================
