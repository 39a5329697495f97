-------------------------------- MODULE Gateway --------------------------------
(***************************************************************************)
(* The gateway manager of the admin server (class Gateway of server.py):   *)
(* coroutines that start, stop and restart one subprocess and keep a state *)
(* for the dashboard.  Every request makes a task of its own; an await is  *)
(* where another task may go on.                                           *)
(***************************************************************************)
EXTENDS Naturals, FiniteSets

CONSTANTS
    Task,       \* requests under way, of the page, of auto_start and of the lifespan
    MaxProcs    \* bound: subprocesses ever started

ASSUME ProcsAssumption == MaxProcs \in Nat

VARIABLES
    proc,       \* self.proc; 0 is None
    state,      \* self.state
    running,    \* subprocesses whose returncode is None
    draining,   \* subprocesses whose output a _drain still reads
    spawned,    \* the last pid given out
    task,       \* where each task is
    crossed     \* history: two tasks were under way at once, or a _drain outlived its subprocess's successor

gatewayVars == <<proc, state, running, draining, spawned, task, crossed>>

NoTask == [pc |-> "idle", proc |-> 0, restart |-> FALSE]

GatewayInit ==
    /\ proc = 0 /\ state = "stopped" /\ running = {} /\ draining = {} /\ spawned = 0
    /\ task = [t \in Task |-> NoTask]
    /\ crossed = FALSE

AtRest == \A t \in Task : task[t].pc = "idle"

\* self.proc and self.proc.returncode is None
Alive == proc \in running

\* What start() does before its first await ...
BeginStart(t) ==
    IF Alive
    THEN /\ task' = [task EXCEPT ![t] = NoTask] /\ UNCHANGED state
    ELSE /\ task' = [task EXCEPT ![t] = [NoTask EXCEPT !.pc = "spawn"]]
         /\ state' = "starting"

start(t) ==
    /\ task[t].pc = "idle" /\ BeginStart(t)
    /\ crossed' = (crossed \/ ~AtRest)
    /\ UNCHANGED <<proc, running, draining, spawned>>

\* ... and after it: a task of its own reads the output.
Spawned(t) ==
    /\ task[t].pc = "spawn" /\ spawned < MaxProcs
    /\ spawned' = spawned + 1 /\ proc' = spawned' /\ running' = running \union {spawned'}
    /\ draining' = draining \union {spawned'}
    /\ state' = "running"
    /\ task' = [task EXCEPT ![t] = NoTask]
    /\ crossed' = (crossed \/ draining # {})

\* The configuration, or create_subprocess_exec, throws.
SpawnFails(t) ==
    /\ task[t].pc = "spawn"
    /\ state' = "error"
    /\ task' = [task EXCEPT ![t] = NoTask]
    /\ UNCHANGED <<proc, running, draining, spawned, crossed>>

\* stop(), alone or as the first half of restart(): SIGTERM, and the wait begins.
stop(t, again) ==
    /\ task[t].pc = "idle"
    /\ task' = [task EXCEPT ![t] = [pc |-> IF Alive THEN "wait" ELSE "stopped", proc |-> proc, restart |-> again]]
    /\ state' = IF Alive THEN "stopping" ELSE "stopped"
    /\ crossed' = (crossed \/ ~AtRest)
    /\ UNCHANGED <<proc, running, draining, spawned>>

\* Mutant of Waited: whether the subprocess has ended or not.
WaitedNot(t) ==
    /\ task[t].pc = "wait"
    /\ task' = [task EXCEPT ![t].pc = "stopped"]
    /\ state' = "stopped"
    /\ UNCHANGED <<proc, running, draining, spawned, crossed>>

\* The subprocess has ended, by itself or by the kill() that follows after ten seconds.
Waited(t) ==
    /\ task[t].pc = "wait" /\ task[t].proc \notin running
    /\ task' = [task EXCEPT ![t].pc = "stopped"]
    /\ state' = "stopped"
    /\ UNCHANGED <<proc, running, draining, spawned, crossed>>

\* Ten seconds: kill() goes to whatever self.proc is by now.
Killed(t) ==
    /\ task[t].pc = "wait" /\ Alive
    /\ running' = running \ {proc}
    /\ task' = [task EXCEPT ![t].proc = proc]
    /\ UNCHANGED <<proc, state, draining, spawned, crossed>>

\* The request is over, or restart() goes on with start().
Stopped(t) ==
    /\ task[t].pc = "stopped"
    /\ IF task[t].restart THEN BeginStart(t)
       ELSE task' = [task EXCEPT ![t] = NoTask] /\ UNCHANGED state
    /\ UNCHANGED <<proc, running, draining, spawned, crossed>>

\* The subprocess ends.
ProcEnds(p) ==
    /\ p \in running
    /\ running' = running \ {p}
    /\ UNCHANGED <<proc, state, draining, spawned, task, crossed>>

\* Its output ends, and what the page shows is the state at that moment.
Drained(p) ==
    /\ p \in draining \ running
    /\ draining' = draining \ {p}
    /\ state' = IF state = "running" THEN "error" ELSE state
    /\ UNCHANGED <<proc, running, spawned, task, crossed>>

GatewayNext ==
    \/ \E t \in Task :
         \/ start(t) \/ Spawned(t) \/ SpawnFails(t)
         \/ \E again \in BOOLEAN : stop(t, again)
         \/ Waited(t) \/ Killed(t) \/ Stopped(t)
    \/ \E p \in running : ProcEnds(p)
    \/ \E p \in draining : Drained(p)

GatewaySpec == GatewayInit /\ [][GatewayNext]_gatewayVars

\* No subprocess runs that the manager does not know, and when nothing is under way the page says
\* "running" just when one runs, unless requests have crossed (both then start one, or a stop writes
\* over what a start has set) or the reader of an earlier subprocess's output came late.
GatewayAgrees ==
    ~crossed =>
        /\ running \subseteq {proc}
        /\ AtRest /\ draining \subseteq running => (state = "running" <=> Alive)
================================================================================
