------------------------------ MODULE Supervisor ------------------------------
(***************************************************************************)
(* `gbrain jobs supervisor` (core/minions/supervisor.ts): the PID file     *)
(* that lets one supervisor run per host, and the worker it keeps alive.   *)
(* Opening, reading, writing and removing the file are steps of their own. *)
(* A worker is what its process does for the supervisor: it runs, it ends, *)
(* or it does not answer SIGTERM.                                          *)
(***************************************************************************)
EXTENDS Naturals, FiniteSets

CONSTANTS
    Host,       \* processes that run `gbrain jobs supervisor`
    MaxCrashes  \* --max-crashes

ASSUME CrashAssumption == MaxCrashes \in Nat \ {0}

VARIABLES
    pidFile,    \* who created the PID file, and whether its pid is written
    sup,        \* one record per supervisor process
    met         \* history: an acquisition of the file met another one

supVars == <<pidFile, sup, met>>

NoPid == [by |-> "nobody", written |-> FALSE]
Down == [pc |-> "down", worker |-> "none", crashCount |-> 0]

SupInit ==
    /\ pidFile = NoPid
    /\ sup = [h \in Host |-> Down]
    /\ met = FALSE

Up(h) == sup[h].pc \in {"up", "backoff", "stopping"}
Opening(h) == sup[h].pc \in {"write", "read", "unlink", "retry"}
Becomes(h, pc) == sup' = [sup EXCEPT ![h].pc = pc]

\* open(.., 'wx'): creates the file or finds it there.
Open(h) ==
    /\ sup[h].pc = "down" /\ sup[h].worker = "none"
    /\ IF pidFile = NoPid
       THEN pidFile' = [by |-> h, written |-> FALSE] /\ Becomes(h, "write")
       ELSE UNCHANGED pidFile /\ Becomes(h, "read")
    /\ met' = (\E g \in Host : Opening(g) \/ (met /\ Up(g)))

\* The pid goes into the file that was opened, also when its name is gone or another's.
WritePid(h) ==
    /\ sup[h].pc = "write"
    /\ pidFile' = [pidFile EXCEPT !.written = @ \/ pidFile.by = h]
    /\ sup' = [sup EXCEPT ![h] = [Down EXCEPT !.pc = "up"]]
    /\ UNCHANGED met

\* Mutant of isProcessAlive: a supervisor that waits to start its worker again is taken for dead.
hasWorker(h) == sup[h].worker = "runs"

isProcessAlive(h) == sup[h].pc # "down"

\* A file without a pid is as good as a dead owner's.
ReadPid(h) ==
    /\ sup[h].pc = "read"
    /\ Becomes(h, IF pidFile # NoPid /\ pidFile.written /\ isProcessAlive(pidFile.by) THEN "down" ELSE "unlink")
    /\ UNCHANGED <<pidFile, met>>

UnlinkStale(h) ==
    /\ sup[h].pc = "unlink"
    /\ pidFile' = NoPid
    /\ Becomes(h, "retry")
    /\ UNCHANGED met

Retry(h) ==
    /\ sup[h].pc = "retry"
    /\ IF pidFile = NoPid
       THEN pidFile' = [by |-> h, written |-> FALSE] /\ Becomes(h, "write")
       ELSE UNCHANGED pidFile /\ Becomes(h, "down")
    /\ UNCHANGED met

-----------------------------------------------------------------------------
(* The supervise loop.                                                     *)

\* An exit counts as a crash; one after five minutes is the first of a new series.
Crashed(n) == {1, n + 1}

\* The loop: try to start a worker.  A spawn that throws counts as a crash.
spawnOnce(h) ==
    /\ sup[h].pc = "up" /\ sup[h].worker = "none"
    /\ \/ sup' = [sup EXCEPT ![h].worker = "runs"]
       \/ sup' = [sup EXCEPT ![h].pc = "backoff", ![h].crashCount = @ + 1]
    /\ UNCHANGED <<pidFile, met>>

WorkerExits(h) ==
    /\ sup[h].worker # "none"
    /\ \/ /\ sup[h].pc = "up"
          /\ \E n \in Crashed(sup[h].crashCount) :
               sup' = [sup EXCEPT ![h].worker = "none", ![h].pc = "backoff", ![h].crashCount = n]
       \/ /\ sup[h].pc # "up"
          /\ sup' = [sup EXCEPT ![h].worker = "none"]
    /\ UNCHANGED <<pidFile, met>>

\* Mutant of BackoffEnds: the loop is left without a shutdown.
BackoffStays(h) ==
    /\ sup[h].pc = "backoff" /\ sup[h].crashCount < MaxCrashes
    /\ Becomes(h, "up")
    /\ UNCHANGED <<pidFile, met>>

\* The loop goes round, or gives up.
BackoffEnds(h) ==
    /\ sup[h].pc = "backoff"
    /\ Becomes(h, IF sup[h].crashCount < MaxCrashes THEN "up" ELSE "stopping")
    /\ UNCHANGED <<pidFile, met>>

\* SIGTERM to the supervisor, passed on to the worker.
Shutdown(h) ==
    /\ sup[h].pc \in {"up", "backoff"}
    /\ Becomes(h, "stopping")
    /\ UNCHANGED <<pidFile, met>>

\* The worker has ended, or 35 seconds are over: child.killed is true since SIGTERM was sent, so no
\* SIGKILL follows and the worker is left behind.  The exit listener removes a PID file of its own.
Exit(h) ==
    /\ sup[h].pc = "stopping"
    /\ Becomes(h, "down")
    /\ pidFile' = IF pidFile.by = h /\ pidFile.written THEN NoPid ELSE pidFile
    /\ UNCHANGED met

\* SIGKILL: neither the file nor the worker is seen to.
SupDies(h) ==
    /\ sup[h].pc # "down"
    /\ Becomes(h, "down")
    /\ UNCHANGED <<pidFile, met>>

SupStep(h) ==
    \/ Open(h) \/ WritePid(h) \/ ReadPid(h) \/ UnlinkStale(h) \/ Retry(h)
    \/ spawnOnce(h) \/ WorkerExits(h) \/ BackoffEnds(h) \/ Shutdown(h) \/ Exit(h) \/ SupDies(h)

SupNext == \E h \in Host : SupStep(h)

SupSpec == SupInit /\ [][SupNext]_supVars

\* A running supervisor takes its next step.
SupRuns(h) == spawnOnce(h) \/ BackoffEnds(h) \/ Exit(h)

\* One supervisor per host, although the file of a dead one is cleared away by whoever comes next,
\* unless two of them were opening the file at once: the second then reads it before the pid is
\* written, or removes what the first has just created.
OneSupervisor == met \/ Cardinality({h \in Host : Up(h)}) <= 1

\* A supervisor that is up has a worker again, or ends: it never sits there without one.
WorkerServes == \A h \in Host : Up(h) ~> sup[h].worker = "runs" \/ ~Up(h)
================================================================================
