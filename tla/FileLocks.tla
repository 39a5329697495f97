------------------------------- MODULE FileLocks -------------------------------
(***************************************************************************)
(* The three locks gbrain keeps in files of one host: the lock of a page   *)
(* (core/page-lock.ts), of the maintenance cycle without an engine         *)
(* (core/cycle.ts) and of a PGLite data directory (core/pglite-lock.ts).   *)
(* Every call to the file system is a step; what one process does between  *)
(* two awaits is not interrupted by its other callers.  writeFileSync is   *)
(* one step, and mtime and acquired_at are an age: within the time to live *)
(* or past it.                                                             *)
(***************************************************************************)
EXTENDS Naturals, FiniteSets

CONSTANTS
    Caller,     \* whoever wants the lock
    Process,    \* pids of the host
    ProcessOf   \* which process a caller lives in

ASSUME CallerAssumption == ProcessOf \in [Caller -> Process]

VARIABLES
    kind,       \* which of the locks: "page", "cycle" or "pglite"
    lockFile,   \* the file, or the directory with its file
    caller,     \* how far each caller is
    alive,      \* processes that run
    raced       \* history: an acquisition met another one, or took the lock from a living holder that was past its time

lockVars == <<kind, lockFile, caller, alive, raced>>

Nobody == "nobody"
NoFile == [there |-> FALSE, pid |-> Nobody, old |-> FALSE]

LocksInit ==
    /\ kind \in {"page", "cycle", "pglite"}
    /\ lockFile = NoFile
    /\ caller = [c \in Caller |-> "idle"]
    /\ alive = Process
    /\ raced = FALSE

\* Between finding the lock free and having it; between finding it one's own and removing it.
Acquiring == {"remove", "create", "stamp"}
InCall(c) == caller[c] \in Acquiring \union {"unlink"}

\* A process runs one synchronous section at a time.
Scheduled(c) ==
    /\ ProcessOf[c] \in alive
    /\ \A d \in Caller \ {c} : ProcessOf[d] = ProcessOf[c] => ~InCall(d)

\* The history is forgotten when nobody has or wants the lock.
Comes(c, to) ==
    /\ caller' = [caller EXCEPT ![c] = to]
    /\ raced' = (raced /\ \E d \in Caller : caller'[d] # "idle")

\* Mutant of isPidAlive: one's own pid is taken for an earlier run's, as the cycle lock does.
isOtherPid(c, pid) == pid \in alive \ {ProcessOf[c]}

\* kill(pid, 0).  Only the cycle lock takes its own pid for that of an earlier run.
isPidAlive(c, pid) == pid \in alive /\ (kind = "cycle" => pid # ProcessOf[c])

Live(c) == isPidAlive(c, lockFile.pid) /\ ~lockFile.old

\* A process asks for the cycle lock once at a time (page-lock.ts: "single lock per process").
MayAsk(c) ==
    kind = "cycle" => \A d \in Caller \ {c} : ProcessOf[d] = ProcessOf[c] => caller[d] = "idle"

\* existsSync, stat and read.  A live holder is left alone until the next poll.
Look(c) ==
    /\ Scheduled(c) /\ caller[c] = "idle" /\ MayAsk(c)
    /\ ~lockFile.there \/ ~Live(c)
    /\ caller' = [caller EXCEPT ![c] = IF kind = "pglite" /\ lockFile.there THEN "remove" ELSE "create"]
    /\ raced' = \/ raced \/ \E d \in Caller : InCall(d)
                \/ lockFile.there /\ isPidAlive(c, lockFile.pid)
    /\ UNCHANGED <<kind, lockFile, alive>>

\* PGLite removes what it took for stale, whatever is there by now.
Remove(c) ==
    /\ Scheduled(c) /\ caller[c] = "remove"
    /\ lockFile' = NoFile
    /\ Comes(c, "create")
    /\ UNCHANGED <<kind, alive>>

Own(c) == [there |-> TRUE, pid |-> ProcessOf[c], old |-> FALSE]

\* The other two write over it.
Overwrite(c) ==
    /\ Scheduled(c) /\ caller[c] = "create" /\ kind # "pglite"
    /\ lockFile' = Own(c)
    /\ Comes(c, "holds")
    /\ UNCHANGED <<kind, alive>>

\* mkdir is atomic; where it fails the loop begins again.
MakeDirectory(c) ==
    /\ Scheduled(c) /\ caller[c] = "create" /\ kind = "pglite"
    /\ IF lockFile.there
       THEN UNCHANGED lockFile /\ Comes(c, "idle")
       ELSE lockFile' = [NoFile EXCEPT !.there = TRUE] /\ Comes(c, "stamp")
    /\ UNCHANGED <<kind, alive>>

\* The pid goes into the directory, if it is still there.
Stamp(c) ==
    /\ Scheduled(c) /\ caller[c] = "stamp"
    /\ IF lockFile.there
       THEN lockFile' = Own(c) /\ Comes(c, "holds")
       ELSE UNCHANGED lockFile /\ Comes(c, "idle")
    /\ UNCHANGED <<kind, alive>>

\* PGLite's release removes the directory; the others look first whether the pid is theirs.
releaseLock(c) ==
    /\ Scheduled(c) /\ caller[c] = "holds"
    /\ IF kind = "pglite"
       THEN lockFile' = NoFile /\ Comes(c, "idle")
       ELSE /\ Comes(c, IF lockFile.there /\ lockFile.pid = ProcessOf[c] THEN "unlink" ELSE "idle")
            /\ UNCHANGED lockFile
    /\ UNCHANGED <<kind, alive>>

Unlink(c) ==
    /\ Scheduled(c) /\ caller[c] = "unlink"
    /\ lockFile' = NoFile
    /\ Comes(c, "idle")
    /\ UNCHANGED <<kind, alive>>

\* The time to live passes: five minutes for a page or a directory, thirty for a cycle.
GrowsOld ==
    /\ lockFile.there /\ ~lockFile.old /\ lockFile.pid # Nobody
    /\ lockFile' = [lockFile EXCEPT !.old = TRUE]
    /\ UNCHANGED <<kind, caller, alive, raced>>

Dies(p) ==
    /\ p \in alive
    /\ alive' = alive \ {p}
    /\ caller' = [c \in Caller |-> IF ProcessOf[c] = p THEN "idle" ELSE caller[c]]
    /\ raced' = (raced \/ \E c \in Caller : ProcessOf[c] = p /\ caller[c] = "stamp")
    /\ UNCHANGED <<kind, lockFile>>

\* A pid is given out again.
Reborn(p) ==
    /\ p \notin alive
    /\ alive' = alive \union {p}
    /\ UNCHANGED <<kind, lockFile, caller, raced>>

LocksNext ==
    \/ \E c \in Caller :
         Look(c) \/ Remove(c) \/ Overwrite(c) \/ MakeDirectory(c) \/ Stamp(c) \/ releaseLock(c) \/ Unlink(c)
    \/ \E p \in Process : Dies(p) \/ Reborn(p)
    \/ GrowsOld

LocksSpec == LocksInit /\ [][LocksNext]_lockVars

\* Nobody has the lock while another one has it, unless two acquisitions met, or one found the lock
\* past its time in the hands of a living process.
LocksExclude == raced \/ Cardinality({c \in Caller : caller[c] \in {"holds", "unlink"}}) <= 1
================================================================================
