----------------------------- MODULE WorkerProcess -----------------------------
(***************************************************************************)
(* One worker process (core/minions/worker.ts): its loop that claims up to *)
(* `concurrency` jobs, the map inFlight by which it counts them and waits  *)
(* for them when it shuts down, and the handlers it runs.  What the queue  *)
(* does to a job meanwhile is MinionQueue's; here it is one step that      *)
(* takes the lock away.                                                    *)
(***************************************************************************)
EXTENDS Naturals, FiniteSets

CONSTANTS
    WorkerJob,      \* jobs of the queue
    concurrency,    \* --concurrency
    MaxClaims       \* bound: claims this process makes

ASSUME WorkerAssumption ==
    concurrency \in Nat \ {0} /\ MaxClaims \in Nat /\ IsFiniteSet(WorkerJob)

VARIABLES
    loop,       \* where the main loop is
    inFlight,   \* by job id: the claim that is in the map, 0 for none
    handler,    \* claims whose promise is unsettled, and whether the worker has given them up
    holder,     \* by job: the claim whose lock token the row has, 0 for none
    claims,     \* claims made
    awaited,    \* the promises the shutdown waits for
    shadow      \* history: a job was claimed again while a handler of an earlier claim was still running

workerVars == <<loop, inFlight, handler, holder, claims, awaited, shadow>>

Size == Cardinality({j \in WorkerJob : inFlight[j] # 0})
Unsettled == {h.claim : h \in handler}

WorkerInit ==
    /\ loop = "top"
    /\ inFlight = [j \in WorkerJob |-> 0] /\ holder = [j \in WorkerJob |-> 0]
    /\ handler = {} /\ claims = 0 /\ awaited = {} /\ shadow = FALSE

\* Mutant of Free: one too many.
FreeOneMore(n) == n <= concurrency
Free(n) == n < concurrency

\* The statement of claim() is sent ...
Ask ==
    /\ loop = "top" /\ Free(Size)
    /\ loop' = "asked"
    /\ UNCHANGED <<inFlight, handler, holder, claims, awaited, shadow>>

\* ... and whatever has happened meanwhile, a shutdown too, the job it returns is launched.
launchJob(j, after) ==
    /\ loop \in {"asked", "asked_last"} /\ holder[j] = 0 /\ claims < MaxClaims
    /\ claims' = claims + 1
    /\ holder' = [holder EXCEPT ![j] = claims']
    /\ handler' = handler \union {[job |-> j, claim |-> claims', given_up |-> FALSE]}
    /\ inFlight' = [inFlight EXCEPT ![j] = claims']
    /\ shadow' = (shadow \/ \E h \in handler : h.job = j)
    /\ loop' = after
    /\ UNCHANGED awaited

After == IF loop = "asked" THEN "top" ELSE "over"

Launch == \E j \in WorkerJob : launchJob(j, After)

\* The queue has no job for it.
NoJobs ==
    /\ loop \in {"asked", "asked_last"}
    /\ loop' = After
    /\ UNCHANGED <<inFlight, handler, holder, claims, awaited, shadow>>

\* executeJob has answered the queue; finally deletes what the map has under the job's id.
Settle(h) ==
    /\ handler' = handler \ {h}
    /\ inFlight' = [inFlight EXCEPT ![h.job] = 0]
    /\ holder' = IF holder[h.job] = h.claim THEN [holder EXCEPT ![h.job] = 0] ELSE holder
    /\ UNCHANGED <<loop, claims, awaited, shadow>>

\* The queue takes the job away: a stall sweep, a pause, a cancel, a timeout.
LosesLock(j) ==
    /\ holder[j] # 0
    /\ holder' = [holder EXCEPT ![j] = 0]
    /\ UNCHANGED <<loop, inFlight, handler, claims, awaited, shadow>>

\* 30 s after the abort of its timeout a handler still runs: its job leaves the map, and the queue is
\* asked to mark it dead, which takes its lock later or, when that fails, leaves it to expire.
Evict(h) ==
    /\ inFlight[h.job] # 0
    /\ inFlight' = [inFlight EXCEPT ![h.job] = 0]
    /\ handler' = (handler \ {h}) \union {[h EXCEPT !.given_up = TRUE]}
    /\ UNCHANGED <<loop, holder, claims, awaited, shadow>>

\* SIGTERM, stop(), or the memory watchdog: the loop goes no further round.
Stop ==
    /\ loop \in {"top", "asked"}
    /\ loop' = IF loop = "asked" THEN "asked_last" ELSE "over"
    /\ UNCHANGED <<inFlight, handler, holder, claims, awaited, shadow>>

\* The promises in the map are waited for, 30 s at most.
Drain ==
    /\ loop = "over"
    /\ awaited' = {inFlight[j] : j \in WorkerJob} \ {0}
    /\ loop' = "drain"
    /\ UNCHANGED <<inFlight, handler, holder, claims, shadow>>

DrainEnds(inTime) ==
    /\ loop = "drain"
    /\ inTime => awaited \intersect Unsettled = {}
    /\ loop' = IF inTime THEN "drained" ELSE "late"
    /\ UNCHANGED <<inFlight, handler, holder, claims, awaited, shadow>>

WorkerNext ==
    \/ Ask \/ Launch \/ NoJobs \/ Stop \/ Drain
    \/ \E inTime \in BOOLEAN : DrainEnds(inTime)
    \/ \E h \in handler : Settle(h) \/ Evict(h)
    \/ \E j \in WorkerJob : LosesLock(j)

WorkerSpec == WorkerInit /\ [][WorkerNext]_workerVars

\* A handler whose claim is in force and not given up is counted and waited for: no more than `concurrency` of them
\* run, and when the process says it has drained none is left.  The exception is a job that this
\* process had claimed again while the handler of its earlier claim was still running: whichever of
\* the two settles first removes the other from the map.
SlotsHonoured ==
    LET inForce == {h \in handler : holder[h.job] = h.claim /\ ~h.given_up} IN
    shadow \/ /\ Cardinality(inForce) <= concurrency
              /\ loop = "drained" => inForce = {}
================================================================================
