------------------------------ MODULE MinionQueue ------------------------------
(***************************************************************************)
(* The Postgres-backed job queue of gbrain (core/minions/queue.ts) and the *)
(* part of the worker that talks to it (core/minions/worker.ts).           *)
(*                                                                         *)
(* The table minion_jobs is the function `job`; every method of            *)
(* MinionQueue is one statement or one transaction, taken as one action:   *)
(* ParentLocking looks inside those that meet at a parent row.  A claim    *)
(* that some worker process is still carrying is an element of `runs`: it  *)
(* outlives the row's interest in it (pause, cancel, stall and timeout all *)
(* take the row away while the handler keeps running), and a worker that   *)
(* dies takes its runs with it.                                            *)
(*                                                                         *)
(* Time is abstracted to what the statements compare with now(): whether   *)
(* lock_until, timeout_at and the age of started_at have passed.  The lock *)
(* token `${workerId}:${Date.now()}`, which is fresh for every claim, is   *)
(* the ordinal of the claim; 0 is NULL.                                    *)
(***************************************************************************)
EXTENDS Integers, FiniteSets

CONSTANTS
    Job,            \* the row ids the SERIAL column may hand out
    Options,        \* the MinionJobInput records callers submit
    Registered,     \* job names some worker has a handler for
    Env,            \* which operator commands, faults and clock events occur
    MaxSpawnDepth,  \* MinionQueueOpts.maxSpawnDepth
    MaxCascade,     \* levels the cancel CTE walks (100 in the code)
    MaxStarted      \* bound: claims of one row (not in the code)

NoJob   == 0        \* parent_job_id NULL
NoToken == 0        \* lock_token NULL

Terminal   == {"completed", "failed", "dead", "cancelled"}
Pending    == {"waiting", "active", "delayed", "waiting-children", "paused"}
Status     == Terminal \cup Pending
Policy     == {"fail_parent", "remove_dep", "ignore", "continue"}
Outcome    == {"complete", "failed", "dead", "cancelled", "timeout"}
Events     == {"cancel", "retry", "pause", "resume", "remove", "detach",
               "cancel_error", "crash", "lock_expires", "age_passes"}

\* max_children and maxWaiting are 0 when unset, idempotency_key is "" when
\* unset; timeout says whether timeout_ms is set.
OptionType ==
    [name : STRING, priority : Int, delay : BOOLEAN, max_attempts : Nat \ {0},
     max_stalled : 1..100, on_child_fail : Policy, max_children : Nat,
     timeout : BOOLEAN, remove_on_complete : BOOLEAN,
     remove_on_fail : BOOLEAN, idempotency_key : STRING, maxWaiting : Nat,
     quiet : {"none", "skip", "defer"}]

ASSUME JobAssumption     == Job \subseteq Nat \ {0}
ASSUME OptionsAssumption == Options \subseteq OptionType /\ Options # {}
ASSUME EnvAssumption     == Env \subseteq Events
ASSUME BoundsAssumption  ==
    /\ MaxSpawnDepth \in Nat
    /\ MaxCascade \in Nat
    /\ MaxStarted \in Nat

VARIABLES
    job,     \* minion_jobs
    next_id, \* the sequence behind its SERIAL key: ids are never reused
    inbox,   \* the child_done rows of minion_inbox
    runs     \* claims a live worker process is carrying

vars == <<job, next_id, inbox, runs>>

\* A row.  A row that does not exist (any more) has status "none", and nothing
\* reads its other columns.
Row ==
    [status : Status \cup {"none"}, opt : Options, parent : Job \cup {NoJob},
     depth : Nat, token : Nat, lock : {"null", "live", "expired"},
     due : BOOLEAN,      \* timeout_at < now()
     overdue : BOOLEAN,  \* started_at is older than the wall-clock threshold
     made : Nat,         \* attempts_made
     started : Nat,      \* attempts_started; started_at is set iff it is > 0
     stalled : Nat]      \* stalled_counter

Message == [to : Job, child : Job, outcome : Outcome]

\* What executeJob holds on to: the token and the attempts_made of the row it
\* claimed, and where handleQuietHoursDefer has got to.
Run == [job : Job, token : Nat, made : Nat,
        phase : {"run", "skip", "cancel", "defer"}]

--------------------------------------------------------------------------------
(* Predicates and updates of a table t, in the words of the SQL.            *)

Exists(t, j) == t[j].status # "none"
Ended(t, j)  == t[j].status \in Terminal
Open(t, j)   == t[j].status \in Pending

OpenChildren(t, p) == {c \in Job : Open(t, c) /\ t[c].parent = p}

Unlocked(row) == [row EXCEPT !.token = NoToken, !.lock = "null"]

\* The rows S get a status and lose their lock.
Put(t, S, status) ==
    [j \in Job |-> IF j \in S THEN [Unlocked(t[j]) EXCEPT !.status = status]
                              ELSE t[j]]

ParentsOf(t, S) == {t[j].parent : j \in S} \ {NoJob}

\* Mutant of Resolve: the NOT EXISTS over the open children is missing.
ResolveAnyway(t, P) ==
    [j \in Job |-> IF j \in P /\ t[j].status = "waiting-children"
                   THEN [t[j] EXCEPT !.status = "waiting"] ELSE t[j]]

\* waiting-children -> waiting for the parents P without an open child.
Resolve(t, P) ==
    [j \in Job |->
        IF /\ j \in P
           /\ t[j].status = "waiting-children"
           /\ OpenChildren(t, j) = {}
        THEN [t[j] EXCEPT !.status = "waiting"] ELSE t[j]]

\* The child_done rows the children S send to parents that have not ended.
ChildDone(t, S, outcome) ==
    {m \in Message : /\ m.child \in S
                     /\ m.outcome = outcome
                     /\ m.to = t[m.child].parent
                     /\ Open(t, m.to)}

\* DELETE, with ON DELETE SET NULL on parent_job_id ...
Delete(t, S) ==
    [j \in Job |->
        IF j \in S THEN [t[j] EXCEPT !.status = "none"]
        ELSE IF t[j].parent \in S THEN [t[j] EXCEPT !.parent = NoJob]
        ELSE t[j]]

\* ... and ON DELETE CASCADE on minion_inbox.job_id.
InboxWithout(box, S) == {m \in box : m.to \notin S}

\* Mutant of Descendants: one level instead of a recursion.
Children(t, id) == {id} \cup {c \in Job : Exists(t, c) /\ t[c].parent = id}

\* The recursive CTE of cancelJob: the rows at most MaxCascade levels below id.
Descendants(t, id) ==
    LET level[d \in Nat] ==
          IF d = 0 THEN {id}
          ELSE LET above == level[d - 1]
               IN  above \cup {c \in Job : Exists(t, c) /\ t[c].parent \in above}
    IN  level[MaxCascade]
--------------------------------------------------------------------------------
(* Submission.                                                              *)

BlankRow(o) ==
    [status |-> "none", opt |-> o, parent |-> NoJob, depth |-> 0,
     token |-> NoToken, lock |-> "null", due |-> FALSE, overdue |-> FALSE,
     made |-> 0, started |-> 0, stalled |-> 0]

Init ==
    /\ job = [j \in Job |-> BlankRow(CHOOSE o \in Options : TRUE)]
    /\ next_id = 1
    /\ inbox = {}
    /\ runs = {}

\* The idempotency fast path: the row that has the key is returned, whatever
\* its status, and nothing is written.
KeyTaken(o) ==
    /\ o.idempotency_key # ""
    /\ \E j \in Job : Exists(job, j) /\ job[j].opt.idempotency_key = o.idempotency_key

\* Submission-time backpressure: the newest waiting row is returned instead.
Saturated(o) ==
    /\ o.maxWaiting > 0
    /\ Cardinality({j \in Job : /\ job[j].status = "waiting"
                                /\ job[j].opt.name = o.name}) >= o.maxWaiting

\* Mutant of MayAdopt: the cap is compared one too late.
MayAdoptOneMore(p) ==
    /\ Exists(job, p)
    /\ job[p].depth + 1 <= MaxSpawnDepth
    /\ \/ job[p].opt.max_children = 0
       \/ Cardinality(OpenChildren(job, p)) <= job[p].opt.max_children

\* The checks add() makes under the parent's row lock.  They do not ask whether
\* the parent has ended.
MayAdopt(p) ==
    /\ Exists(job, p)
    /\ job[p].depth + 1 <= MaxSpawnDepth
    /\ \/ job[p].opt.max_children = 0
       \/ Cardinality(OpenChildren(job, p)) < job[p].opt.max_children

Inserted(t, id, o, p) ==
    [t EXCEPT ![id] =
        [BlankRow(o) EXCEPT
            !.status = IF o.delay THEN "delayed" ELSE "waiting",
            !.parent = p,
            !.depth  = IF p = NoJob THEN 0 ELSE t[p].depth + 1]]

\* The parent starts waiting for its children; it keeps its lock columns.
Suspend(t, p) ==
    [j \in Job |->
        IF j = p /\ t[j].status \in {"waiting", "active", "delayed"}
        THEN [t[j] EXCEPT !.status = "waiting-children"] ELSE t[j]]

add(o, p) ==
    /\ next_id \in Job
    /\ ~KeyTaken(o)
    /\ ~Saturated(o)
    /\ p # NoJob => MayAdopt(p)
    /\ job' = Suspend(Inserted(job, next_id, o, p), p)
    /\ next_id' = next_id + 1
    /\ UNCHANGED <<inbox, runs>>
--------------------------------------------------------------------------------
(* Operator commands.                                                       *)

\* All descendants of id that have not ended, id included, are cancelled.
CancelSet(t, id) == Descendants(t, id) \cap {j \in Job : Open(t, j)}

\* Mutant of Cancelled: the parents are resolved but not told.
CancelledSilently(id) ==
    LET S == CancelSet(job, id)
        t == Put(job, S, "cancelled")
    IN  /\ S # {}
        /\ job' = Resolve(t, ParentsOf(t, S))
        /\ inbox' = inbox

Cancelled(id) ==
    LET S == CancelSet(job, id)
        t == Put(job, S, "cancelled")
    IN  /\ S # {}
        /\ job' = Resolve(t, ParentsOf(t, S))
        /\ inbox' = inbox \cup ChildDone(t, S, "cancelled")

cancelJob(id) ==
    /\ "cancel" \in Env
    /\ Cancelled(id)
    /\ UNCHANGED <<next_id, runs>>

\* attempts_made, stalled_counter and started_at survive, and so does a parent
\* that has moved on.
retryJob(id) ==
    /\ "retry" \in Env
    /\ job[id].status \in {"failed", "dead"}
    /\ job' = Put(job, {id}, "waiting")
    /\ UNCHANGED <<next_id, inbox, runs>>

pauseJob(id) ==
    /\ "pause" \in Env
    /\ job[id].status \in {"waiting", "active", "delayed"}
    /\ job' = Put(job, {id}, "paused")
    /\ UNCHANGED <<next_id, inbox, runs>>

resumeJob(id) ==
    /\ "resume" \in Env
    /\ job[id].status = "paused"
    /\ job' = Put(job, {id}, "waiting")
    /\ UNCHANGED <<next_id, inbox, runs>>

\* removeJob of a row that has ended; prune deletes any of those it is asked
\* for, which is a sequence of these.
removeJob(id) ==
    /\ "remove" \in Env
    /\ Ended(job, id)
    /\ job' = Delete(job, {id})
    /\ inbox' = InboxWithout(inbox, {id})
    /\ UNCHANGED <<next_id, runs>>

\* The parent is not looked at again.
removeChildDependency(id) ==
    /\ "detach" \in Env
    /\ Exists(job, id)
    /\ job[id].parent # NoJob
    /\ job' = [job EXCEPT ![id].parent = NoJob]
    /\ UNCHANGED <<next_id, inbox, runs>>
--------------------------------------------------------------------------------
(* The worker.                                                              *)

\* ORDER BY priority ASC, created_at ASC.
Precedes(i, j) ==
    \/ job[i].opt.priority < job[j].opt.priority
    \/ job[i].opt.priority = job[j].opt.priority /\ i < j

Claimable(j) == job[j].status = "waiting" /\ job[j].opt.name \in Registered

\* FOR UPDATE SKIP LOCKED: a row is passed over while another transaction has it,
\* one that ends a child of it or adds one, or a command or a quiet-hours
\* statement on the job itself.
MayBeLocked(j) ==
    \/ OpenChildren(job, j) # {}
    \/ next_id \in Job
    \/ Env \cap {"cancel", "pause"} # {}
    \/ \E r \in runs : r.job = j

\* What the quiet-hours gate can answer for a job: outside its window it is
\* always allowed to run.
Verdicts(o) == CASE o.quiet = "none"  -> {"run"}
                 [] o.quiet = "skip"  -> {"run", "skip"}
                 [] o.quiet = "defer" -> {"run", "defer"}

\* Mutant of claim: the token is built from attempts_made, which a stall does
\* not change.
claimByAttempt(j) ==
    /\ Claimable(j)
    /\ \A i \in Job : Claimable(i) /\ Precedes(i, j) => MayBeLocked(i)
    /\ job[j].started < MaxStarted
    /\ LET token == job[j].made + 1 IN
        /\ job' = [job EXCEPT ![j] =
                    [@ EXCEPT !.status = "active", !.token = token,
                              !.lock = "live", !.due = FALSE, !.started = @ + 1]]
        /\ \E verdict \in Verdicts(job[j].opt) :
             runs' = runs \cup {[job |-> j, token |-> token,
                                 made |-> job[j].made, phase |-> verdict]}
    /\ UNCHANGED <<next_id, inbox>>

\* started_at is set by the first claim only, so `overdue` is left alone.
claim(j) ==
    /\ Claimable(j)
    /\ \A i \in Job : Claimable(i) /\ Precedes(i, j) => MayBeLocked(i)
    /\ job[j].started < MaxStarted
    /\ LET token == job[j].started + 1 IN
        /\ job' = [job EXCEPT ![j] =
                    [@ EXCEPT !.status = "active", !.token = token,
                              !.lock = "live", !.due = FALSE, !.started = token]]
        /\ \E verdict \in Verdicts(job[j].opt) :
             runs' = runs \cup {[job |-> j, token |-> token,
                                 made |-> job[j].made, phase |-> verdict]}
    /\ UNCHANGED <<next_id, inbox>>

\* Mutant of Owns: lock_token is not compared.
OwnsByStatus(r) == job[r.job].status = "active"

\* WHERE id = .. AND status = 'active' AND lock_token = ..
Owns(r) == job[r.job].status = "active" /\ job[r.job].token = r.token

renewLock(r) ==
    /\ r.phase = "run"
    /\ Owns(r)
    /\ job' = [job EXCEPT ![r.job].lock = "live"]
    /\ UNCHANGED <<next_id, inbox, runs>>

\* remove_on_complete and remove_on_fail: the row goes once its parent has been
\* told.
Swept(t, box, j, remove) ==
    IF remove
    THEN job' = Delete(t, {j}) /\ inbox' = InboxWithout(box, {j})
    ELSE job' = t /\ inbox' = box

\* Mutant of completeJob: the parent is resolved before the child is completed.
completeJobLate(r) ==
    /\ r.phase = "run"
    /\ Owns(r)
    /\ LET t == Put(job, {r.job}, "completed")
       IN  Swept(Put(Resolve(job, ParentsOf(t, {r.job})), {r.job}, "completed"),
                 inbox \cup ChildDone(t, {r.job}, "complete"),
                 r.job, job[r.job].opt.remove_on_complete)
    /\ runs' = runs \ {r}
    /\ UNCHANGED next_id

completeJob(r) ==
    /\ r.phase = "run"
    /\ Owns(r)
    /\ LET t == Put(job, {r.job}, "completed")
       IN  Swept(Resolve(t, ParentsOf(t, {r.job})),
                 inbox \cup ChildDone(t, {r.job}, "complete"),
                 r.job, job[r.job].opt.remove_on_complete)
    /\ runs' = runs \ {r}
    /\ UNCHANGED next_id

\* Mutant of ParentHook: remove_dep detaches the child and forgets the parent.
ParentHookDetachOnly(t, j) ==
    LET p == t[j].parent IN
    CASE t[j].opt.on_child_fail = "fail_parent" ->
           [i \in Job |-> IF i = p /\ t[i].status = "waiting-children"
                          THEN [t[i] EXCEPT !.status = "failed"] ELSE t[i]]
      [] t[j].opt.on_child_fail = "remove_dep" -> [t EXCEPT ![j].parent = NoJob]
      [] OTHER -> Resolve(t, {p})

\* The on_child_fail policy of the job j that has just failed for good.
ParentHook(t, j) ==
    LET p == t[j].parent IN
    CASE t[j].opt.on_child_fail = "fail_parent" ->
           [i \in Job |-> IF i = p /\ t[i].status = "waiting-children"
                          THEN [t[i] EXCEPT !.status = "failed"] ELSE t[i]]
      [] t[j].opt.on_child_fail = "remove_dep" ->
           Resolve([t EXCEPT ![j].parent = NoJob], {p})
      [] OTHER -> Resolve(t, {p})

\* Mutant of FailedWith: only a success is reported to the parent.
FailedQuietly(j, status) ==
    LET t == [Put(job, {j}, status) EXCEPT ![j].made = @ + 1]
    IN  IF status = "delayed"
        THEN job' = t /\ inbox' = inbox
        ELSE Swept(ParentHook(t, j), inbox, j, job[j].opt.remove_on_fail)

\* failJob's transaction, when the token still matches.
FailedWith(j, status) ==
    LET t == [Put(job, {j}, status) EXCEPT ![j].made = @ + 1]
    IN  IF status = "delayed"
        THEN job' = t /\ inbox' = inbox
        ELSE Swept(ParentHook(t, j), inbox \cup ChildDone(t, {j}, status),
                   j, job[j].opt.remove_on_fail)

\* Mutant of FailStatuses: off by one.
FailStatusesOneMore(r) ==
    IF r.made >= job[r.job].opt.max_attempts THEN {"dead"} ELSE {"delayed", "dead"}

\* The handler threw: executeJob decides from the attempts_made it read when it
\* claimed the job, and an UnrecoverableError is never retried.
FailStatuses(r) ==
    IF r.made + 1 >= job[r.job].opt.max_attempts THEN {"dead"}
                                                 ELSE {"delayed", "dead"}

failJob(r) ==
    /\ r.phase = "run"
    /\ Owns(r)
    /\ \E status \in FailStatuses(r) : FailedWith(r.job, status)
    /\ runs' = runs \ {r}
    /\ UNCHANGED next_id

\* 30s after the timeout's abort: the job is marked dead while its handler runs
\* on.
ForceEvict(r) ==
    /\ r.phase = "run"
    /\ job[r.job].opt.timeout
    /\ Owns(r)
    /\ job[r.job].due
    /\ FailedWith(r.job, "dead")
    /\ UNCHANGED <<next_id, runs>>

\* A handler returns or throws after its job was taken away: completeJob and
\* failJob match no row.
Dropped(r) ==
    /\ r.phase = "run"
    /\ ~Owns(r)
    /\ runs' = runs \ {r}
    /\ UNCHANGED <<job, next_id, inbox>>

\* Mutant of Holds: the lock_token comparison is dropped.
HoldsRow(r) == Exists(job, r.job)

\* handleQuietHoursDefer compares lock_token and nothing else.
Holds(r) == Exists(job, r.job) /\ job[r.job].token = r.token

QuietDefer(r) ==
    /\ r.phase = "defer"
    /\ job' = IF Holds(r) THEN Put(job, {r.job}, "delayed") ELSE job
    /\ runs' = runs \ {r}
    /\ UNCHANGED <<next_id, inbox>>

\* 'skip' is two statements: give the lock up, then cancel whatever is there.
QuietRelease(r) ==
    /\ r.phase = "skip"
    /\ job' = IF Holds(r) THEN [job EXCEPT ![r.job] = Unlocked(@)] ELSE job
    /\ runs' = (runs \ {r}) \cup {[r EXCEPT !.phase = "cancel"]}
    /\ UNCHANGED <<next_id, inbox>>

QuietCancel(r) ==
    /\ r.phase = "cancel"
    /\ \/ Cancelled(r.job)
       \/ /\ CancelSet(job, r.job) = {}
          /\ UNCHANGED <<job, inbox>>
    /\ runs' = runs \ {r}
    /\ UNCHANGED next_id

\* cancelJob threw: the row alone is marked, nobody is told.
QuietCancelError(r) ==
    /\ "cancel_error" \in Env
    /\ r.phase = "cancel"
    /\ job' = IF /\ Exists(job, r.job)
                 /\ job[r.job].status \notin {"completed", "failed", "dead"}
              THEN [job EXCEPT ![r.job].status = "cancelled"] ELSE job
    /\ runs' = runs \ {r}
    /\ UNCHANGED <<next_id, inbox>>

\* The worker process dies, or a statement of handleQuietHoursDefer throws.
Crash(r) ==
    /\ "crash" \in Env
    /\ runs' = runs \ {r}
    /\ UNCHANGED <<job, next_id, inbox>>
--------------------------------------------------------------------------------
(* The sweeps every worker runs on a timer.                                 *)

Stalled == {j \in Job : job[j].status = "active" /\ job[j].lock = "expired"}

\* Mutant of handleStalled: a stall also counts as a failed attempt.
handleStalledAsAttempt ==
    /\ Stalled # {}
    /\ job' = [j \in Job |->
                IF j \in Stalled
                THEN [Unlocked(job[j]) EXCEPT
                        !.stalled = @ + 1, !.made = @ + 1,
                        !.status = IF job[j].stalled + 1 < job[j].opt.max_stalled
                                   THEN "waiting" ELSE "dead"]
                ELSE job[j]]
    /\ UNCHANGED <<next_id, inbox, runs>>

\* A job at its max_stalled is dead-lettered; its parent is neither told nor
\* resolved.
handleStalled ==
    /\ Stalled # {}
    /\ job' = [j \in Job |->
                IF j \in Stalled
                THEN [Unlocked(job[j]) EXCEPT
                        !.stalled = @ + 1,
                        !.status = IF job[j].stalled + 1 < job[j].opt.max_stalled
                                   THEN "waiting" ELSE "dead"]
                ELSE job[j]]
    /\ UNCHANGED <<next_id, inbox, runs>>

\* Mutant of TimeOut: the outcome is written where the status belongs.
TimeOutStatus(S) ==
    /\ S # {}
    /\ LET t == Put(job, S, "timeout")
       IN  /\ job' = Resolve(t, ParentsOf(t, S))
           /\ inbox' = inbox \cup ChildDone(t, S, "timeout")
    /\ UNCHANGED <<next_id, runs>>

\* The jobs S are dead-lettered, their parents told and resolved.
TimeOut(S) ==
    /\ S # {}
    /\ LET t == Put(job, S, "dead")
       IN  /\ job' = Resolve(t, ParentsOf(t, S))
           /\ inbox' = inbox \cup ChildDone(t, S, "timeout")
    /\ UNCHANGED <<next_id, runs>>

handleTimeouts ==
    TimeOut({j \in Job : /\ job[j].status = "active"
                         /\ job[j].due
                         /\ job[j].lock = "live"})

\* Mutant of handleWallClockTimeouts: the lock must be live, as it must for
\* handleTimeouts.
wallClockIfLocked ==
    TimeOut({j \in Job : /\ job[j].status = "active"
                         /\ job[j].overdue
                         /\ job[j].lock = "live"})

handleWallClockTimeouts ==
    TimeOut({j \in Job : job[j].status = "active" /\ job[j].overdue})

\* Those of the delayed jobs whose delay_until has passed.
promoteDelayed ==
    \E S \in SUBSET {j \in Job : job[j].status = "delayed"} :
        /\ S # {}
        /\ job' = Put(job, S, "waiting")
        /\ UNCHANGED <<next_id, inbox, runs>>
--------------------------------------------------------------------------------
(* The clock.                                                               *)

LockExpires(j) ==
    /\ "lock_expires" \in Env
    /\ job[j].status = "active"
    /\ job[j].lock = "live"
    /\ job' = [job EXCEPT ![j].lock = "expired"]
    /\ UNCHANGED <<next_id, inbox, runs>>

DeadlinePasses(j) ==
    /\ job[j].status = "active"
    /\ job[j].opt.timeout
    /\ ~job[j].due
    /\ job' = [job EXCEPT ![j].due = TRUE]
    /\ UNCHANGED <<next_id, inbox, runs>>

\* The threshold is twice timeout_ms, or 2 * lockDuration * max_stalled, after
\* the first start: not before the deadline of the first claim.
AgePasses(j) ==
    /\ "age_passes" \in Env
    /\ Open(job, j)
    /\ job[j].started > 0
    /\ ~job[j].overdue
    /\ job[j].opt.timeout /\ job[j].started = 1 /\ job[j].status = "active"
         => job[j].due
    /\ job' = [job EXCEPT ![j].overdue = TRUE]
    /\ UNCHANGED <<next_id, inbox, runs>>
--------------------------------------------------------------------------------
Submission == \E o \in Options, p \in Job \cup {NoJob} : add(o, p)

Command(j) ==
    \/ cancelJob(j)
    \/ retryJob(j)
    \/ pauseJob(j)
    \/ resumeJob(j)
    \/ removeJob(j)
    \/ removeChildDependency(j)

\* What a live worker does next for a claim it carries ...
Progress(r) ==
    \/ completeJob(r)
    \/ failJob(r)
    \/ Dropped(r)
    \/ QuietDefer(r)
    \/ QuietRelease(r)
    \/ QuietCancel(r)
    \/ QuietCancelError(r)

\* ... and what happens to the claim meanwhile.
Meanwhile(r) ==
    \/ renewLock(r)
    \/ ForceEvict(r)
    \/ Crash(r)

Sweep ==
    \/ handleStalled
    \/ handleTimeouts
    \/ handleWallClockTimeouts
    \/ promoteDelayed

Clock(j) ==
    \/ LockExpires(j)
    \/ DeadlinePasses(j)
    \/ AgePasses(j)

Next ==
    \/ Submission
    \/ \E j \in Job : Command(j) \/ claim(j) \/ Clock(j)
    \/ \E r \in runs : Progress(r) \/ Meanwhile(r)
    \/ Sweep

Spec == Init /\ [][Next]_vars

\* Some worker is running: its poll loop claims and promotes, its timer sweeps,
\* and what it has claimed it answers for, unless it crashes.  Time passes for a
\* claim nobody carries any more.
Carried(j) == \E r \in runs : r.job = j

Orphaned(j) == ~Carried(j) /\ (LockExpires(j) \/ AgePasses(j))

Answer(j) == \E r \in runs : r.job = j /\ Progress(r)

Fairness ==
    /\ \A j \in Job : /\ WF_vars(claim(j))
                      /\ WF_vars(Answer(j))
                      /\ WF_vars(Orphaned(j))
    /\ WF_vars(handleStalled)
    /\ WF_vars(handleTimeouts)
    /\ WF_vars(handleWallClockTimeouts)
    /\ WF_vars(promoteDelayed)

FairSpec == Spec /\ Fairness
--------------------------------------------------------------------------------
(* What the queue promises.                                                 *)

TypeOK ==
    /\ job \in [Job -> Row]
    /\ next_id \in Nat
    /\ inbox \subseteq Message
    /\ runs \subseteq Run

\* The fence: the token on a row is its latest claim's or none, a worker never
\* holds a token that was not handed out, and no two live claims share one.  So
\* once a job has been claimed again, nothing the earlier worker sends can match.
Fenced ==
    /\ \A j \in Job : job[j].token \in {NoToken, job[j].started}
    /\ \A r \in runs : r.token \in 1..job[r.job].started
    /\ \A r, s \in runs : r.job = s.job /\ r.token = s.token => r = s

\* Every claim is accounted for at most once, as a failed attempt or as a stall,
\* and a claim still in force not yet.  (The schema's chk_attempts_order says
\* only attempts_made <= attempts_started.)
AttemptsAccounted ==
    \A j \in Job :
        job[j].made + job[j].stalled
            + (IF job[j].status = "active" THEN 1 ELSE 0) <= job[j].started

\* The attempts_made a worker decides retry-or-dead from, read when it claimed
\* the job, is still the row's when its answer is accepted.
SnapshotCurrent ==
    \A r \in runs : Owns(r) => r.made = job[r.job].made

\* No job fails more often than max_attempts, unless an operator retries it.
AttemptBudget ==
    \A j \in Job : job[j].made <= job[j].opt.max_attempts

\* A child that was dead-lettered because its worker stalled too often.
StalledOut(c) == job[c].stalled >= job[c].opt.max_stalled

\* The two ways a child ends behind its parent's back: the stall sweep, and the
\* fail_parent policy of one of its own children.
Unannounced(c) == StalledOut(c) \/ job[c].status = "failed"

\* A parent in waiting-children has an open child to wait for, unless a child
\* ended unannounced: every other transaction that ends a child resolves or
\* fails the parent with it.
ParentNotStranded ==
    \A p \in Job :
        /\ job[p].status = "waiting-children"
        /\ \A c \in Job : job[c].parent = p => ~Unannounced(c)
        => OpenChildren(job, p) # {}

\* The same without the exception, which is what the aggregator relies on.
ParentWaitsForSomeone ==
    \A p \in Job : job[p].status = "waiting-children" => OpenChildren(job, p) # {}

\* An open parent has been told of every child that ended, whichever
\* transaction ended it, unannounced ends excepted.
ChildDonePosted ==
    \A c \in Job :
        LET p == job[c].parent IN
        Ended(job, c) /\ ~Unannounced(c) /\ p # NoJob /\ Open(job, p)
        => \E m \in inbox : m.to = p /\ m.child = c

\* A job never has more open children than its max_children.
ChildrenCapped ==
    \A p \in Job :
        /\ Exists(job, p)
        /\ job[p].opt.max_children > 0
        => Cardinality(OpenChildren(job, p)) <= job[p].opt.max_children

\* A parent that a child has failed between its claim and the statement of its
\* quiet-hours gate: fail_parent leaves lock_token alone.
FailedWhileHeld(j) == job[j].status = "failed" /\ job[j].token # NoToken

\* A job that has ended stays as it ended until it is retried or removed: an
\* answer, a sweep or a gate that comes late does not revive it or rewrite it.
\* The one exception is the parent that still has its token: a deferral finds it.
EndedIsFinal ==
    [][\A j \in Job :
         Ended(job, j) => \/ job'[j].status \in {job[j].status, "none"}
                          \/ retryJob(j)
                          \/ FailedWhileHeld(j)]_vars

\* A job is not started while one of its children is open, so an aggregator
\* finds every child_done message in its inbox.
StartedAfterChildren ==
    [][\A j \in Job :
         job'[j].started > job[j].started => OpenChildren(job, j) = {}]_vars

\* Whatever cancels a job leaves none of its children open in that same step,
\* nor theirs.
CancelCascades ==
    [][\A p, c \in Job :
         /\ Open(job, p) /\ job'[p].status = "cancelled"
         /\ job[c].parent = p
         => ~Open(job', c)]_vars

\* timeout_ms is terminal: a job whose deadline has passed while it was running
\* is not put back for another attempt.
TimeoutIsTerminal ==
    [][\A j \in Job :
         job[j].status = "active" /\ job[j].due => job'[j].status # "delayed"]_vars

\* Every job ends, although its worker may die at any point, the two statements
\* of a quiet-hours skip included; a parent may instead be left with a child
\* that ended unannounced.
EveryJobEnds ==
    \A j \in Job :
        Open(job, j) ~> \/ ~Open(job, j)
                        \/ \E c \in Job : job[c].parent = j /\ Unannounced(c)
================================================================================
