----------------------------- MODULE FamilyProofs ------------------------------
(***************************************************************************)
(* Jobs that have ended, and families of jobs, for every set of ids, every *)
(* set of submissions and every depth: an end is final, no job is started  *)
(* before its children have ended, the cap on open children holds, and a   *)
(* parent neither waits for nobody nor misses the end of a child.          *)
(*                                                                         *)
(* As in MinionQueueProofs, a relation between tables says what an update  *)
(* may do, and each transaction is a sequence of updates in it.            *)
(***************************************************************************)
EXTENDS MinionQueueProofs, FiniteSetTheorems

(* Ends.                                                                   *)

\* Row b may replace row a without reviving it, and it ends, other than by
\* the fail_parent policy, only together with its lock.
KeepsEnd(a, b) ==
    /\ b.opt = a.opt
    /\ a.status = "none" => b.status = "none"
    /\ a.status \in Terminal => b.status \in {a.status, "none"}
    /\ b.status \in Terminal \ {"failed"} =>
         b.token = NoToken \/ (b.status = a.status /\ b.token = a.token)

KeepsEnds(t, u) ==
    /\ u \in [Job -> Row]
    /\ \A j \in Job : KeepsEnd(t[j], u[j])

\* What a claim does for quiet hours is what its job asks for; a job that has
\* ended has no token, unless fail_parent failed it or a skip was cut short.
QuietByOption ==
    \A r \in runs :
        /\ r.phase \in {"skip", "cancel"} => job[r.job].opt.quiet = "skip"
        /\ r.phase = "defer" => job[r.job].opt.quiet = "defer"

EndedUnlocked ==
    \A j \in Job :
        /\ job[j].status \in {"completed", "dead"} => job[j].token = NoToken
        /\ job[j].status = "cancelled" =>
             job[j].token = NoToken \/ job[j].opt.quiet = "skip"

EndInv == IInv /\ QuietByOption /\ EndedUnlocked

LEMMA PutKeepsEnds ==
    ASSUME NEW t \in [Job -> Row], NEW S \in SUBSET Job, NEW status \in Status,
           \A j \in S : Open(t, j)
    PROVE  KeepsEnds(t, Put(t, S, status))
<1> DEFINE u == Put(t, S, status)
<1>1. ASSUME NEW j \in Job
      PROVE  u[j] \in Row /\ KeepsEnd(t[j], u[j])
  <2> DEFINE row == [t[j] EXCEPT !.token = NoToken, !.lock = "null",
                                 !.status = status]
  <2>1. t[j] \in Row
    OBVIOUS
  <2>2. row \in Row /\ (Open(t, j) => KeepsEnd(t[j], row))
    BY <2>1 DEF KeepsEnd, Open, Row, NoToken, Terminal, Pending
  <2>3. u[j] = IF j \in S THEN row ELSE t[j]
    BY <2>1 DEF Put, Unlocked, Row
  <2>4. KeepsEnd(t[j], t[j])
    BY DEF KeepsEnd
  <2> QED
    BY <2>1, <2>2, <2>3, <2>4
<1>2. u = [j \in Job |-> u[j]]
  BY DEF Put
<1> QED
  BY <1>1, <1>2 DEF KeepsEnds

LEMMA ResolveKeepsEnds ==
    ASSUME NEW t \in [Job -> Row], NEW P
    PROVE  KeepsEnds(t, Resolve(t, P))
BY DEF KeepsEnds, KeepsEnd, Resolve, Row, Status, Terminal, Pending

LEMMA DeleteKeepsEnds ==
    ASSUME NEW t \in [Job -> Row], NEW S
    PROVE  KeepsEnds(t, Delete(t, S))
BY DEF KeepsEnds, KeepsEnd, Delete, Row, Status, Terminal, Pending, NoJob

LEMMA KeepsEndsTrans ==
    ASSUME NEW t, NEW u, NEW v, KeepsEnds(t, u), KeepsEnds(u, v)
    PROVE  KeepsEnds(t, v)
BY DEF KeepsEnds, KeepsEnd, Terminal, NoToken

LEMMA ParentHookKeepsEnds ==
    ASSUME NEW t \in [Job -> Row], NEW j \in Job
    PROVE  KeepsEnds(t, ParentHook(t, j))
<1> DEFINE p == t[j].parent
           u == [t EXCEPT ![j].parent = NoJob]
           f == [i \in Job |-> IF i = p /\ t[i].status = "waiting-children"
                               THEN [t[i] EXCEPT !.status = "failed"] ELSE t[i]]
<1>1. KeepsEnds(t, u) /\ u \in [Job -> Row]
  BY DEF KeepsEnds, KeepsEnd, Row, NoJob
<1>2. KeepsEnds(t, Resolve(u, {p}))
  BY <1>1, ResolveKeepsEnds, KeepsEndsTrans
<1>3. KeepsEnds(t, Resolve(t, {p}))
  BY ResolveKeepsEnds
<1>4. KeepsEnds(t, f)
  BY DEF KeepsEnds, KeepsEnd, Row, Status, Terminal, Pending
<1>5. ParentHook(t, j) \in {f, Resolve(u, {p}), Resolve(t, {p})}
  BY DEF ParentHook
<1> QED
  BY <1>2, <1>3, <1>4, <1>5

\* Ending open jobs, and then whatever follows for their parents.
LEMMA PutResolveKeepsEnds ==
    ASSUME NEW t \in [Job -> Row], NEW S \in SUBSET Job, NEW status \in Status, NEW P,
           \A j \in S : Open(t, j)
    PROVE  KeepsEnds(t, Resolve(Put(t, S, status), P))
<1>1. KeepsEnds(t, Put(t, S, status)) /\ Put(t, S, status) \in [Job -> Row]
  BY PutKeepsEnds DEF KeepsEnds
<1> QED
  BY <1>1, ResolveKeepsEnds, KeepsEndsTrans

LEMMA SweptKeepsEnds ==
    ASSUME NEW t \in [Job -> Row], NEW u, KeepsEnds(t, u), NEW box, NEW j, NEW remove,
           Swept(u, box, j, remove)
    PROVE  KeepsEnds(t, job')
<1>1. KeepsEnds(t, Delete(u, {j}))
  BY DeleteKeepsEnds, KeepsEndsTrans DEF KeepsEnds
<1> QED
  BY <1>1 DEF Swept

\* The transaction of failJob on a job in force.
LEMMA FailedWithKeepsEnds ==
    ASSUME IInv, NEW j \in Job, Open(job, j), NEW status \in {"delayed", "dead"},
           FailedWith(j, status)
    PROVE  KeepsEnds(job, job')
<1> DEFINE t == [Put(job, {j}, status) EXCEPT ![j].made = @ + 1]
<1>0. job \in [Job -> Row] /\ status \in Status
  BY DEF IInv, TypeOK, Status, Terminal, Pending
<1>1. KeepsEnds(job, Put(job, {j}, status))
  BY <1>0, PutKeepsEnds
<1>2. t \in [Job -> Row] /\ KeepsEnds(job, t)
  <2> DEFINE s == Put(job, {j}, status)
  <2>1. s \in [Job -> Row] /\ \A i \in Job : KeepsEnd(job[i], s[i])
    BY <1>1 DEF KeepsEnds
  <2> HIDE DEF s
  <2>2. s[j] \in Row /\ s[j].made \in Nat
    BY <2>1 DEF Row
  <2>3. [s[j] EXCEPT !.made = s[j].made + 1] \in Row
    BY <2>2 DEF Row
  <2>4. [s EXCEPT ![j].made = @ + 1] \in [Job -> Row]
    BY <2>1, <2>3
  <2>5. KeepsEnds(job, [s EXCEPT ![j].made = @ + 1])
    BY <2>1, <2>4 DEF KeepsEnds, KeepsEnd, Row
  <2> QED
    BY <2>4, <2>5 DEF s
<1> HIDE DEF t
<1>3. KeepsEnds(job, ParentHook(t, j))
  BY <1>2, ParentHookKeepsEnds, KeepsEndsTrans
<1>4. CASE status = "delayed"
  BY <1>2, <1>4 DEF FailedWith, t
<1>5. CASE status = "dead"
  <2>1. Swept(ParentHook(t, j), inbox \cup ChildDone(t, {j}, status), j, job[j].opt.remove_on_fail)
    BY <1>5 DEF FailedWith, t
  <2> QED
    BY <1>0, <1>3, <2>1, SweptKeepsEnds
<1> QED
  BY <1>4, <1>5
QuietOk(r) ==
    /\ r.phase \in {"skip", "cancel"} => job[r.job].opt.quiet = "skip"
    /\ r.phase = "defer" => job[r.job].opt.quiet = "defer"

\* What a step may do to a job that has ended.
FinalFor(j) ==
    Ended(job, j) => \/ job'[j].status \in {job[j].status, "none"}
                     \/ retryJob(j)
                     \/ FailedWhileHeld(j)

Final == EndInv' /\ \A j \in Job : FinalFor(j)

LEMMA KeepsEndsStep ==
    ASSUME EndInv, IInv', KeepsEnds(job, job'),
           \A r \in runs' : r \in runs \/ QuietOk(r)'
    PROVE  Final
<1>1. \A j \in Job : FinalFor(j)
  BY DEF FinalFor, Ended, KeepsEnds, KeepsEnd
<1>2. EndedUnlocked'
  BY DEF EndInv, EndedUnlocked, KeepsEnds, KeepsEnd, Terminal
<1>3. QuietByOption'
  <2>1. ASSUME NEW r \in runs', r \in runs
        PROVE  QuietOk(r)'
    <3>1. r.job \in Job /\ QuietOk(r)
      BY <2>1 DEF EndInv, QuietByOption, QuietOk, IInv, TypeOK, Run
    <3> QED
      BY <3>1 DEF QuietOk, KeepsEnds, KeepsEnd
  <2> QED
    BY <2>1 DEF QuietByOption, QuietOk
<1> QED
  BY <1>1, <1>2, <1>3 DEF Final, EndInv

LEMMA AddFinal ==
    ASSUME EndInv, IInv', NEW o \in Options, NEW p \in Job \cup {NoJob}, add(o, p)
    PROVE  Final
<1> DEFINE t == Inserted(job, next_id, o, p)
<1>0. job \in [Job -> Row] /\ next_id \in Job /\ job' = Suspend(t, p) /\ runs' = runs
  BY DEF add, EndInv, IInv, TypeOK
<1>1. job[next_id].status = "none" /\ job[next_id].started = 0
  BY <1>0, JobAssumption DEF EndInv, IInv, Fresh
<1>2. \A j \in Job \ {next_id} : t[j] = job[j]
  BY <1>0 DEF Inserted
<1>3. t[next_id].status \in {"waiting", "delayed"}
  BY <1>0 DEF Inserted, BlankRow
<1>4. \A j \in Job :
        /\ job'[j].opt = t[j].opt /\ job'[j].token = t[j].token
        /\ job'[j].status # t[j].status =>
             job'[j].status = "waiting-children" /\ t[j].status \in {"waiting", "active", "delayed"}
  <2>1. ASSUME NEW j \in Job, j # p \/ t[j].status \notin {"waiting", "active", "delayed"}
        PROVE  job'[j] = t[j]
    BY <1>0, <2>1 DEF Suspend
  <2>2. ASSUME NEW j \in Job, j = p, t[j].status \in {"waiting", "active", "delayed"}, j # next_id
        PROVE  /\ job'[j].opt = t[j].opt /\ job'[j].token = t[j].token
               /\ job'[j].status = "waiting-children"
    BY <1>0, <1>2, <2>2 DEF Suspend, Row
  <2>3. p # next_id
    BY <1>1, <1>0, JobAssumption DEF add, MayAdopt, Exists, NoJob
  <2> QED
    BY <2>1, <2>2, <2>3
<1> HIDE DEF t
<1>5. \A j \in Job : FinalFor(j)
  BY <1>1, <1>2, <1>4 DEF FinalFor, Ended, Terminal
<1>6. EndedUnlocked'
  BY <1>1, <1>2, <1>3, <1>4 DEF EndInv, EndedUnlocked
<1>7. QuietByOption'
  <2>1. \A r \in runs : r.job \in Job /\ r.job # next_id
    BY <1>1 DEF EndInv, IInv, TypeOK, Run, Fenced
  <2> QED
    BY <1>0, <1>2, <1>4, <2>1 DEF EndInv, QuietByOption
<1> QED
  BY <1>5, <1>6, <1>7 DEF Final, EndInv

LEMMA ClaimFinal ==
    ASSUME EndInv, IInv', NEW j \in Job, claim(j)
    PROVE  Final
<1> DEFINE token == job[j].started + 1
           row == [job[j] EXCEPT !.status = "active", !.token = token,
                                 !.lock = "live", !.due = FALSE, !.started = token]
<1>0. /\ job \in [Job -> Row] /\ job' \in [Job -> Row]
      /\ job' = [job EXCEPT ![j] = row] /\ job[j].status = "waiting"
  BY DEF claim, Claimable, EndInv, IInv, TypeOK
<1>1. row.status = "active" /\ row.opt = job[j].opt
  BY <1>0 DEF Row
<1> HIDE DEF row
<1>2. KeepsEnds(job, job')
  BY <1>0, <1>1 DEF KeepsEnds, KeepsEnd, Terminal
<1>3. PICK verdict \in Verdicts(job[j].opt) :
        runs' = runs \cup {[job |-> j, token |-> token,
                            made |-> job[j].made, phase |-> verdict]}
  BY DEF claim
<1>4. /\ verdict = "skip" => job[j].opt.quiet = "skip"
      /\ verdict = "defer" => job[j].opt.quiet = "defer"
      /\ verdict # "cancel"
  <2>1. job[j].opt.quiet \in {"none", "skip", "defer"}
    BY <1>0, OptionsAssumption DEF Row, OptionType
  <2> QED
    BY <1>3, <2>1 DEF Verdicts
<1>5. ASSUME NEW r \in runs'
      PROVE  r \in runs \/ QuietOk(r)'
  BY <1>0, <1>1, <1>3, <1>4 DEF QuietOk
<1> QED
  BY <1>2, <1>5, KeepsEndsStep

LEMMA CommandFinal ==
    ASSUME EndInv, IInv', NEW id \in Job, Command(id)
    PROVE  Final
<1>0. job \in [Job -> Row] /\ job' \in [Job -> Row]
  BY DEF EndInv, IInv, TypeOK
<1>1. CASE cancelJob(id)
  <2>1. CancelSet(job, id) \in SUBSET Job /\ \A j \in CancelSet(job, id) : Open(job, j)
    BY DEF CancelSet
  <2>2. KeepsEnds(job, job')
    BY <1>0, <1>1, <2>1, PutResolveKeepsEnds DEF cancelJob, Cancelled, Status, Terminal
  <2> QED
    BY <1>1, <2>2, KeepsEndsStep DEF cancelJob
<1>2. CASE retryJob(id)
  <2>1. /\ \A j \in Job \ {id} : job'[j] = job[j]
        /\ job'[id].status = "waiting" /\ job'[id].opt = job[id].opt
    BY ZenonT(60), <1>0, <1>2 DEF retryJob, Put, Unlocked, Row
  <2>2. \A j \in Job : FinalFor(j)
    BY <1>2, <2>1 DEF FinalFor
  <2>3. EndedUnlocked' /\ QuietByOption'
    BY ZenonT(60), <1>2, <2>1
       DEF EndInv, EndedUnlocked, QuietByOption, retryJob, IInv, TypeOK, Run
  <2> QED
    BY <2>2, <2>3 DEF Final, EndInv
<1>3. CASE pauseJob(id)
  <2>1. KeepsEnds(job, job')
    BY <1>0, <1>3, PutKeepsEnds DEF pauseJob, Open, Status, Pending
  <2> QED
    BY <1>3, <2>1, KeepsEndsStep DEF pauseJob
<1>4. CASE resumeJob(id)
  <2>1. KeepsEnds(job, job')
    BY <1>0, <1>4, PutKeepsEnds DEF resumeJob, Open, Status, Pending
  <2> QED
    BY <1>4, <2>1, KeepsEndsStep DEF resumeJob
<1>5. CASE removeJob(id)
  BY <1>0, <1>5, DeleteKeepsEnds, KeepsEndsStep DEF removeJob
<1>6. CASE removeChildDependency(id)
  <2>1. KeepsEnds(job, job')
    BY <1>0, <1>6 DEF removeChildDependency, KeepsEnds, KeepsEnd, Row
  <2> QED
    BY <1>6, <2>1, KeepsEndsStep DEF removeChildDependency
<1> QED
  BY <1>1, <1>2, <1>3, <1>4, <1>5, <1>6 DEF Command

LEMMA ClockFinal ==
    ASSUME EndInv, IInv', NEW j \in Job, Clock(j)
    PROVE  Final
<1>0. job \in [Job -> Row] /\ job' \in [Job -> Row]
  BY DEF EndInv, IInv, TypeOK
<1>1. KeepsEnds(job, job')
  BY <1>0 DEF Clock, LockExpires, DeadlinePasses, AgePasses, KeepsEnds, KeepsEnd, Row
<1> QED
  BY <1>1, KeepsEndsStep DEF Clock, LockExpires, DeadlinePasses, AgePasses

LEMMA SweepFinal ==
    ASSUME EndInv, IInv', Sweep
    PROVE  Final
<1>0. job \in [Job -> Row] /\ job' \in [Job -> Row]
  BY DEF EndInv, IInv, TypeOK
<1>1. ASSUME NEW S \in SUBSET Job, \A j \in S : job[j].status = "active", TimeOut(S)
      PROVE  Final
  <2>1. KeepsEnds(job, job')
    BY <1>0, <1>1, PutResolveKeepsEnds DEF TimeOut, Open, Status, Terminal, Pending
  <2> QED
    BY <1>1, <2>1, KeepsEndsStep DEF TimeOut
<1>2. CASE handleTimeouts
  BY <1>1, <1>2 DEF handleTimeouts
<1>3. CASE handleWallClockTimeouts
  BY <1>1, <1>3 DEF handleWallClockTimeouts
<1>4. CASE handleStalled
  <2> DEFINE next(j) == IF job[j].stalled + 1 < job[j].opt.max_stalled
                        THEN "waiting" ELSE "dead"
  <2>1. \A j \in Job :
          job'[j] = IF j \in Stalled THEN StalledRow(job[j], next(j)) ELSE job[j]
    BY <1>4 DEF handleStalled, StalledRow
  <2>2. \A j \in Job : next(j) \in {"waiting", "dead"}
    OBVIOUS
  <2> HIDE DEF next
  <2>3. ASSUME NEW j \in Job, j \in Stalled
        PROVE  /\ job'[j].status = next(j) /\ job'[j].token = NoToken
               /\ job'[j].opt = job[j].opt /\ job[j].status = "active"
    <3>1. job[j] \in Row /\ job[j].status = "active"
      BY <1>0, <2>3 DEF Stalled
    <3>2. /\ StalledRow(job[j], next(j)).status = next(j)
          /\ StalledRow(job[j], next(j)).token = NoToken
          /\ StalledRow(job[j], next(j)).opt = job[j].opt
      BY <3>1 DEF StalledRow, Unlocked, Row
    <3> QED
      BY <2>1, <2>3, <3>1, <3>2
  <2>4. ASSUME NEW j \in Job
        PROVE  KeepsEnd(job[j], job'[j])
    <3>1. CASE j \in Stalled
      BY <2>3, <3>1 DEF KeepsEnd, Terminal
    <3>2. CASE j \notin Stalled
      BY <2>1, <3>2 DEF KeepsEnd
    <3> QED
      BY <3>1, <3>2
  <2>5. KeepsEnds(job, job')
    BY <1>0, <2>4 DEF KeepsEnds
  <2> QED
    BY <1>4, <2>5, KeepsEndsStep DEF handleStalled
<1>5. CASE promoteDelayed
  <2>1. KeepsEnds(job, job')
    BY <1>0, <1>5, PutKeepsEnds DEF promoteDelayed, Open, Status, Pending
  <2> QED
    BY <1>5, <2>1, KeepsEndsStep DEF promoteDelayed
<1> QED
  BY <1>2, <1>3, <1>4, <1>5 DEF Sweep

LEMMA RunFinal ==
    ASSUME EndInv, IInv', NEW r \in runs, Progress(r) \/ Meanwhile(r)
    PROVE  Final
<1>0. /\ job \in [Job -> Row] /\ job' \in [Job -> Row]
      /\ r.job \in Job /\ r.token # NoToken /\ QuietOk(r) /\ IInv
  BY DEF EndInv, IInv, TypeOK, Run, Fenced, QuietByOption, QuietOk, NoToken
<1>1. ASSUME Owns(r)
      PROVE  Open(job, r.job)
  BY <1>1 DEF Owns, Open, Pending
<1>2. CASE completeJob(r)
  <2>1. LET t == Put(job, {r.job}, "completed")
        IN  KeepsEnds(job, Resolve(t, ParentsOf(t, {r.job})))
    BY <1>0, <1>1, <1>2, PutResolveKeepsEnds DEF completeJob, Status, Terminal
  <2>2. KeepsEnds(job, job')
    BY <1>0, <1>2, <2>1, SweptKeepsEnds DEF completeJob
  <2> QED
    BY <1>2, <2>2, KeepsEndsStep DEF completeJob, EndInv
<1>3. CASE failJob(r)
  <2>1. PICK status \in FailStatuses(r) : FailedWith(r.job, status)
    BY <1>3 DEF failJob
  <2>2. KeepsEnds(job, job')
    BY <1>0, <1>1, <1>3, <2>1, FailedWithKeepsEnds DEF failJob, FailStatuses
  <2> QED
    BY <1>3, <2>2, KeepsEndsStep DEF failJob, EndInv
<1>4. CASE ForceEvict(r)
  <2>1. KeepsEnds(job, job')
    BY <1>0, <1>1, <1>4, FailedWithKeepsEnds DEF ForceEvict
  <2> QED
    BY <1>4, <2>1, KeepsEndsStep DEF ForceEvict, EndInv
<1>5. CASE Dropped(r) \/ Crash(r)
  <2>1. KeepsEnds(job, job')
    BY <1>0, <1>5 DEF Dropped, Crash, KeepsEnds, KeepsEnd
  <2> QED
    BY <1>5, <2>1, KeepsEndsStep DEF Dropped, Crash, EndInv
<1>6. CASE renewLock(r)
  <2>1. KeepsEnds(job, job')
    BY <1>0, <1>6 DEF renewLock, KeepsEnds, KeepsEnd, Row
  <2> QED
    BY <1>6, <2>1, KeepsEndsStep DEF renewLock, EndInv
<1>7. CASE QuietDefer(r)
  <2>1. CASE ~Holds(r)
    <3>1. KeepsEnds(job, job')
      BY <1>0, <1>7, <2>1 DEF QuietDefer, KeepsEnds, KeepsEnd
    <3> QED
      BY <1>7, <3>1, KeepsEndsStep DEF QuietDefer, EndInv
  <2>2. CASE Holds(r) /\ Open(job, r.job)
    <3>1. KeepsEnds(job, job')
      BY <1>0, <1>7, <2>2, PutKeepsEnds DEF QuietDefer, Status, Pending
    <3> QED
      BY <1>7, <3>1, KeepsEndsStep DEF QuietDefer, EndInv
  <2>3. CASE Holds(r) /\ ~Open(job, r.job)
    <3>1. /\ \A j \in Job \ {r.job} : job'[j] = job[j]
          /\ job'[r.job].status = "delayed" /\ job'[r.job].opt = job[r.job].opt
      BY ZenonT(60), <1>0, <1>7, <2>3 DEF QuietDefer, Put, Unlocked, Row
    <3>2. FailedWhileHeld(r.job)
      BY <1>0, <1>7, <2>3
         DEF QuietDefer, QuietOk, Holds, Exists, Open, Status, Row, EndInv,
             EndedUnlocked, FailedWhileHeld, Terminal
    <3>3. \A j \in Job : FinalFor(j)
      BY <3>1, <3>2 DEF FinalFor
    <3>4. EndedUnlocked' /\ QuietByOption'
      BY ZenonT(60), <1>7, <3>1
         DEF EndInv, EndedUnlocked, QuietByOption, QuietDefer, IInv, TypeOK, Run
    <3> QED
      BY <3>3, <3>4 DEF Final, EndInv
  <2> QED
    BY <2>1, <2>2, <2>3
<1>8. CASE QuietRelease(r)
  <2>1. KeepsEnds(job, job')
    BY <1>0, <1>8 DEF QuietRelease, Unlocked, KeepsEnds, KeepsEnd, Row
  <2>2. job'[r.job].opt = job[r.job].opt
    BY <1>0, <2>1 DEF KeepsEnds, KeepsEnd
  <2>3. ASSUME NEW s \in runs'
        PROVE  s \in runs \/ QuietOk(s)'
    <3>1. r \in Run
      BY <1>0 DEF IInv, TypeOK
    <3> QED
      BY <1>0, <1>8, <2>2, <3>1 DEF QuietRelease, QuietOk, Run
  <2> QED
    BY <2>1, <2>3, KeepsEndsStep
<1>9. CASE QuietCancel(r)
  <2>1. CancelSet(job, r.job) \in SUBSET Job /\ \A j \in CancelSet(job, r.job) : Open(job, j)
    BY DEF CancelSet
  <2>2. CASE Cancelled(r.job)
    BY <1>0, <2>1, <2>2, PutResolveKeepsEnds, KeepsEndsStep, <1>9
       DEF QuietCancel, Cancelled, Status, Terminal, EndInv
  <2>3. CASE job' = job
    <3>1. KeepsEnds(job, job')
      BY <1>0, <2>3 DEF KeepsEnds, KeepsEnd
    <3> QED
      BY <1>9, <3>1, KeepsEndsStep DEF QuietCancel, EndInv
  <2> QED
    BY <1>9, <2>2, <2>3 DEF QuietCancel
<1>10. CASE QuietCancelError(r)
  <2>1. /\ \A j \in Job \ {r.job} : job'[j] = job[j]
        /\ job'[r.job].opt = job[r.job].opt
        /\ \/ job' = job
           \/ /\ job'[r.job].status = "cancelled"
              /\ job[r.job].status \notin {"completed", "failed", "dead"}
    BY <1>0, <1>10 DEF QuietCancelError, Row
  <2>2. job[r.job].opt.quiet = "skip"
    BY <1>0, <1>10 DEF QuietCancelError, QuietOk
  <2>3. \A j \in Job : FinalFor(j)
    BY <2>1 DEF FinalFor, Ended, Terminal
  <2>4. EndedUnlocked' /\ QuietByOption'
    BY <1>10, <2>1, <2>2
       DEF EndInv, EndedUnlocked, QuietByOption, QuietCancelError, IInv, TypeOK, Run
  <2> QED
    BY <2>3, <2>4 DEF Final, EndInv
<1> QED
  BY <1>2, <1>3, <1>4, <1>5, <1>6, <1>7, <1>8, <1>9, <1>10 DEF Progress, Meanwhile

LEMMA NextFinal ==
    ASSUME EndInv, IInv', [Next]_vars
    PROVE  Final
<1>1. CASE Submission
  BY <1>1, AddFinal DEF Submission
<1>2. CASE \E j \in Job : Command(j) \/ claim(j) \/ Clock(j)
  BY <1>2, CommandFinal, ClaimFinal, ClockFinal
<1>3. CASE \E r \in runs : Progress(r) \/ Meanwhile(r)
  BY <1>3, RunFinal
<1>4. CASE Sweep
  BY <1>4, SweepFinal
<1>5. CASE UNCHANGED vars
  <2>1. KeepsEnds(job, job')
    BY <1>5 DEF EndInv, IInv, TypeOK, vars, KeepsEnds, KeepsEnd
  <2> QED
    BY <1>5, <2>1, KeepsEndsStep DEF vars
<1> QED
  BY <1>1, <1>2, <1>3, <1>4, <1>5 DEF Next

LEMMA InitEnd ==
    ASSUME Init, IInv
    PROVE  EndInv
BY OptionsAssumption DEF EndInv, QuietByOption, EndedUnlocked, Init, BlankRow

\* A job that has ended stays as it ended until it is retried or removed,
\* whatever its late worker, the sweeps and the gates still write.  The fences
\* of completeJob and failJob are not enough for it: the gate compares the token
\* alone, so it rests on every end but fail_parent's giving the lock up.
THEOREM EndedIsFinalHolds == Spec => EndedIsFinal
<1>1. Init => EndInv
  BY InitInv, InitEnd
<1>2. EndInv /\ [Next]_vars => IInv'
  BY NextInv DEF EndInv
<1>3. EndInv /\ [Next]_vars => Final
  BY <1>2, NextFinal
<1>4. EndInv /\ [Next]_vars => EndInv'
  BY <1>3 DEF Final
<1>5. EndInv /\ [Next]_vars =>
        [\A j \in Job :
           Ended(job, j) => \/ job'[j].status \in {job[j].status, "none"}
                            \/ retryJob(j)
                            \/ FailedWhileHeld(j)]_vars
  BY <1>3 DEF Final, FinalFor
<1> QED
  BY <1>1, <1>4, <1>5, PTL DEF Spec, EndedIsFinal
--------------------------------------------------------------------------------
(* What a step can be, for a family of jobs.                                *)

Ready == {"waiting", "active", "delayed"}

\* A row with open children may be put back among the ready ones: by a resume,
\* or by a deferral that finds its token still there.
MayBePutBack(row) == "resume" \in Env \/ row.opt.quiet = "defer"

\* Row b may replace row a without anything its family would notice.
SteadyRow(a, b) ==
    /\ b.opt = a.opt /\ b.parent = a.parent /\ b.depth = a.depth
    /\ b.made = a.made /\ b.stalled = a.stalled
    /\ b.started # a.started => a.status = "waiting"
    /\ b.status \in Pending <=> a.status \in Pending
    /\ a.status \notin Pending => b.status = a.status
    /\ b.status = "waiting-children" => a.status = "waiting-children"
    /\ b.status \in Ready => a.status \in Ready \/ MayBePutBack(a)

SteadyStep ==
    /\ \A j \in Job : SteadyRow(job[j], job'[j])
    /\ inbox' = inbox

\* The open jobs S end together, their parents are told and resolved; one
\* that completes may be removed at once, and a cancel takes a whole tree.
EndStep(S, status, outcome, j, remove) ==
    LET t == Put(job, S, status)
    IN  /\ \A i \in S : Open(job, i)
        /\ status = "cancelled" => \E id \in Job : S = CancelSet(job, id)
        /\ remove => S = {j} /\ status = "completed"
        /\ Swept(Resolve(t, ParentsOf(t, S)), inbox \cup ChildDone(t, S, outcome),
                 j, remove)

EndSome ==
    \E S \in SUBSET Job, status \in {"completed", "cancelled", "dead"},
       outcome \in Outcome, j \in Job, remove \in BOOLEAN :
       EndStep(S, status, outcome, j, remove)

\* An attempt at the job j fails: another is left only within the budget.
FailsAs(j, status) ==
    /\ job[j].status = "active"
    /\ status = "delayed" => job[j].made + 1 < job[j].opt.max_attempts
    /\ FailedWith(j, status)

FailOne == \E j \in Job, status \in {"delayed", "dead"} : FailsAs(j, status)

\* The row alone is marked cancelled.
MarkOne ==
    \E j \in Job :
        /\ "cancel_error" \in Env
        /\ Open(job, j)
        /\ job' = [job EXCEPT ![j].status = "cancelled"]
        /\ inbox' = inbox

\* A deferral finds the token of a job that fail_parent has ended.
ReopenOne ==
    \E j \in Job :
        /\ job[j].status = "failed"
        /\ job[j].opt.quiet = "defer"
        /\ job' = Put(job, {j}, "delayed")
        /\ inbox' = inbox

StepKind ==
    \/ SteadyStep /\ next_id' = next_id
    \/ \E o \in Options, p \in Job \cup {NoJob} : add(o, p)
    \/ /\ \/ EndSome
          \/ FailOne
          \/ handleStalled
          \/ \E j \in Job : retryJob(j) \/ removeJob(j) \/ removeChildDependency(j)
          \/ MarkOne
          \/ ReopenOne
       /\ next_id' = next_id

LEMMA SteadyPut ==
    ASSUME NEW t \in [Job -> Row], NEW S \in SUBSET Job, NEW status \in Pending,
           status # "waiting-children",
           \A j \in S : /\ Open(t, j)
                        /\ status \in Ready =>
                             t[j].status \in Ready \/ MayBePutBack(t[j])
    PROVE  \A j \in Job : SteadyRow(t[j], Put(t, S, status)[j])
<1>1. ASSUME NEW j \in Job
      PROVE  SteadyRow(t[j], Put(t, S, status)[j])
  <2> DEFINE row == [t[j] EXCEPT !.token = NoToken, !.lock = "null",
                                 !.status = status]
  <2>1. t[j] \in Row
    OBVIOUS
  <2>2. /\ row.opt = t[j].opt /\ row.parent = t[j].parent /\ row.made = t[j].made
        /\ row.depth = t[j].depth
        /\ row.stalled = t[j].stalled /\ row.started = t[j].started
        /\ row.status = status
    BY <2>1 DEF Row
  <2>3. Put(t, S, status)[j] = IF j \in S THEN row ELSE t[j]
    BY <2>1 DEF Put, Unlocked, Row
  <2> HIDE DEF row
  <2>4. SteadyRow(t[j], t[j])
    BY DEF SteadyRow
  <2>5. j \in S => SteadyRow(t[j], row)
    BY <2>2 DEF SteadyRow, Open
  <2> QED
    BY <2>3, <2>4, <2>5
<1> QED
  BY <1>1

LEMMA CancelledEnds ==
    ASSUME NEW id \in Job, Cancelled(id)
    PROVE  EndSome
<1>1. CancelSet(job, id) \in SUBSET Job /\ \A j \in CancelSet(job, id) : Open(job, j)
  BY DEF CancelSet
<1>2. EndStep(CancelSet(job, id), "cancelled", "cancelled", id, FALSE)
  BY <1>1 DEF Cancelled, EndStep, Swept
<1> QED
  BY <1>1, <1>2 DEF EndSome, Outcome

LEMMA TimeOutEnds ==
    ASSUME NEW S \in SUBSET Job, \A j \in S : job[j].status = "active", TimeOut(S)
    PROVE  EndSome
<1>1. PICK i \in S : TRUE
  BY DEF TimeOut
<1>2. EndStep(S, "dead", "timeout", i, FALSE)
  BY DEF TimeOut, EndStep, Swept, Open, Pending
<1> QED
  BY <1>2 DEF EndSome, Outcome

LEMMA CommandKind ==
    ASSUME IInv, NEW id \in Job, Command(id)
    PROVE  StepKind
<1>0. job \in [Job -> Row]
  BY DEF IInv, TypeOK
<1>1. CASE cancelJob(id)
  BY <1>1, CancelledEnds DEF cancelJob, StepKind
<1>2. CASE retryJob(id)
  BY <1>2 DEF retryJob, StepKind
<1>3. CASE removeJob(id)
  BY <1>3 DEF removeJob, StepKind
<1>4. CASE removeChildDependency(id)
  BY <1>4 DEF removeChildDependency, StepKind
<1>5. CASE pauseJob(id)
  <2>1. SteadyStep
    BY <1>0, <1>5, SteadyPut DEF pauseJob, SteadyStep, Open, Pending, Ready
  <2> QED
    BY <1>5, <2>1 DEF StepKind, pauseJob
<1>6. CASE resumeJob(id)
  <2>1. SteadyStep
    BY <1>0, <1>6, SteadyPut DEF resumeJob, SteadyStep, Open, Pending, MayBePutBack
  <2> QED
    BY <1>6, <2>1 DEF StepKind, resumeJob
<1> QED
  BY <1>1, <1>2, <1>3, <1>4, <1>5, <1>6 DEF Command

LEMMA ClaimKind ==
    ASSUME IInv, NEW j \in Job, claim(j)
    PROVE  StepKind
<1> DEFINE row == [job[j] EXCEPT !.status = "active", !.token = job[j].started + 1,
                                 !.lock = "live", !.due = FALSE,
                                 !.started = job[j].started + 1]
<1>1. /\ job \in [Job -> Row] /\ job[j].status = "waiting"
      /\ job' = [job EXCEPT ![j] = row]
      /\ inbox' = inbox /\ next_id' = next_id
  BY DEF claim, Claimable, IInv, TypeOK
<1>2. SteadyRow(job[j], row)
  BY <1>1 DEF Row, SteadyRow, Pending, Ready
<1> HIDE DEF row
<1>3. SteadyStep
  BY <1>1, <1>2 DEF SteadyStep, SteadyRow
<1> QED
  BY <1>1, <1>3 DEF StepKind

LEMMA ClockKind ==
    ASSUME IInv, NEW j \in Job, Clock(j)
    PROVE  StepKind
<1>1. SteadyStep
  BY DEF IInv, TypeOK, Clock, LockExpires, DeadlinePasses, AgePasses, SteadyStep,
         SteadyRow, Row
<1> QED
  BY <1>1 DEF StepKind, Clock, LockExpires, DeadlinePasses, AgePasses

LEMMA SweepKind ==
    ASSUME IInv, Sweep
    PROVE  StepKind
<1>1. CASE handleStalled
  BY <1>1 DEF handleStalled, StepKind
<1>2. CASE handleTimeouts \/ handleWallClockTimeouts
  <2>1. EndSome /\ next_id' = next_id
    BY <1>2, TimeOutEnds DEF handleTimeouts, handleWallClockTimeouts, TimeOut
  <2> QED
    BY <2>1 DEF StepKind
<1>3. CASE promoteDelayed
  <2>1. SteadyStep
    BY <1>3, SteadyPut DEF IInv, TypeOK, promoteDelayed, SteadyStep, Open, Pending, Ready
  <2> QED
    BY <1>3, <2>1 DEF StepKind, promoteDelayed
<1> QED
  BY <1>1, <1>2, <1>3 DEF Sweep

LEMMA RunKind ==
    ASSUME EndInv, NEW r \in runs, Progress(r) \/ Meanwhile(r)
    PROVE  StepKind
<1>0. /\ job \in [Job -> Row] /\ IInv
      /\ r.job \in Job /\ r.token # NoToken /\ QuietOk(r)
  BY DEF EndInv, IInv, TypeOK, Run, Fenced, QuietByOption, QuietOk, NoToken
<1>1. job[r.job].made \in Nat /\ job[r.job].opt \in OptionType
  BY <1>0, OptionsAssumption DEF Row
<1>2. CASE completeJob(r)
  <2>1. job[r.job].opt.remove_on_complete \in BOOLEAN
    BY <1>1 DEF OptionType
  <2>2. EndStep({r.job}, "completed", "complete", r.job,
                job[r.job].opt.remove_on_complete)
    BY <1>2 DEF completeJob, EndStep, Owns, Open, Pending
  <2>3. EndSome
    BY <1>0, <2>1, <2>2 DEF EndSome, Outcome
  <2> QED
    BY <1>2, <2>3 DEF StepKind, completeJob
<1>3. CASE failJob(r)
  <2>1. PICK status \in FailStatuses(r) : FailedWith(r.job, status)
    BY <1>3 DEF failJob
  <2>2. r.made = job[r.job].made /\ job[r.job].status = "active"
    BY <1>0, <1>3 DEF failJob, IInv, SnapshotCurrent, Owns
  <2>3. job[r.job].opt.max_attempts \in Nat
    BY <1>1 DEF OptionType
  <2>4. status = "delayed" => job[r.job].made + 1 < job[r.job].opt.max_attempts
    BY <1>1, <2>1, <2>2, <2>3 DEF FailStatuses
  <2>5. FailsAs(r.job, status) /\ status \in {"delayed", "dead"}
    BY <2>1, <2>2, <2>4 DEF FailsAs, FailStatuses
  <2> QED
    BY <1>0, <1>3, <2>5 DEF StepKind, FailOne, failJob
<1>4. CASE ForceEvict(r)
  <2>1. FailsAs(r.job, "dead")
    BY <1>4 DEF ForceEvict, FailsAs, Owns
  <2> QED
    BY <1>0, <1>4, <2>1 DEF StepKind, FailOne, ForceEvict
<1>5. CASE Dropped(r) \/ Crash(r) \/ renewLock(r)
  <2>1. SteadyStep
    BY <1>0, <1>5 DEF Dropped, Crash, renewLock, SteadyStep, SteadyRow, Row
  <2> QED
    BY <1>5, <2>1 DEF StepKind, Dropped, Crash, renewLock
<1>6. CASE QuietDefer(r)
  <2>1. CASE ~Holds(r)
    <3>1. SteadyStep
      BY <1>6, <2>1 DEF QuietDefer, SteadyStep, SteadyRow
    <3> QED
      BY <1>6, <3>1 DEF StepKind, QuietDefer
  <2>2. CASE Holds(r) /\ Open(job, r.job)
    <3>1. MayBePutBack(job[r.job])
      BY <1>0, <1>6 DEF QuietDefer, QuietOk, MayBePutBack
    <3>2. SteadyStep
      BY <1>0, <1>6, <2>2, <3>1, SteadyPut DEF QuietDefer, SteadyStep, Pending
    <3> QED
      BY <1>6, <3>2 DEF StepKind, QuietDefer
  <2>3. CASE Holds(r) /\ ~Open(job, r.job)
    <3>1. job[r.job].status = "failed" /\ job[r.job].opt.quiet = "defer"
      BY <1>0, <1>6, <2>3
         DEF QuietDefer, QuietOk, Holds, Exists, Open, Status, Row, EndInv,
             EndedUnlocked, Terminal
    <3>2. ReopenOne
      BY <1>0, <1>6, <2>3, <3>1 DEF QuietDefer, ReopenOne
    <3> QED
      BY <1>6, <3>2 DEF StepKind, QuietDefer
  <2> QED
    BY <2>1, <2>2, <2>3
<1>7. CASE QuietRelease(r)
  <2>1. SteadyStep
    BY <1>0, <1>7 DEF QuietRelease, Unlocked, SteadyStep, SteadyRow, Row
  <2> QED
    BY <1>7, <2>1 DEF StepKind, QuietRelease
<1>8. CASE QuietCancel(r)
  <2>1. CASE Cancelled(r.job)
    BY <1>0, <1>8, <2>1, CancelledEnds DEF QuietCancel, StepKind
  <2>2. CASE UNCHANGED <<job, inbox>>
    <3>1. SteadyStep
      BY <2>2 DEF SteadyStep, SteadyRow
    <3> QED
      BY <1>8, <3>1 DEF StepKind, QuietCancel
  <2> QED
    BY <1>8, <2>1, <2>2 DEF QuietCancel
<1>9. CASE QuietCancelError(r)
  <2>1. CASE Open(job, r.job)
    <3>1. MarkOne
      BY <1>0, <1>9, <2>1 DEF QuietCancelError, MarkOne, Exists, Open, Pending
    <3> QED
      BY <1>9, <3>1 DEF StepKind, QuietCancelError
  <2>2. CASE ~Open(job, r.job)
    <3>1. SteadyStep
      BY <1>0, <1>9, <2>2
         DEF QuietCancelError, SteadyStep, SteadyRow, Exists, Open, Pending, Ready,
             Row, Status, Terminal
    <3> QED
      BY <1>9, <3>1 DEF StepKind, QuietCancelError
  <2> QED
    BY <2>1, <2>2
<1> QED
  BY <1>2, <1>3, <1>4, <1>5, <1>6, <1>7, <1>8, <1>9 DEF Progress, Meanwhile

\* Every step is of one of the kinds.
LEMMA NextKind ==
    ASSUME EndInv, [Next]_vars
    PROVE  StepKind
<1>0. IInv
  BY DEF EndInv
<1>1. CASE Submission
  BY <1>1 DEF Submission, StepKind
<1>2. CASE \E j \in Job : Command(j) \/ claim(j) \/ Clock(j)
  BY <1>0, <1>2, CommandKind, ClaimKind, ClockKind
<1>3. CASE \E r \in runs : Progress(r) \/ Meanwhile(r)
  BY <1>3, RunKind
<1>4. CASE Sweep
  BY <1>0, <1>4, SweepKind
<1>5. CASE UNCHANGED vars
  BY <1>5 DEF vars, StepKind, SteadyStep, SteadyRow
<1> QED
  BY <1>1, <1>2, <1>3, <1>4, <1>5 DEF Next
--------------------------------------------------------------------------------
(* Families shrink, except by a submission, a retry or a reopening.         *)

\* Row b may replace row a without opening a job or giving it a parent.
CalmRow(a, b) ==
    /\ b.opt = a.opt /\ b.depth = a.depth
    /\ b.parent \in {NoJob, a.parent}
    /\ b.status \in Pending => a.status \in Pending
    /\ b.status = "failed" => a.status \in Pending \cup {"failed"}
    /\ a.status = "none" => b.status = "none"

\* A job becomes ready only when it has no open child.
Calm(t, u) ==
    /\ u \in [Job -> Row]
    /\ \A j \in Job :
        /\ CalmRow(t[j], u[j])
        /\ u[j].status \in Ready =>
             \/ t[j].status \in Ready
             \/ OpenChildren(u, j) = {}
             \/ MayBePutBack(t[j])

LEMMA CalmOpenChildren ==
    ASSUME NEW t, NEW u, Calm(t, u), NEW p \in Job
    PROVE  OpenChildren(u, p) \subseteq OpenChildren(t, p)
<1>1. p # NoJob
  BY JobAssumption DEF NoJob
<1> QED
  BY <1>1 DEF OpenChildren, Calm, CalmRow, Open

LEMMA CalmTrans ==
    ASSUME NEW t, NEW u, NEW v, Calm(t, u), Calm(u, v)
    PROVE  Calm(t, v)
<1>1. \A j \in Job : CalmRow(t[j], v[j])
  BY DEF Calm, CalmRow
<1>2. \A j \in Job : OpenChildren(v, j) \subseteq OpenChildren(u, j)
  BY CalmOpenChildren
<1>3. ASSUME NEW j \in Job, v[j].status \in Ready
      PROVE  \/ t[j].status \in Ready
             \/ OpenChildren(v, j) = {}
             \/ MayBePutBack(t[j])
  <2>1. MayBePutBack(u[j]) => MayBePutBack(t[j])
    BY DEF Calm, CalmRow, MayBePutBack
  <2> QED
    BY <1>2, <1>3, <2>1 DEF Calm
<1> QED
  BY <1>1, <1>3 DEF Calm

LEMMA SteadyCalm ==
    ASSUME IInv', SteadyStep
    PROVE  Calm(job, job')
BY DEF IInv, TypeOK, SteadyStep, SteadyRow, Calm, CalmRow, Pending

LEMMA PutCalm ==
    ASSUME NEW t \in [Job -> Row], NEW S \in SUBSET Job, NEW status \in Status,
           \A j \in S : Open(t, j),
           status \notin Ready \/ \A j \in S : t[j].status \in Ready
    PROVE  Calm(t, Put(t, S, status))
<1> DEFINE u == Put(t, S, status)
<1>1. ASSUME NEW j \in Job
      PROVE  /\ u[j] \in Row /\ CalmRow(t[j], u[j])
             /\ u[j].status \in Ready => t[j].status \in Ready
  <2> DEFINE row == [t[j] EXCEPT !.token = NoToken, !.lock = "null",
                                 !.status = status]
  <2>1. t[j] \in Row
    OBVIOUS
  <2>2. /\ row \in Row /\ row.status = status
        /\ Open(t, j) => CalmRow(t[j], row)
    BY <2>1 DEF CalmRow, Open, Row, NoToken, Pending
  <2>3. u[j] = IF j \in S THEN row ELSE t[j]
    BY <2>1 DEF Put, Unlocked, Row
  <2>4. CalmRow(t[j], t[j])
    BY DEF CalmRow
  <2> HIDE DEF row, u
  <2> QED
    BY <2>1, <2>2, <2>3, <2>4
<1>2. u = [j \in Job |-> u[j]]
  BY DEF Put
<1> QED
  BY <1>1, <1>2 DEF Calm

LEMMA ResolveCalm ==
    ASSUME NEW t \in [Job -> Row], NEW P
    PROVE  Calm(t, Resolve(t, P))
<1> DEFINE u == Resolve(t, P)
<1>1. ASSUME NEW j \in Job
      PROVE  /\ u[j] \in Row /\ CalmRow(t[j], u[j])
             /\ u[j] # t[j] => OpenChildren(t, j) = {}
  BY DEF CalmRow, Resolve, Row, Status, Terminal, Pending
<1>2. u = [j \in Job |-> u[j]]
  BY DEF Resolve
<1>3. ASSUME NEW p \in Job
      PROVE  OpenChildren(u, p) \subseteq OpenChildren(t, p)
  <2>1. p # NoJob
    BY JobAssumption DEF NoJob
  <2> HIDE DEF u
  <2> QED
    BY <1>1, <2>1 DEF OpenChildren, CalmRow, Open
<1> HIDE DEF u
<1>4. Calm(t, u)
  BY <1>1, <1>2, <1>3 DEF Calm
<1> QED
  BY <1>4 DEF u

LEMMA DeleteCalm ==
    ASSUME NEW t \in [Job -> Row], NEW S
    PROVE  Calm(t, Delete(t, S))
BY DEF Calm, CalmRow, Delete, Row, Status, Terminal, Pending, NoJob, Ready

LEMMA SweptCalm ==
    ASSUME NEW t \in [Job -> Row], NEW u, Calm(t, u), NEW box, NEW j, NEW remove,
           Swept(u, box, j, remove)
    PROVE  Calm(t, job')
<1>1. Calm(t, Delete(u, {j}))
  BY DeleteCalm, CalmTrans DEF Calm
<1> QED
  BY <1>1 DEF Swept

LEMMA ParentHookCalm ==
    ASSUME NEW t \in [Job -> Row], NEW j \in Job
    PROVE  Calm(t, ParentHook(t, j))
<1> DEFINE p == t[j].parent
           u == [t EXCEPT ![j].parent = NoJob]
           f == [i \in Job |-> IF i = p /\ t[i].status = "waiting-children"
                               THEN [t[i] EXCEPT !.status = "failed"] ELSE t[i]]
<1>1. Calm(t, u) /\ u \in [Job -> Row]
  BY DEF Calm, CalmRow, Row, NoJob
<1>2. Calm(t, Resolve(u, {p}))
  BY <1>1, ResolveCalm, CalmTrans
<1>3. Calm(t, Resolve(t, {p}))
  BY ResolveCalm
<1>4. Calm(t, f)
  BY DEF Calm, CalmRow, Row, Status, Terminal, Pending, Ready
<1>5. ParentHook(t, j) \in {f, Resolve(u, {p}), Resolve(t, {p})}
  BY DEF ParentHook
<1> QED
  BY <1>2, <1>3, <1>4, <1>5

\* The table after an attempt at job j has failed.
FailedTable(j, status) == [Put(job, {j}, status) EXCEPT ![j].made = @ + 1]

LEMMA FailedTableIs ==
    ASSUME IInv, NEW j \in Job, NEW status \in Status
    PROVE  LET t == FailedTable(j, status)
           IN  /\ t \in [Job -> Row]
               /\ \A i \in Job \ {j} : t[i] = job[i]
               /\ t[j].status = status /\ t[j].opt = job[j].opt
               /\ t[j].parent = job[j].parent /\ t[j].stalled = job[j].stalled
               /\ t[j].depth = job[j].depth
               /\ t[j].started = job[j].started /\ t[j].made = job[j].made + 1
<1> DEFINE s == Put(job, {j}, status)
<1>0. job \in [Job -> Row]
  BY DEF IInv, TypeOK
<1>1. /\ s \in [Job -> Row]
      /\ \A i \in Job \ {j} : s[i] = job[i]
      /\ s[j].status = status /\ s[j].opt = job[j].opt
      /\ s[j].parent = job[j].parent /\ s[j].stalled = job[j].stalled
      /\ s[j].depth = job[j].depth
      /\ s[j].started = job[j].started /\ s[j].made = job[j].made
  BY ZenonT(60), <1>0 DEF Put, Unlocked, Row, NoToken
<1> HIDE DEF s
<1>2. s[j] \in Row /\ s[j].made \in Nat
  BY <1>1 DEF Row
<1>3. [s EXCEPT ![j].made = @ + 1] \in [Job -> Row]
  BY <1>1, <1>2 DEF Row
<1> QED
  BY <1>1, <1>2, <1>3 DEF FailedTable, s, Row

LEMMA FailedTableCalm ==
    ASSUME IInv, NEW j \in Job, job[j].status = "active", NEW status \in {"delayed", "dead"}
    PROVE  Calm(job, FailedTable(j, status))
<1> DEFINE t == FailedTable(j, status)
<1>1. /\ t \in [Job -> Row]
      /\ \A i \in Job \ {j} : t[i] = job[i]
      /\ t[j].status = status /\ t[j].opt = job[j].opt
      /\ t[j].parent = job[j].parent /\ t[j].started = job[j].started
      /\ t[j].depth = job[j].depth
  BY FailedTableIs DEF Status, Terminal, Pending
<1> HIDE DEF t
<1>2. Calm(job, t)
  BY <1>1 DEF Calm, CalmRow, Pending, Ready
<1> QED
  BY <1>2 DEF t

\* What failJob's transaction does, in two cases.
LEMMA FailsAsIs ==
    ASSUME NEW j \in Job, NEW status \in {"delayed", "dead"}, FailsAs(j, status)
    PROVE  LET t == FailedTable(j, status)
           IN  \/ status = "delayed" /\ job' = t /\ inbox' = inbox
               \/ /\ status = "dead"
                  /\ Swept(ParentHook(t, j), inbox \cup ChildDone(t, {j}, status),
                           j, job[j].opt.remove_on_fail)
BY DEF FailsAs, FailedWith, FailedTable

LEMMA FailCalm ==
    ASSUME IInv, NEW j \in Job, NEW status \in {"delayed", "dead"}, FailsAs(j, status)
    PROVE  Calm(job, job')
<1> DEFINE t == FailedTable(j, status)
<1>1. Calm(job, t) /\ t \in [Job -> Row]
  BY FailedTableCalm DEF FailsAs, Calm
<1>2. \/ job' = t
      \/ Swept(ParentHook(t, j), inbox \cup ChildDone(t, {j}, status),
               j, job[j].opt.remove_on_fail)
  BY FailsAsIs
<1> HIDE DEF t
<1>3. Calm(job, ParentHook(t, j))
  BY <1>1, ParentHookCalm, CalmTrans
<1> QED
  BY <1>1, <1>2, <1>3, SweptCalm DEF IInv, TypeOK

LEMMA EndCalm ==
    ASSUME IInv, EndSome
    PROVE  Calm(job, job')
<1>1. PICK S \in SUBSET Job, status \in {"completed", "cancelled", "dead"},
           outcome \in Outcome, j \in Job, remove \in BOOLEAN :
           EndStep(S, status, outcome, j, remove)
  BY DEF EndSome
<1> DEFINE t == Put(job, S, status)
           u == Resolve(t, ParentsOf(t, S))
<1>2. job \in [Job -> Row]
  BY DEF IInv, TypeOK
<1>3. Calm(job, t) /\ t \in [Job -> Row]
  BY <1>1, <1>2, PutCalm DEF EndStep, Ready, Status, Terminal, Calm
<1>4. Swept(u, inbox \cup ChildDone(t, S, outcome), j, remove)
  BY <1>1 DEF EndStep
<1> HIDE DEF t
<1>5. Calm(job, u)
  BY <1>3, ResolveCalm, CalmTrans
<1> HIDE DEF u
<1> QED
  BY <1>2, <1>4, <1>5, SweptCalm

\* What the stall sweep does to a row.
LEMMA StalledRowIs ==
    ASSUME IInv, handleStalled, NEW j \in Job
    PROVE  \/ job'[j] = job[j]
           \/ /\ job[j].status = "active"
              /\ \/ job'[j].status = "waiting"
                 \/ job'[j].status = "dead" /\ job'[j].stalled >= job[j].opt.max_stalled
              /\ job'[j].opt = job[j].opt /\ job'[j].parent = job[j].parent
              /\ job'[j].depth = job[j].depth
              /\ job'[j].started = job[j].started /\ job'[j].made = job[j].made
              /\ job'[j].stalled >= job[j].stalled
<1> DEFINE next == IF job[j].stalled + 1 < job[j].opt.max_stalled
                   THEN "waiting" ELSE "dead"
<1>1. job[j] \in Row
  BY DEF IInv, TypeOK
<1>2. job[j].stalled \in Nat /\ job[j].opt.max_stalled \in Nat
  BY <1>1, OptionsAssumption DEF Row, OptionType
<1>3. job'[j] = IF j \in Stalled
                THEN [Unlocked(job[j]) EXCEPT !.stalled = @ + 1, !.status = next]
                ELSE job[j]
  BY DEF handleStalled
<1>4. j \in Stalled =>
        /\ job[j].status = "active"
        /\ job'[j].status = next /\ job'[j].stalled = job[j].stalled + 1
        /\ job'[j].opt = job[j].opt /\ job'[j].parent = job[j].parent
        /\ job'[j].depth = job[j].depth
        /\ job'[j].started = job[j].started /\ job'[j].made = job[j].made
  <2> HIDE DEF next
  <2> QED
    BY <1>1, <1>3 DEF Stalled, Unlocked, Row
<1> QED
  BY <1>2, <1>3, <1>4

LEMMA StalledCalm ==
    ASSUME IInv, IInv', handleStalled
    PROVE  Calm(job, job')
<1>1. \A j \in Job : /\ CalmRow(job[j], job'[j])
                     /\ job'[j].status \in Ready => job[j].status \in Ready
  BY StalledRowIs DEF CalmRow, Pending, Ready
<1> QED
  BY <1>1 DEF Calm, IInv, TypeOK

LEMMA MarkCalm ==
    ASSUME IInv, IInv', MarkOne
    PROVE  Calm(job, job')
BY DEF IInv, TypeOK, MarkOne, Calm, CalmRow, Open, Ready, Pending, Row

LEMMA RemoveCalm ==
    ASSUME IInv, NEW j \in Job, removeJob(j)
    PROVE  Calm(job, job')
BY DeleteCalm DEF IInv, TypeOK, removeJob

LEMMA DetachCalm ==
    ASSUME IInv, NEW j \in Job, removeChildDependency(j)
    PROVE  Calm(job, job')
BY DEF IInv, TypeOK, removeChildDependency, Calm, CalmRow, Row, NoJob

\* Every other kind of step is calm.
LEMMA KindCalm ==
    ASSUME IInv, IInv', StepKind
    PROVE  \/ Calm(job, job') /\ next_id' = next_id
           \/ \E o \in Options, p \in Job \cup {NoJob} : add(o, p)
           \/ "retry" \in Env
           \/ \E o \in Options : o.quiet = "defer"
<1>1. CASE \E j \in Job : removeJob(j) \/ removeChildDependency(j)
  BY <1>1, RemoveCalm, DetachCalm DEF removeJob, removeChildDependency
<1>2. CASE \E j \in Job : retryJob(j)
  BY <1>2 DEF retryJob
<1>3. CASE ReopenOne
  BY <1>3 DEF ReopenOne, IInv, TypeOK, Row
<1>4. CASE FailOne
  BY <1>4, FailCalm DEF FailOne, StepKind, FailsAs
<1> QED
  BY <1>1, <1>2, <1>3, <1>4, SteadyCalm, EndCalm, StalledCalm, MarkCalm DEF StepKind
--------------------------------------------------------------------------------
(* The cap on open children, and starting after them.                       *)

\* A retry, and a deferral that finds the token of a job fail_parent has ended,
\* open a job again behind its parent's checks.
NothingReopened == "retry" \notin Env /\ \A o \in Options : o.quiet # "defer"

\* Nobody has a parent that was not submitted before.
ParentsHandedOut ==
    /\ next_id >= 1
    /\ \A j \in Job : job[j].parent < next_id

ReadyAlone == \A p \in Job : job[p].status \in Ready => OpenChildren(job, p) = {}

LEMMA AddIs ==
    ASSUME IInv, NEW o \in Options, NEW p \in Job \cup {NoJob}, add(o, p)
    PROVE  /\ next_id \in Job /\ next_id' = next_id + 1 /\ p # next_id
           /\ inbox' = inbox
           /\ job[next_id].status = "none"
           /\ job'[next_id].status \in {"waiting", "delayed"}
           /\ job'[next_id].parent = p /\ job'[next_id].opt = o
           /\ job'[next_id].depth = IF p = NoJob THEN 0 ELSE job[p].depth + 1
           /\ job'[next_id].made = 0 /\ job'[next_id].started = 0
           /\ job[next_id].started = 0
           /\ \A j \in Job \ {next_id} :
                /\ job'[j].parent = job[j].parent /\ job'[j].opt = job[j].opt
                /\ job'[j].depth = job[j].depth
                /\ job'[j].made = job[j].made /\ job'[j].started = job[j].started
                /\ job'[j].stalled = job[j].stalled
                /\ IF j = p /\ job[j].status \in Ready
                   THEN job'[j].status = "waiting-children"
                   ELSE job'[j] = job[j]
<1> DEFINE t == Inserted(job, next_id, o, p)
<1>1. /\ next_id \in Job /\ next_id' = next_id + 1 /\ inbox' = inbox
      /\ job' = Suspend(t, p) /\ job \in [Job -> Row]
  BY DEF add, IInv, TypeOK
<1>2. job[next_id].status = "none" /\ job[next_id].started = 0
  BY <1>1, JobAssumption DEF IInv, Fresh
<1>3. p # next_id
  BY <1>1, <1>2, JobAssumption DEF add, MayAdopt, Exists, NoJob
<1>4. \A j \in Job \ {next_id} : t[j] = job[j]
  BY <1>1 DEF Inserted
<1>5. /\ t[next_id].status \in {"waiting", "delayed"} /\ t[next_id].parent = p
      /\ t[next_id].depth = IF p = NoJob THEN 0 ELSE job[p].depth + 1
      /\ t[next_id].opt = o /\ t[next_id].made = 0 /\ t[next_id].started = 0
  BY <1>1 DEF Inserted, BlankRow
<1> HIDE DEF t
<1>6. \A j \in Job : job'[j] = IF j = p /\ t[j].status \in Ready
                               THEN [t[j] EXCEPT !.status = "waiting-children"] ELSE t[j]
  BY <1>1 DEF Suspend, Ready
<1>7. job'[next_id] = t[next_id]
  BY <1>1, <1>3, <1>6
<1>8. ASSUME NEW j \in Job \ {next_id}
      PROVE  /\ job'[j].parent = job[j].parent /\ job'[j].opt = job[j].opt
             /\ job'[j].depth = job[j].depth
             /\ job'[j].made = job[j].made /\ job'[j].started = job[j].started
             /\ job'[j].stalled = job[j].stalled
             /\ IF j = p /\ job[j].status \in Ready
                THEN job'[j].status = "waiting-children"
                ELSE job'[j] = job[j]
  <2>1. job[j] \in Row /\ t[j] = job[j]
    BY <1>1, <1>4
  <2>2. CASE j = p /\ job[j].status \in Ready
    <3>1. job'[j] = [job[j] EXCEPT !.status = "waiting-children"]
      BY <1>6, <2>1, <2>2
    <3> QED
      BY <2>1, <2>2, <3>1 DEF Row
  <2>3. CASE ~(j = p /\ job[j].status \in Ready)
    <3>1. job'[j] = job[j]
      BY <1>6, <2>1, <2>3
    <3> QED
      BY <2>3, <3>1
  <2> QED
    BY <2>2, <2>3
<1> QED
  BY <1>1, <1>2, <1>3, <1>5, <1>7, <1>8

\* A submission adds its own row to its parent's open children, and nobody has
\* the new job for a parent.
LEMMA AddOpenChildren ==
    ASSUME IInv, ParentsHandedOut, NEW o \in Options, NEW p \in Job \cup {NoJob},
           add(o, p), NEW q \in Job
    PROVE  /\ OpenChildren(job', q) \subseteq
                OpenChildren(job, q) \cup (IF q = p THEN {next_id} ELSE {})
           /\ q = next_id => OpenChildren(job', q) = {}
<1>0. q \in Nat \ {0} /\ next_id \in Nat
  BY JobAssumption DEF IInv, TypeOK
<1>1. ASSUME NEW c \in OpenChildren(job', q)
      PROVE  \/ c \in OpenChildren(job, q)
             \/ c = next_id /\ q = p
  <2>1. CASE c = next_id
    BY <2>1, AddIs DEF OpenChildren
  <2>2. CASE c # next_id
    <3>1. c \in Job /\ Open(job', c) /\ job[c].parent = q
      BY <2>2, AddIs DEF OpenChildren
    <3>2. Open(job, c)
      BY <2>2, <3>1, AddIs DEF Open, Pending, Ready
    <3> QED
      BY <3>1, <3>2 DEF OpenChildren
  <2> QED
    BY <2>1, <2>2
<1>2. q = next_id => OpenChildren(job, q) = {} /\ q # p
  <2>1. \A c \in Job : job[c].parent < next_id
    BY DEF ParentsHandedOut
  <2>2. \A c \in Job : job[c].parent # next_id
    BY <1>0, <2>1
  <2>3. p # next_id
    BY AddIs
  <2> QED
    BY <2>2, <2>3 DEF OpenChildren
<1> QED
  BY <1>1, <1>2

LEMMA AddParents ==
    ASSUME IInv, ParentsHandedOut, NEW o \in Options, NEW p \in Job \cup {NoJob}, add(o, p)
    PROVE  ParentsHandedOut'
<1>0. next_id \in Nat /\ (\A j \in Job : j \in Nat) /\ job \in [Job -> Row]
  BY JobAssumption DEF IInv, TypeOK
<1>1. p < next_id
  <2>1. CASE p = NoJob
    BY <1>0, <2>1 DEF NoJob, ParentsHandedOut
  <2>2. CASE p # NoJob
    <3>1. p \in Job /\ job[p].status # "none"
      BY <2>2 DEF add, MayAdopt, Exists
    <3> QED
      BY <1>0, <3>1 DEF IInv, Fresh
  <2> QED
    BY <2>1, <2>2
<1>2. /\ next_id' = next_id + 1 /\ job'[next_id].parent = p
      /\ \A j \in Job \ {next_id} : job'[j].parent = job[j].parent
  BY AddIs
<1>3. p \in Nat
  BY <1>0 DEF NoJob
<1>4. ASSUME NEW j \in Job
      PROVE  job'[j].parent < next_id + 1
  <2>1. CASE j = next_id
    BY <1>0, <1>1, <1>2, <1>3, <2>1
  <2>2. CASE j # next_id
    <3>1. job[j] \in Row /\ job[j].parent \in Nat
      BY <1>0 DEF Row, NoJob
    <3> QED
      BY <1>0, <1>2, <2>2, <3>1 DEF ParentsHandedOut
  <2> QED
    BY <2>1, <2>2
<1> QED
  BY <1>0, <1>2, <1>4 DEF ParentsHandedOut

LEMMA CalmParents ==
    ASSUME IInv, ParentsHandedOut, Calm(job, job'), next_id' = next_id
    PROVE  ParentsHandedOut'
BY DEF IInv, TypeOK, ParentsHandedOut, Calm, CalmRow, NoJob

LEMMA FiniteChildren ==
    ASSUME IInv, NEW p \in Job
    PROVE  IsFiniteSet(OpenChildren(job, p))
<1>1. next_id \in Nat /\ next_id - 1 \in Int
  BY DEF IInv, TypeOK
<1>2. ASSUME NEW c \in OpenChildren(job, p)
      PROVE  c \in 1..(next_id - 1)
  <2>1. c \in Nat \ {0} /\ c \in Job /\ job[c].status # "none"
    BY <1>2, JobAssumption DEF OpenChildren, Open, Pending
  <2>2. ~(c >= next_id)
    BY <2>1 DEF IInv, Fresh
  <2> QED
    BY <1>1, <2>1, <2>2
<1>3. IsFiniteSet(1..(next_id - 1))
  BY <1>1, FS_Interval
<1> QED
  BY <1>2, <1>3, FS_Subset

CapInv == EndInv /\ ParentsHandedOut /\ ChildrenCapped

LEMMA NextCap ==
    ASSUME NothingReopened, CapInv, [Next]_vars
    PROVE  CapInv'
<1>0. IInv /\ IInv' /\ EndInv' /\ StepKind
  BY NextInv, NextFinal, NextKind DEF CapInv, EndInv, Final
<1>1. ASSUME NEW p \in Job, job[p].opt.max_children > 0, Exists(job, p)
      PROVE  /\ IsFiniteSet(OpenChildren(job, p))
             /\ Cardinality(OpenChildren(job, p)) \in Nat
             /\ job[p].opt.max_children \in Nat
             /\ Cardinality(OpenChildren(job, p)) <= job[p].opt.max_children
  <2>1. job[p] \in Row /\ job[p].opt.max_children \in Nat
    BY <1>0, OptionsAssumption DEF IInv, TypeOK, Row, OptionType
  <2> QED
    BY <1>0, <1>1, <2>1, FiniteChildren, FS_CardinalityType DEF CapInv, ChildrenCapped
<1>2. CASE Calm(job, job') /\ next_id' = next_id
  <2>1. ASSUME NEW p \in Job, Exists(job', p), job'[p].opt.max_children > 0
        PROVE  Cardinality(OpenChildren(job', p)) <= job'[p].opt.max_children
    <3>1. Exists(job, p) /\ job'[p].opt = job[p].opt
      BY <1>2, <2>1 DEF Calm, CalmRow, Exists
    <3>2. OpenChildren(job', p) \subseteq OpenChildren(job, p)
      BY <1>2, CalmOpenChildren
    <3>3. /\ Cardinality(OpenChildren(job', p)) \in Nat
          /\ Cardinality(OpenChildren(job', p)) <= Cardinality(OpenChildren(job, p))
      BY <1>1, <2>1, <3>1, <3>2, FS_Subset, FS_CardinalityType
    <3> QED
      BY <1>1, <2>1, <3>1, <3>3
  <2> QED
    BY <1>0, <1>2, <2>1, CalmParents DEF CapInv, ChildrenCapped
<1>3. ASSUME NEW o \in Options, NEW p \in Job \cup {NoJob}, add(o, p)
      PROVE  CapInv'
  <2>0. ParentsHandedOut
    BY DEF CapInv
  <2>1. ASSUME NEW q \in Job, Exists(job', q), job'[q].opt.max_children > 0
        PROVE  Cardinality(OpenChildren(job', q)) <= job'[q].opt.max_children
    <3>1. CASE q = next_id
      <4>1. OpenChildren(job', q) = {} /\ job'[q].opt = o
        BY <1>0, <1>3, <2>0, <3>1, AddOpenChildren, AddIs
      <4>2. o.max_children \in Nat
        BY OptionsAssumption DEF OptionType
      <4> QED
        BY <4>1, <4>2, FS_EmptySet
    <3>2. CASE q # next_id
      <4>1. Exists(job, q) /\ job'[q].opt = job[q].opt
        BY <1>0, <1>3, <2>1, <3>2, AddIs DEF Exists, Ready
      <4>2. /\ IsFiniteSet(OpenChildren(job, q))
            /\ Cardinality(OpenChildren(job, q)) \in Nat
            /\ job[q].opt.max_children \in Nat
            /\ Cardinality(OpenChildren(job, q)) <= job[q].opt.max_children
        BY <1>1, <2>1, <4>1
      <4>3. CASE q # p
        <5>1. OpenChildren(job', q) \subseteq OpenChildren(job, q)
          BY <1>0, <1>3, <2>0, <4>3, AddOpenChildren
        <5>2. /\ Cardinality(OpenChildren(job', q)) \in Nat
              /\ Cardinality(OpenChildren(job', q)) <= Cardinality(OpenChildren(job, q))
          BY <4>2, <5>1, FS_Subset, FS_CardinalityType
        <5> QED
          BY <4>1, <4>2, <5>2
      <4>4. CASE q = p
        <5> DEFINE S == OpenChildren(job, q) \cup {next_id}
        <5>1. OpenChildren(job', q) \subseteq S
          BY <1>0, <1>3, <2>0, <4>4, AddOpenChildren
        <5>2. Cardinality(OpenChildren(job, q)) < job[q].opt.max_children
          <6>1. q # NoJob
            BY JobAssumption DEF NoJob
          <6>2. MayAdopt(q)
            BY <1>3, <4>4, <6>1 DEF add
          <6> QED
            BY <2>1, <4>1, <4>2, <6>2 DEF MayAdopt
        <5>3. /\ IsFiniteSet(S)
              /\ Cardinality(S) <= Cardinality(OpenChildren(job, q)) + 1
          <6> DEFINE O == OpenChildren(job, q)
          <6>1. IsFiniteSet(O) /\ Cardinality(O) \in Nat
            BY <4>2
          <6> HIDE DEF O
          <6>2. /\ IsFiniteSet(O \cup {next_id})
                /\ \/ Cardinality(O \cup {next_id}) = Cardinality(O)
                   \/ Cardinality(O \cup {next_id}) = Cardinality(O) + 1
            BY <6>1, FS_AddElement, Zenon
          <6>3. Cardinality(O \cup {next_id}) <= Cardinality(O) + 1
            BY <6>1, <6>2
          <6> QED
            BY <6>2, <6>3 DEF O
        <5>4. /\ Cardinality(OpenChildren(job', q)) \in Nat
              /\ Cardinality(OpenChildren(job', q)) <= Cardinality(S)
              /\ Cardinality(S) \in Nat
          BY <5>1, <5>3, FS_Subset, FS_CardinalityType
        <5> HIDE DEF S
        <5> QED
          BY <4>1, <4>2, <5>2, <5>3, <5>4
      <4> QED
        BY <4>3, <4>4
    <3> QED
      BY <3>1, <3>2
  <2> QED
    BY <1>0, <1>3, <2>0, <2>1, AddParents DEF CapInv, ChildrenCapped
<1> QED
  BY <1>0, <1>2, <1>3, KindCalm DEF NothingReopened

LEMMA InitCap ==
    ASSUME Init
    PROVE  CapInv
<1>1. EndInv
  BY InitInv, InitEnd
<1>2. ParentsHandedOut
  BY DEF Init, BlankRow, NoJob, ParentsHandedOut
<1>3. ChildrenCapped
  BY DEF Init, BlankRow, ChildrenCapped, Exists
<1> QED
  BY <1>1, <1>2, <1>3 DEF CapInv

\* A job never has more open children than its max_children: the cap that add()
\* checks against a count is not exceeded later, by a parent that has ended, say,
\* or whose children moved.  A retry opens a child without counting, so it is
\* left out.
THEOREM ChildrenCappedHolds ==
    ASSUME NothingReopened
    PROVE  Spec => []ChildrenCapped
<1>1. Init => CapInv
  BY InitCap
<1>2. CapInv /\ [Next]_vars => CapInv'
  BY NextCap
<1>3. CapInv => ChildrenCapped
  BY DEF CapInv
<1> QED
  BY <1>1, <1>2, <1>3, PTL DEF Spec

\* Steps of every kind but an attempt's failure keep the counts of starts and
\* attempts, a claim's start excepted.
Uncounted(j) ==
    /\ job'[j].made = job[j].made
    /\ job'[j].started # job[j].started => job[j].status = "waiting"

LEMMA EndUncounted ==
    ASSUME IInv, EndSome
    PROVE  \A j \in Job : Uncounted(j)
<1>1. PICK S \in SUBSET Job, status \in {"completed", "cancelled", "dead"},
           outcome \in Outcome, j \in Job, remove \in BOOLEAN :
           EndStep(S, status, outcome, j, remove)
  BY DEF EndSome
<1> DEFINE t == Put(job, S, status)
<1>2. Tame(job, Resolve(t, ParentsOf(t, S)))
  BY <1>1, PutResolveTame DEF EndStep, Open, Status, Terminal, Pending
<1>3. inbox \cup ChildDone(t, S, outcome) \subseteq Message
  BY ChildDoneType DEF IInv, TypeOK
<1>4. Tame(job, job')
  BY <1>1, <1>2, <1>3, SweptTame DEF EndStep
<1> QED
  BY <1>4 DEF Uncounted, Tame, TameRow

\* A failed attempt counts for its own job only.
LEMMA FailCounts ==
    ASSUME IInv, NEW j \in Job, NEW status \in {"delayed", "dead"}, FailsAs(j, status)
    PROVE  /\ \A i \in Job \ {j} : Uncounted(i)
           /\ job'[j].started = job[j].started /\ job'[j].made = job[j].made + 1
           /\ job'[j].status = "none" \/ job'[j].status = status
<1> DEFINE t == FailedTable(j, status)
           u == ParentHook(t, j)
           box == inbox \cup ChildDone(t, {j}, status)
<1>1. /\ t \in [Job -> Row] /\ \A i \in Job \ {j} : t[i] = job[i]
      /\ t[j].status = status
      /\ t[j].started = job[j].started /\ t[j].made = job[j].made + 1
  BY FailedTableIs DEF Status, Terminal, Pending
<1>2. \/ status = "delayed" /\ job' = t
      \/ status = "dead" /\ Swept(u, box, j, job[j].opt.remove_on_fail)
  BY FailsAsIs
<1> HIDE DEF t
<1>3. Tame(t, u) /\ u \in [Job -> Row]
  BY <1>1, ParentHookTame DEF Tame
<1>4. status = "dead" => u[j].status = "dead"
  BY <1>1 DEF u, ParentHook, Resolve, Row
<1> HIDE DEF u, box
<1>5. Tame(t, Delete(u, {j}))
  BY <1>1, <1>3, DeleteTame, TameTrans
<1>6. Tame(t, t)
  BY <1>1 DEF Tame, TameRow
<1>7. Tame(t, job')
  BY <1>2, <1>3, <1>5, <1>6 DEF Swept
<1>8. job'[j].status = "none" \/ job'[j].status = status
  BY <1>1, <1>2, <1>3, <1>4 DEF Swept, Delete, Row
<1> QED
  BY <1>1, <1>7, <1>8 DEF Uncounted, Tame, TameRow

LEMMA KindCounts ==
    ASSUME IInv, StepKind, ~FailOne, NEW j \in Job
    PROVE  Uncounted(j) \/ (job'[j].made = 0 /\ job'[j].started = job[j].started)
<1>0. job \in [Job -> Row]
  BY DEF IInv, TypeOK
<1>1. CASE SteadyStep
  BY <1>1 DEF SteadyStep, SteadyRow, Uncounted
<1>2. CASE \E o \in Options, p \in Job \cup {NoJob} : add(o, p)
  <2>1. PICK o \in Options, p \in Job \cup {NoJob} : add(o, p)
    BY <1>2
  <2>2. CASE j = next_id
    BY <2>1, <2>2, AddIs
  <2>3. CASE j # next_id
    BY <2>1, <2>3, AddIs DEF Uncounted
  <2> QED
    BY <2>2, <2>3
<1>3. CASE EndSome
  BY <1>3, EndUncounted
<1>4. CASE handleStalled
  <2>1. \/ job'[j] = job[j]
        \/ job'[j].started = job[j].started /\ job'[j].made = job[j].made
    BY <1>4, StalledRowIs
  <2> QED
    BY <2>1 DEF Uncounted
<1>5. CASE \E i \in Job : retryJob(i) \/ removeJob(i) \/ removeChildDependency(i)
  <2>1. PICK i \in Job : retryJob(i) \/ removeJob(i) \/ removeChildDependency(i)
    BY <1>5
  <2>2. job[j] \in Row
    BY <1>0
  <2>3. CASE retryJob(i)
    BY <2>2, <2>3 DEF retryJob, Put, Unlocked, Row, Uncounted
  <2>4. CASE removeJob(i)
    BY <2>2, <2>4 DEF removeJob, Delete, Row, Uncounted
  <2>5. CASE removeChildDependency(i)
    BY <1>0, <2>2, <2>5 DEF removeChildDependency, Row, Uncounted
  <2> QED
    BY <2>1, <2>3, <2>4, <2>5
<1>6. CASE MarkOne
  BY <1>0, <1>6 DEF MarkOne, Row, Uncounted
<1>7. CASE ReopenOne
  <2>1. job[j] \in Row
    BY <1>0
  <2>2. PICK i \in Job : job' = Put(job, {i}, "delayed")
    BY <1>7 DEF ReopenOne
  <2> QED
    BY <2>1, <2>2 DEF Put, Unlocked, Row, Uncounted
<1> QED
  BY <1>1, <1>2, <1>3, <1>4, <1>5, <1>6, <1>7 DEF StepKind

WaitInv == EndInv /\ ParentsHandedOut /\ ReadyAlone

LEMMA NextWait ==
    ASSUME NothingReopened, "resume" \notin Env, WaitInv, [Next]_vars
    PROVE  WaitInv'
<1>0. IInv /\ IInv' /\ EndInv' /\ StepKind
  BY NextInv, NextFinal, NextKind DEF WaitInv, EndInv, Final
<1>1. CASE Calm(job, job') /\ next_id' = next_id
  <2>1. ASSUME NEW p \in Job, job'[p].status \in Ready
        PROVE  OpenChildren(job', p) = {}
    <3>1. ~MayBePutBack(job[p])
      BY <1>0 DEF MayBePutBack, NothingReopened, IInv, TypeOK, Row
    <3>2. OpenChildren(job', p) \subseteq OpenChildren(job, p)
      BY <1>1, CalmOpenChildren
    <3> QED
      BY <1>1, <2>1, <3>1, <3>2 DEF Calm, WaitInv, ReadyAlone
  <2> QED
    BY <1>0, <1>1, <2>1, CalmParents DEF WaitInv, ReadyAlone
<1>2. ASSUME NEW o \in Options, NEW p \in Job \cup {NoJob}, add(o, p)
      PROVE  WaitInv'
  <2>0. ParentsHandedOut /\ ReadyAlone
    BY DEF WaitInv
  <2>1. ASSUME NEW q \in Job, job'[q].status \in Ready
        PROVE  OpenChildren(job', q) = {}
    <3>1. CASE q = next_id
      BY <1>0, <1>2, <2>0, <3>1, AddOpenChildren
    <3>2. CASE q # next_id
      <4>1. q # p /\ job[q].status \in Ready
        BY <1>0, <1>2, <2>1, <3>2, AddIs DEF Ready
      <4>2. OpenChildren(job', q) \subseteq OpenChildren(job, q)
        BY <1>0, <1>2, <2>0, <4>1, AddOpenChildren
      <4> QED
        BY <2>0, <4>1, <4>2 DEF ReadyAlone
    <3> QED
      BY <3>1, <3>2
  <2> QED
    BY <1>0, <1>2, <2>0, <2>1, AddParents DEF WaitInv, ReadyAlone
<1> QED
  BY <1>0, <1>1, <1>2, KindCalm DEF NothingReopened

LEMMA StartsAlone ==
    ASSUME WaitInv, [Next]_vars, NEW j \in Job, job'[j].started > job[j].started
    PROVE  OpenChildren(job, j) = {}
<1>0. IInv /\ StepKind
  BY NextKind DEF WaitInv, EndInv
<1>1. job[j] \in Row /\ job[j].started \in Nat
  BY <1>0 DEF IInv, TypeOK, Row
<1>2. CASE FailOne
  <2>1. PICK i \in Job, status \in {"delayed", "dead"} : FailsAs(i, status)
    BY <1>2 DEF FailOne
  <2>2. job'[i].started = job[i].started /\ \A k \in Job \ {i} : Uncounted(k)
    BY <1>0, <2>1, FailCounts
  <2>3. job[j].status = "waiting"
    BY <1>1, <2>2 DEF Uncounted
  <2> QED
    BY <2>3 DEF WaitInv, ReadyAlone, Ready
<1>3. CASE ~FailOne
  <2>1. job[j].status = "waiting"
    BY <1>0, <1>1, <1>3, KindCounts DEF Uncounted
  <2> QED
    BY <2>1 DEF WaitInv, ReadyAlone, Ready
<1> QED
  BY <1>2, <1>3

LEMMA InitWait ==
    ASSUME Init
    PROVE  WaitInv
<1>1. CapInv
  BY InitCap
<1>2. ReadyAlone
  BY DEF Init, BlankRow, ReadyAlone, Ready
<1> QED
  BY <1>1, <1>2 DEF CapInv, WaitInv

\* A job is never started while a child of it is open, so an aggregator finds
\* the end of every child in its inbox: a ready job has no open child, whoever
\* submits, cancels, times out or fails beneath it.  A resume does not look at
\* the children, nor does a retry or a deferral.
THEOREM StartedAfterChildrenHolds ==
    ASSUME NothingReopened, "resume" \notin Env
    PROVE  Spec => StartedAfterChildren
<1>1. Init => WaitInv
  BY InitWait
<1>2. WaitInv /\ [Next]_vars => WaitInv'
  BY NextWait
<1>3. WaitInv /\ [Next]_vars =>
        [\A j \in Job :
           job'[j].started > job[j].started => OpenChildren(job, j) = {}]_vars
  BY StartsAlone
<1> QED
  BY <1>1, <1>2, <1>3, PTL DEF Spec, StartedAfterChildren
--------------------------------------------------------------------------------
(* The budget of attempts.                                                  *)

\* A job that may still be claimed, now or after a deferral reopens it, has an
\* attempt left.
AttemptLeft ==
    \A j \in Job :
        job[j].status \in Pending \cup {"failed"} => job[j].made < job[j].opt.max_attempts

BudgetInv == EndInv /\ AttemptBudget /\ AttemptLeft

LEMMA NextBudget ==
    ASSUME "retry" \notin Env, BudgetInv, [Next]_vars
    PROVE  BudgetInv'
<1>0. IInv /\ IInv' /\ EndInv' /\ StepKind
  BY NextInv, NextFinal, NextKind DEF BudgetInv, EndInv, Final
<1>1. \A j \in Job : job[j].made \in Nat /\ job[j].opt.max_attempts \in Nat
  <2>1. \A j \in Job : job[j] \in Row
    BY <1>0 DEF IInv, TypeOK
  <2> QED
    BY <2>1, OptionsAssumption DEF Row, OptionType
<1>2. ASSUME NEW j \in Job, job'[j].made = 0, job'[j].opt \in Options
      PROVE  job'[j].made < job'[j].opt.max_attempts
  BY <1>2, OptionsAssumption DEF OptionType
<1>3. \A j \in Job : job'[j].opt \in Options
  BY <1>0 DEF IInv, TypeOK, Row
<1>4. CASE FailOne
  <2>1. PICK i \in Job, status \in {"delayed", "dead"} : FailsAs(i, status)
    BY <1>4 DEF FailOne
  <2>2. /\ Calm(job, job')
        /\ job'[i].made = job[i].made + 1 /\ \A k \in Job \ {i} : Uncounted(k)
        /\ job'[i].status \in {"none", status}
    BY <1>0, <2>1, FailCalm, FailCounts
  <2>3. job[i].made < job[i].opt.max_attempts
    BY <2>1 DEF BudgetInv, AttemptLeft, FailsAs, Pending
  <2>4. status = "delayed" => job[i].made + 1 < job[i].opt.max_attempts
    BY <2>1 DEF FailsAs
  <2>5. ASSUME NEW j \in Job
        PROVE  /\ job'[j].made <= job'[j].opt.max_attempts
               /\ job'[j].status \in Pending \cup {"failed"} =>
                    job'[j].made < job'[j].opt.max_attempts
    <3>1. CalmRow(job[j], job'[j])
      BY <2>2 DEF Calm
    <3>2. CASE j = i
      BY <1>1, <2>2, <2>3, <2>4, <3>1, <3>2 DEF CalmRow, Pending
    <3>3. CASE j # i
      <4>1. job'[j].made = job[j].made /\ job'[j].opt = job[j].opt
        BY <2>2, <3>1, <3>3 DEF Uncounted, CalmRow
      <4> QED
        BY <3>1, <4>1 DEF BudgetInv, AttemptBudget, AttemptLeft, CalmRow
    <3> QED
      BY <3>2, <3>3
  <2> QED
    BY <1>0, <2>5 DEF BudgetInv, AttemptBudget, AttemptLeft
<1>5. CASE ~FailOne
  <2>1. ASSUME NEW j \in Job, Uncounted(j), job'[j].opt = job[j].opt,
               job'[j].status \in Pending \cup {"failed"} =>
                 job[j].status \in Pending \cup {"failed"}
        PROVE  /\ job'[j].made <= job'[j].opt.max_attempts
               /\ job'[j].status \in Pending \cup {"failed"} =>
                    job'[j].made < job'[j].opt.max_attempts
    BY <2>1 DEF BudgetInv, AttemptBudget, AttemptLeft, Uncounted
  <2>2. ASSUME NEW j \in Job, job'[j].made = 0
        PROVE  /\ job'[j].made <= job'[j].opt.max_attempts
               /\ job'[j].made < job'[j].opt.max_attempts
    BY <1>2, <1>3, <2>2, OptionsAssumption DEF OptionType
  <2>3. ASSUME NEW j \in Job
        PROVE  \/ job'[j].made = 0
               \/ /\ job'[j].opt = job[j].opt
                  /\ job'[j].status \in Pending \cup {"failed"} =>
                       job[j].status \in Pending \cup {"failed"}
    <3>1. CASE Calm(job, job')
      BY <3>1 DEF Calm, CalmRow
    <3>2. CASE \E o \in Options, p \in Job \cup {NoJob} : add(o, p)
      BY <1>0, <3>2, AddIs DEF Ready, Pending
    <3>3. CASE ReopenOne
      <4>1. job[j] \in Row
        BY <1>0 DEF IInv, TypeOK
      <4>2. PICK i \in Job : job[i].status = "failed" /\ job' = Put(job, {i}, "delayed")
        BY <3>3 DEF ReopenOne
      <4> QED
        BY <4>1, <4>2 DEF Put, Unlocked, Row
    <3>4. CASE \E i \in Job : retryJob(i) \/ removeJob(i) \/ removeChildDependency(i)
      BY <1>0, <3>1, <3>4, RemoveCalm, DetachCalm DEF retryJob
    <3> QED
      BY <1>0, <1>5, <3>1, <3>2, <3>3, <3>4, SteadyCalm, EndCalm, StalledCalm, MarkCalm
         DEF StepKind
  <2>4. ASSUME NEW j \in Job
        PROVE  /\ job'[j].made <= job'[j].opt.max_attempts
               /\ job'[j].status \in Pending \cup {"failed"} =>
                    job'[j].made < job'[j].opt.max_attempts
    BY <1>0, <1>5, <2>1, <2>2, <2>3, KindCounts
  <2> QED
    BY <1>0, <2>4 DEF BudgetInv, AttemptBudget, AttemptLeft
<1> QED
  BY <1>4, <1>5

LEMMA InitBudget ==
    ASSUME Init
    PROVE  BudgetInv
<1>1. EndInv
  BY InitInv, InitEnd
<1>2. \A j \in Job : job[j].opt \in Options /\ job[j].made = 0
  BY OptionsAssumption DEF Init, BlankRow
<1>3. \A j \in Job : job[j].made < job[j].opt.max_attempts
  BY <1>2, OptionsAssumption DEF OptionType
<1>4. \A j \in Job : job[j].made <= job[j].opt.max_attempts
  BY <1>2, OptionsAssumption DEF OptionType
<1> QED
  BY <1>1, <1>3, <1>4 DEF BudgetInv, AttemptBudget, AttemptLeft

\* No job fails more often than max_attempts unless an operator retries it:
\* executeJob decides between a retry and the end from the count it read when
\* it claimed the job, and SnapshotCurrent is why that count is still the row's.
THEOREM AttemptBudgetHolds ==
    ASSUME "retry" \notin Env
    PROVE  Spec => []AttemptBudget
<1>1. Init => BudgetInv
  BY InitBudget
<1>2. BudgetInv /\ [Next]_vars => BudgetInv'
  BY NextBudget
<1>3. BudgetInv => AttemptBudget
  BY DEF BudgetInv
<1> QED
  BY <1>1, <1>2, <1>3, PTL DEF Spec

-----------------------------------------------------------------------------
(***************************************************************************)
(* What a parent is owed: it does not wait for nobody, and it is told of   *)
(* every child that ends. Both hold between transactions only: ending a    *)
(* child strands its parent until the same transaction resolves it. So the *)
(* lemmas follow a table through the updates of a transaction, and each    *)
(* says what the update may still owe to whom.                             *)
(***************************************************************************)

\* Unannounced, of a row.
Silent(row) == row.stalled >= row.opt.max_stalled \/ row.status = "failed"

StrandedIn(t, p) ==
    /\ t[p].status = "waiting-children"
    /\ OpenChildren(t, p) = {}
    /\ \A c \in Job : t[c].parent = p => ~Silent(t[c])

LEMMA NotStranded ==
    ParentNotStranded <=> \A p \in Job : ~StrandedIn(job, p)
BY DEF ParentNotStranded, StrandedIn, Silent, Unannounced, StalledOut

\* An update that keeps every child where it is strands nobody.
LEMMA KeptStrands ==
    ASSUME NEW t, NEW u, NEW p \in Job,
           u[p].status = "waiting-children" => t[p].status = "waiting-children",
           \A c \in Job :
             t[c].parent = p =>
               /\ u[c].parent = t[c].parent
               /\ Open(t, c) \/ Silent(t[c]) => Open(u, c) \/ Silent(u[c]),
           StrandedIn(u, p)
    PROVE  StrandedIn(t, p)
<1>1. \A c \in Job : t[c].parent = p => ~Open(t, c) /\ ~Silent(t[c])
  BY DEF StrandedIn, OpenChildren
<1> QED
  BY <1>1 DEF StrandedIn, OpenChildren

LEMMA ResolveIs ==
    ASSUME NEW t \in [Job -> Row], NEW P, NEW j \in Job
    PROVE  LET u == Resolve(t, P)
           IN  \/ u[j] = t[j]
               \/ /\ t[j].status = "waiting-children" /\ u[j].status = "waiting"
                  /\ u[j].parent = t[j].parent /\ u[j].opt = t[j].opt
                  /\ u[j].stalled = t[j].stalled
BY DEF Resolve, Row

\* Who is still stranded after Resolve was so before, and was not asked for.
LEMMA ResolveStrands ==
    ASSUME NEW t \in [Job -> Row], NEW P, NEW p \in Job, StrandedIn(Resolve(t, P), p)
    PROVE  StrandedIn(t, p) /\ p \notin P
<1> DEFINE u == Resolve(t, P)
<1>1. \A c \in Job :
        /\ u[c].parent = t[c].parent
        /\ Open(t, c) \/ Silent(t[c]) => Open(u, c) \/ Silent(u[c])
        /\ u[c].status = "waiting-children" => t[c].status = "waiting-children"
  BY ResolveIs DEF Open, Silent, Pending
<1>2. u[p] = IF /\ p \in P
                /\ t[p].status = "waiting-children"
                /\ OpenChildren(t, p) = {}
             THEN [t[p] EXCEPT !.status = "waiting"] ELSE t[p]
  BY DEF Resolve
<1> HIDE DEF u
<1>3. StrandedIn(u, p)
  BY DEF u
<1>4. StrandedIn(t, p)
  BY <1>1, <1>3, KeptStrands
<1>5. p \notin P
  BY <1>2, <1>3, <1>4 DEF StrandedIn, Row
<1> QED
  BY <1>4, <1>5

LEMMA PutIs ==
    ASSUME NEW t \in [Job -> Row], NEW S, NEW status, NEW j \in Job
    PROVE  LET u == Put(t, S, status)
           IN  IF j \in S
               THEN /\ u[j].status = status /\ u[j].opt = t[j].opt
                    /\ u[j].parent = t[j].parent /\ u[j].stalled = t[j].stalled
               ELSE u[j] = t[j]
<1>1. t[j] \in Row
  OBVIOUS
<1> QED
  BY <1>1 DEF Put, Unlocked, Row

\* Ending the jobs S strands their parents only.
LEMMA PutStrands ==
    ASSUME NEW t \in [Job -> Row], NEW S \in SUBSET Job, NEW status \in Terminal,
           NEW p \in Job, StrandedIn(Put(t, S, status), p),
           p \notin ParentsOf(Put(t, S, status), S)
    PROVE  StrandedIn(t, p)
<1> DEFINE u == Put(t, S, status)
<1>1. p # NoJob
  BY JobAssumption DEF NoJob
<1>2. \A c \in Job : u[c].parent = t[c].parent /\ (c \notin S => u[c] = t[c])
  BY PutIs
<1>3. p \notin S
  BY PutIs DEF StrandedIn, Terminal
<1>4. \A c \in Job : t[c].parent = p => c \notin S
  BY <1>1, <1>2 DEF ParentsOf
<1> HIDE DEF u
<1>5. StrandedIn(u, p)
  BY DEF u
<1> QED
  BY <1>2, <1>3, <1>4, <1>5, KeptStrands DEF Open

\* Removing a job that has ended strands nobody.
LEMMA DeleteStrands ==
    ASSUME NEW t \in [Job -> Row], NEW j \in Job, t[j].status \in {"completed", "dead"},
           NEW p \in Job, StrandedIn(Delete(t, {j}), p)
    PROVE  StrandedIn(t, p)
<1> DEFINE u == Delete(t, {j})
<1>1. \A c \in Job : t[c] \in Row
  OBVIOUS
<1>2. /\ u[j].status = "none" /\ u[j].parent = t[j].parent
      /\ u[j].opt = t[j].opt /\ u[j].stalled = t[j].stalled
  BY <1>1 DEF Delete, Row
<1>3. \A c \in Job \ {j} : /\ t[c].parent # j => u[c] = t[c]
                           /\ u[c].status = t[c].status
  BY <1>1 DEF Delete, Row
<1> HIDE DEF u
<1>4. StrandedIn(u, p)
  BY DEF u
<1>5. p # j
  BY <1>2, <1>4 DEF StrandedIn
<1>6. \A c \in Job :
        t[c].parent = p =>
          /\ u[c].parent = t[c].parent
          /\ Open(t, c) \/ Silent(t[c]) => Open(u, c) \/ Silent(u[c])
  BY <1>2, <1>3, <1>5 DEF Open, Silent, Pending
<1> QED
  BY <1>3, <1>4, <1>5, <1>6, KeptStrands
--------------------------------------------------------------------------------
(* The steps.                                                               *)

StrandInv == EndInv /\ ParentNotStranded

LEMMA EndStrands ==
    ASSUME IInv, ParentNotStranded, EndSome
    PROVE  ParentNotStranded'
<1>1. PICK S \in SUBSET Job, status \in {"completed", "cancelled", "dead"},
           outcome \in Outcome, j \in Job, remove \in BOOLEAN :
           EndStep(S, status, outcome, j, remove)
  BY DEF EndSome
<1> DEFINE t == Put(job, S, status)
           u == Resolve(t, ParentsOf(t, S))
<1>2. job \in [Job -> Row] /\ status \in Terminal
  BY DEF IInv, TypeOK, Terminal
<1>3. t \in [Job -> Row]
  BY <1>1, <1>2, PutCalm DEF EndStep, Ready, Status, Terminal, Calm
<1>4. ASSUME NEW p \in Job
      PROVE  ~StrandedIn(u, p)
  <2>1. SUFFICES ASSUME StrandedIn(u, p) PROVE FALSE
    OBVIOUS
  <2>2. StrandedIn(t, p) /\ p \notin ParentsOf(t, S)
    BY <1>3, <2>1, ResolveStrands
  <2>3. StrandedIn(job, p)
    BY <1>2, <2>2, PutStrands
  <2> QED
    BY <2>3, NotStranded
<1>5. u \in [Job -> Row]
  BY <1>3, ResolveCalm DEF Calm
<1>6. CASE ~remove
  <2>1. job' = u
    BY <1>1, <1>6 DEF EndStep, Swept
  <2> QED
    BY <1>4, <2>1 DEF ParentNotStranded, StrandedIn, Silent, Unannounced, StalledOut
<1>7. CASE remove
  <2>1. job' = Delete(u, {j}) /\ S = {j}
    BY <1>1, <1>7 DEF EndStep, Swept
  <2>2. u[j].status = status
    <3>1. t[j].status = status
      BY <1>2, <2>1, PutIs
    <3> QED
      BY <1>2, <1>3, <3>1, ResolveIs DEF Terminal
  <2>3. status = "completed"
    BY <1>1, <1>7 DEF EndStep
  <2>4. \A p \in Job : ~StrandedIn(job', p)
    BY <1>4, <1>5, <2>1, <2>2, <2>3, DeleteStrands
  <2> QED
    BY <2>4 DEF ParentNotStranded, StrandedIn, Silent, Unannounced, StalledOut
<1> QED
  BY <1>6, <1>7

\* Failing the parent, or resolving it, after its child has failed.
LEMMA HookStrands ==
    ASSUME IInv, ParentNotStranded, NEW j \in Job, job[j].status = "active",
           NEW p \in Job
    PROVE  ~StrandedIn(ParentHook(FailedTable(j, "dead"), j), p)
<1> DEFINE t == FailedTable(j, "dead")
           q == t[j].parent
           u == [t EXCEPT ![j].parent = NoJob]
           f == [i \in Job |-> IF i = q /\ t[i].status = "waiting-children"
                               THEN [t[i] EXCEPT !.status = "failed"] ELSE t[i]]
<1>0. ~StrandedIn(job, p) /\ p # NoJob
  BY NotStranded, JobAssumption DEF NoJob
<1>1. /\ t \in [Job -> Row]
      /\ \A i \in Job \ {j} : t[i] = job[i]
      /\ t[j].status = "dead" /\ t[j].opt = job[j].opt
      /\ t[j].parent = job[j].parent /\ t[j].stalled = job[j].stalled
  BY FailedTableIs DEF Status, Terminal, Pending
<1> HIDE DEF t
<1>2. ASSUME StrandedIn(t, p)
      PROVE  p = q
  <2>1. p # j
    BY <1>1, <1>2 DEF StrandedIn
  <2>2. CASE q # p
    <3>1. \A c \in Job : job[c].parent = p => c # j
      BY <1>1, <2>2
    <3> QED
      BY <1>0, <1>1, <1>2, <2>1, <3>1, KeptStrands DEF Open
  <2> QED
    BY <2>2
<1>3. ~StrandedIn(Resolve(t, {q}), p)
  BY <1>1, <1>2, ResolveStrands
<1>4. ~StrandedIn(Resolve(u, {q}), p)
  <2>1. u \in [Job -> Row] /\ \A i \in Job \ {j} : u[i] = job[i]
    BY <1>1 DEF Row
  <2>2. u[j].status = "dead" /\ u[j].parent = NoJob
    BY <1>1 DEF Row
  <2> HIDE DEF u
  <2>3. SUFFICES ASSUME StrandedIn(u, p), p # q PROVE FALSE
    BY <2>1, ResolveStrands
  <2>4. p # j
    BY <2>2, <2>3 DEF StrandedIn
  <2>5. \A c \in Job : job[c].parent = p => c # j
    BY <1>1, <2>3
  <2> QED
    BY <1>0, <2>1, <2>3, <2>4, <2>5, KeptStrands DEF Open
<1>5. ~StrandedIn(f, p)
  <2>1. SUFFICES ASSUME StrandedIn(f, p) PROVE FALSE
    OBVIOUS
  <2>2. ASSUME NEW c \in Job
        PROVE  \/ f[c] = t[c]
               \/ c = q /\ f[c].status = "failed" /\ f[c].parent = t[c].parent
    BY <1>1 DEF Row
  <2>3. f[q].status # "waiting-children" \/ q \notin Job
    BY <1>1 DEF Row
  <2> HIDE DEF f
  <2>4. p # q /\ f[p] = t[p] /\ p # j
    BY <1>1, <2>1, <2>2, <2>3 DEF StrandedIn
  <2>5. \A c \in Job : t[c].parent = p => f[c] = t[c]
    BY <2>1, <2>2 DEF StrandedIn, Silent
  <2>6. StrandedIn(t, p)
    BY <2>1, <2>4, <2>5, KeptStrands DEF Open
  <2> QED
    BY <1>2, <2>4, <2>6
<1>6. ParentHook(t, j) \in {f, Resolve(u, {q}), Resolve(t, {q})}
  BY DEF ParentHook
<1> QED
  BY <1>3, <1>4, <1>5, <1>6 DEF t

LEMMA FailStrands ==
    ASSUME IInv, ParentNotStranded, NEW j \in Job, NEW status \in {"delayed", "dead"},
           FailsAs(j, status)
    PROVE  ParentNotStranded'
<1> DEFINE t == FailedTable(j, status)
           u == ParentHook(t, j)
<1>1. job[j].status = "active"
  BY DEF FailsAs
<1>2. /\ t \in [Job -> Row]
      /\ \A i \in Job \ {j} : t[i] = job[i]
      /\ t[j].status = status /\ t[j].opt = job[j].opt
      /\ t[j].parent = job[j].parent /\ t[j].stalled = job[j].stalled
  BY FailedTableIs DEF Status, Terminal, Pending
<1>3. CASE status = "delayed"
  <2>1. job' = t
    BY <1>3, FailsAsIs
  <2>2. ASSUME NEW p \in Job, StrandedIn(t, p)
        PROVE  FALSE
    <3>1. \A c \in Job :
            /\ t[c].parent = job[c].parent
            /\ Open(job, c) \/ Silent(job[c]) => Open(t, c) \/ Silent(t[c])
            /\ t[c].status = "waiting-children" => job[c].status = "waiting-children"
      BY <1>2, <1>3 DEF Open, Silent, Pending
    <3> HIDE DEF t
    <3>2. StrandedIn(job, p)
      BY <2>2, <3>1, KeptStrands
    <3> QED
      BY <3>2, NotStranded
  <2> QED
    BY <2>1, <2>2 DEF ParentNotStranded, StrandedIn, Silent, Unannounced, StalledOut
<1>4. CASE status = "dead"
  <2>1. Swept(u, inbox \cup ChildDone(t, {j}, status), j, job[j].opt.remove_on_fail)
    BY <1>4, FailsAsIs
  <2>2. \A p \in Job : ~StrandedIn(u, p)
    BY <1>1, <1>4, HookStrands
  <2>3. u \in [Job -> Row] /\ u[j].status = "dead"
    <3> HIDE DEF t
    <3>1. u \in [Job -> Row]
      BY <1>2, ParentHookCalm DEF Calm
    <3>2. u[j].status = "dead"
      BY <1>2, <1>4 DEF ParentHook, Resolve, Row
    <3> QED
      BY <3>1, <3>2
  <2> HIDE DEF u
  <2>4. \A p \in Job : ~StrandedIn(job', p)
    BY <2>1, <2>2, <2>3, DeleteStrands DEF Swept
  <2> QED
    BY <2>4 DEF ParentNotStranded, StrandedIn, Silent, Unannounced, StalledOut
<1> QED
  BY <1>3, <1>4

LEMMA SteadyStrands ==
    ASSUME ParentNotStranded, SteadyStep
    PROVE  ParentNotStranded'
<1>1. ASSUME NEW p \in Job, StrandedIn(job', p)
      PROVE  FALSE
  <2>1. \A c \in Job :
          /\ job'[c].parent = job[c].parent
          /\ Open(job, c) \/ Silent(job[c]) => Open(job', c) \/ Silent(job'[c])
          /\ job'[c].status = "waiting-children" => job[c].status = "waiting-children"
    BY DEF SteadyStep, SteadyRow, Open, Silent, Pending
  <2>2. StrandedIn(job, p)
    BY <1>1, <2>1, KeptStrands
  <2> QED
    BY <2>2, NotStranded
<1> QED
  BY <1>1 DEF ParentNotStranded, StrandedIn, Silent, Unannounced, StalledOut

\* The sweep dead-letters a child behind its parent's back, and the count of
\* stalls says so.
LEMMA StalledStrands ==
    ASSUME IInv, IInv', ParentNotStranded, handleStalled
    PROVE  ParentNotStranded'
<1>1. ASSUME NEW p \in Job, StrandedIn(job', p)
      PROVE  FALSE
  <2>0. \A c \in Job : /\ job[c].stalled \in Nat /\ job[c].opt.max_stalled \in Nat
                       /\ job'[c].stalled \in Nat
    <3>1. \A c \in Job : job[c] \in Row /\ job'[c] \in Row
      BY DEF IInv, TypeOK
    <3> QED
      BY <3>1, OptionsAssumption DEF Row, OptionType
  <2>1. ASSUME NEW c \in Job
        PROVE  /\ job'[c].parent = job[c].parent
               /\ Open(job, c) \/ Silent(job[c]) => Open(job', c) \/ Silent(job'[c])
               /\ job'[c].status = "waiting-children" => job[c].status = "waiting-children"
    <3>1. CASE job'[c] = job[c]
      BY <3>1 DEF Open
    <3>2. CASE job'[c] # job[c]
      <4>1. /\ job'[c].parent = job[c].parent /\ job'[c].opt = job[c].opt
            /\ \/ job'[c].status = "waiting"
               \/ job'[c].status = "dead" /\ job'[c].stalled >= job[c].opt.max_stalled
        BY <3>2, StalledRowIs
      <4> QED
        BY <4>1 DEF Open, Silent, Pending
    <3> QED
      BY <3>1, <3>2
  <2>2. StrandedIn(job, p)
    BY <1>1, <2>1, KeptStrands
  <2> QED
    BY <2>2, NotStranded
<1> QED
  BY <1>1 DEF ParentNotStranded, StrandedIn, Silent, Unannounced, StalledOut

\* A submission gives its parent somebody to wait for.
LEMMA AddStrands ==
    ASSUME IInv, ParentNotStranded, NEW o \in Options, NEW q \in Job \cup {NoJob}, add(o, q)
    PROVE  ParentNotStranded'
<1>1. ASSUME NEW p \in Job, StrandedIn(job', p)
      PROVE  FALSE
  <2>1. p # NoJob /\ job[next_id].parent = NoJob /\ next_id \in Nat
    BY AddIs, JobAssumption DEF NoJob, IInv, TypeOK, Fresh
  <2>2. p # q
    <3>1. Open(job', next_id) /\ job'[next_id].parent = q
      BY AddIs DEF Open, Pending
    <3> QED
      BY <1>1, <3>1, AddIs DEF StrandedIn, OpenChildren
  <2>3. job[p].status = "waiting-children"
    <3>1. p # next_id
      BY <1>1, AddIs DEF StrandedIn
    <3> QED
      BY <1>1, <2>2, <3>1, AddIs DEF StrandedIn
  <2>4. ASSUME NEW c \in Job, job[c].parent = p
        PROVE  /\ job'[c].parent = job[c].parent
               /\ Open(job, c) \/ Silent(job[c]) => Open(job', c) \/ Silent(job'[c])
    <3>1. c # next_id
      BY <2>1, <2>4
    <3>2. CASE c = q /\ job[c].status \in Ready
      BY <3>1, <3>2, AddIs DEF Open, Pending
    <3>3. CASE ~(c = q /\ job[c].status \in Ready)
      <4>1. job'[c] = job[c]
        BY <3>1, <3>3, AddIs
      <4> QED
        BY <4>1 DEF Open
    <3> QED
      BY <3>2, <3>3
  <2>5. StrandedIn(job, p)
    BY <1>1, <2>3, <2>4, KeptStrands
  <2> QED
    BY <2>5, NotStranded
<1> QED
  BY <1>1 DEF ParentNotStranded, StrandedIn, Silent, Unannounced, StalledOut

\* A retry and a deferral open a job again.
LEMMA ReopenStrands ==
    ASSUME IInv, ParentNotStranded, NEW j \in Job, NEW status \in {"waiting", "delayed"},
           job' = Put(job, {j}, status)
    PROVE  ParentNotStranded'
<1>0. job \in [Job -> Row]
  BY DEF IInv, TypeOK
<1>1. ASSUME NEW p \in Job, StrandedIn(job', p)
      PROVE  FALSE
  <2>1. ASSUME NEW c \in Job
        PROVE  /\ job'[c].parent = job[c].parent
               /\ Open(job, c) \/ Silent(job[c]) => Open(job', c) \/ Silent(job'[c])
               /\ job'[c].status = "waiting-children" => job[c].status = "waiting-children"
    <3>1. CASE c = j
      BY <1>0, <3>1, PutIs DEF Open, Pending
    <3>2. CASE c # j
      <4>1. job'[c] = job[c]
        BY <1>0, <3>2, PutIs
      <4> QED
        BY <4>1 DEF Open
    <3> QED
      BY <3>1, <3>2
  <2>2. StrandedIn(job, p)
    BY <1>1, <2>1, KeptStrands
  <2> QED
    BY <2>2, NotStranded
<1> QED
  BY <1>1 DEF ParentNotStranded, StrandedIn, Silent, Unannounced, StalledOut

\* The steps that end a row or cut it off without looking at its parent.
NothingCutOff == Env \cap {"remove", "detach", "cancel_error"} = {}

LEMMA NextStrands ==
    ASSUME NothingCutOff, StrandInv, [Next]_vars
    PROVE  StrandInv'
<1>0. IInv /\ IInv' /\ EndInv' /\ StepKind /\ ParentNotStranded
  BY NextInv, NextFinal, NextKind DEF StrandInv, EndInv, Final
<1>1. CASE SteadyStep \/ EndSome \/ FailOne \/ handleStalled
  BY <1>0, <1>1, SteadyStrands, EndStrands, FailStrands, StalledStrands
     DEF StrandInv, FailOne
<1>2. CASE \E o \in Options, p \in Job \cup {NoJob} : add(o, p)
  BY <1>0, <1>2, AddStrands DEF StrandInv
<1>3. CASE \E j \in Job : retryJob(j)
  BY <1>0, <1>3, ReopenStrands DEF StrandInv, retryJob
<1>4. CASE ReopenOne
  BY <1>0, <1>4, ReopenStrands DEF StrandInv, ReopenOne
<1> QED
  BY <1>0, <1>1, <1>2, <1>3, <1>4
     DEF StepKind, NothingCutOff, removeJob, removeChildDependency, MarkOne

\* A parent in waiting-children has an open child to wait for, unless one of its
\* children stalled out or was failed by its own child: no interleaving of
\* submissions, ends, cancellations and sweeps strands it otherwise.  Removing
\* or detaching a child, and a cancel that threw, do not look at the parent.
THEOREM ParentNotStrandedHolds ==
    ASSUME NothingCutOff
    PROVE  Spec => []ParentNotStranded
<1>1. Init => StrandInv
  <2> SUFFICES ASSUME Init PROVE StrandInv
    OBVIOUS
  <2>1. EndInv
    BY InitInv, InitEnd
  <2>2. ParentNotStranded
    BY DEF Init, BlankRow, ParentNotStranded
  <2> QED
    BY <2>1, <2>2 DEF StrandInv
<1>2. StrandInv /\ [Next]_vars => StrandInv'
  BY NextStrands
<1>3. StrandInv => ParentNotStranded
  BY DEF StrandInv
<1> QED
  BY <1>1, <1>2, <1>3, PTL DEF Spec
--------------------------------------------------------------------------------
(* The end of a child is announced.                                         *)

Told(t, c) == Ended(t, c) /\ ~Silent(t[c])

AnnouncedIn(t, box) ==
    \A c \in Job :
        Told(t, c) /\ t[c].parent # NoJob /\ Open(t, t[c].parent)
        => \E m \in box : m.to = t[c].parent /\ m.child = c

LEMMA Announced ==
    ChildDonePosted <=> AnnouncedIn(job, inbox)
BY DEF ChildDonePosted, AnnouncedIn, Told, Silent, Unannounced, StalledOut

\* An update that ends nobody loudly, opens nobody and gives nobody a parent owes
\* no message.
LEMMA QuietAnnounces ==
    ASSUME NEW t \in [Job -> Row], NEW u, NEW box, AnnouncedIn(t, box),
           \A c \in Job : /\ u[c].parent \in {NoJob, t[c].parent}
                          /\ Told(u, c) => Told(t, c)
                          /\ Open(u, c) => Open(t, c)
    PROVE  AnnouncedIn(u, box)
<1>1. \A c \in Job : t[c].parent # NoJob => t[c].parent \in Job
  BY DEF Row
<1> QED
  BY <1>1 DEF AnnouncedIn

LEMMA ResolveAnnounces ==
    ASSUME NEW t \in [Job -> Row], NEW P, NEW box, AnnouncedIn(t, box)
    PROVE  AnnouncedIn(Resolve(t, P), box)
<1> DEFINE u == Resolve(t, P)
<1>1. \A c \in Job : /\ u[c].parent \in {NoJob, t[c].parent}
                     /\ Told(u, c) => Told(t, c)
                     /\ Open(u, c) => Open(t, c)
  BY ResolveIs DEF Told, Ended, Open, Silent, Terminal, Pending
<1> HIDE DEF u
<1>2. AnnouncedIn(u, box)
  BY <1>1, QuietAnnounces
<1> QED
  BY <1>2 DEF u

\* Ending the jobs S owes the messages of ChildDone, and no other.
LEMMA PutAnnounces ==
    ASSUME NEW t \in [Job -> Row], NEW box, AnnouncedIn(t, box),
           NEW u \in [Job -> Row], NEW S \in SUBSET Job, NEW outcome \in Outcome,
           \A c \in Job : /\ u[c].parent = t[c].parent
                          /\ Open(u, c) => Open(t, c)
                          /\ c \notin S /\ Told(u, c) => Told(t, c)
    PROVE  AnnouncedIn(u, box \cup ChildDone(u, S, outcome))
<1>1. ASSUME NEW c \in Job, Told(u, c), u[c].parent # NoJob, Open(u, u[c].parent)
      PROVE  \E m \in box \cup ChildDone(u, S, outcome) : m.to = u[c].parent /\ m.child = c
  <2>1. u[c].parent \in Job
    BY <1>1 DEF Row
  <2>2. CASE c \in S
    <3> DEFINE m == [to |-> u[c].parent, child |-> c, outcome |-> outcome]
    <3>1. m \in ChildDone(u, S, outcome)
      BY <1>1, <2>1, <2>2 DEF ChildDone, Message
    <3> QED
      BY <3>1
  <2>3. CASE c \notin S
    BY <1>1, <2>1, <2>3 DEF AnnouncedIn
  <2> QED
    BY <2>2, <2>3
<1> QED
  BY <1>1 DEF AnnouncedIn

\* Removing a row takes its inbox with it.
LEMMA DeleteAnnounces ==
    ASSUME NEW t \in [Job -> Row], NEW box, AnnouncedIn(t, box), NEW j \in Job
    PROVE  AnnouncedIn(Delete(t, {j}), InboxWithout(box, {j}))
<1> DEFINE u == Delete(t, {j})
<1>0. \A c \in Job : t[c] \in Row /\ (t[c].parent # NoJob => t[c].parent \in Job)
  BY DEF Row
<1>1. u[j].status = "none"
  BY <1>0 DEF Delete, Row
<1>2. \A c \in Job \ {j} :
        IF t[c].parent = j THEN u[c].parent = NoJob ELSE u[c] = t[c]
  BY <1>0 DEF Delete, Row
<1>3. \A c \in Job \ {j} : u[c].status = t[c].status
  BY <1>0 DEF Delete, Row
<1> HIDE DEF u
<1>4. ASSUME NEW c \in Job, Told(u, c), u[c].parent # NoJob, Open(u, u[c].parent)
      PROVE  \E m \in InboxWithout(box, {j}) : m.to = u[c].parent /\ m.child = c
  <2>1. c # j /\ u[c] = t[c] /\ t[c].parent \in Job \ {j}
    BY <1>0, <1>1, <1>2, <1>4 DEF Told, Ended, Terminal
  <2>2. Told(t, c) /\ Open(t, t[c].parent)
    BY <1>3, <1>4, <2>1 DEF Told, Ended, Open
  <2>3. PICK m \in box : m.to = t[c].parent /\ m.child = c
    BY <1>4, <2>1, <2>2 DEF AnnouncedIn
  <2> QED
    BY <2>1, <2>3 DEF InboxWithout
<1>5. AnnouncedIn(u, InboxWithout(box, {j}))
  BY <1>4 DEF AnnouncedIn
<1> QED
  BY <1>5 DEF u

LEMMA SweptAnnounces ==
    ASSUME NEW t \in [Job -> Row], NEW box, AnnouncedIn(t, box), NEW j \in Job,
           NEW remove, Swept(t, box, j, remove)
    PROVE  AnnouncedIn(job', inbox')
BY DeleteAnnounces DEF Swept

LEMMA EndAnnounces ==
    ASSUME IInv, AnnouncedIn(job, inbox), EndSome
    PROVE  AnnouncedIn(job', inbox')
<1>1. PICK S \in SUBSET Job, status \in {"completed", "cancelled", "dead"},
           outcome \in Outcome, j \in Job, remove \in BOOLEAN :
           EndStep(S, status, outcome, j, remove)
  BY DEF EndSome
<1> DEFINE t == Put(job, S, status)
           u == Resolve(t, ParentsOf(t, S))
           box == inbox \cup ChildDone(t, S, outcome)
<1>2. job \in [Job -> Row]
  BY DEF IInv, TypeOK
<1>3. Calm(job, t) /\ t \in [Job -> Row]
  BY <1>1, <1>2, PutCalm DEF EndStep, Ready, Status, Terminal, Calm
<1>4. ASSUME NEW c \in Job
      PROVE  /\ t[c].parent = job[c].parent
             /\ Open(t, c) => Open(job, c)
             /\ c \notin S /\ Told(t, c) => Told(job, c)
  <2>1. Open(t, c) => Open(job, c)
    BY <1>3 DEF Calm, CalmRow, Open
  <2>2. t[c].parent = job[c].parent /\ (c \notin S => t[c] = job[c])
    BY <1>2, PutIs
  <2> QED
    BY <2>1, <2>2 DEF Told, Ended
<1>5. Swept(u, box, j, remove)
  BY <1>1 DEF EndStep
<1> HIDE DEF t
<1>6. AnnouncedIn(t, box)
  BY <1>2, <1>3, <1>4, PutAnnounces
<1> HIDE DEF box
<1>7. AnnouncedIn(u, box) /\ u \in [Job -> Row]
  BY <1>3, <1>6, ResolveAnnounces, ResolveCalm DEF Calm
<1> HIDE DEF u
<1> QED
  BY <1>5, <1>7, SweptAnnounces

LEMMA HookAnnounces ==
    ASSUME NEW t \in [Job -> Row], NEW box, AnnouncedIn(t, box), NEW j \in Job
    PROVE  AnnouncedIn(ParentHook(t, j), box)
<1> DEFINE q == t[j].parent
           u == [t EXCEPT ![j].parent = NoJob]
           f == [i \in Job |-> IF i = q /\ t[i].status = "waiting-children"
                               THEN [t[i] EXCEPT !.status = "failed"] ELSE t[i]]
<1>1. AnnouncedIn(Resolve(t, {q}), box)
  BY ResolveAnnounces
<1>2. AnnouncedIn(Resolve(u, {q}), box)
  <2>1. u \in [Job -> Row]
    BY DEF Row, NoJob
  <2>2. \A c \in Job : /\ u[c].parent \in {NoJob, t[c].parent}
                       /\ Told(u, c) => Told(t, c)
                       /\ Open(u, c) => Open(t, c)
    BY DEF Row, Told, Ended, Open, Silent
  <2> HIDE DEF u
  <2>3. AnnouncedIn(u, box)
    BY <2>2, QuietAnnounces
  <2> QED
    BY <2>1, <2>3, ResolveAnnounces
<1>3. AnnouncedIn(f, box)
  <2>1. ASSUME NEW c \in Job
        PROVE  \/ f[c] = t[c]
               \/ f[c].status = "failed" /\ f[c].parent = t[c].parent
    BY DEF Row
  <2> HIDE DEF f
  <2>2. \A c \in Job : /\ f[c].parent \in {NoJob, t[c].parent}
                       /\ Told(f, c) => Told(t, c)
                       /\ Open(f, c) => Open(t, c)
    BY <2>1 DEF Told, Ended, Open, Silent, Pending
  <2> QED
    BY <2>2, QuietAnnounces
<1>4. ParentHook(t, j) \in {f, Resolve(u, {q}), Resolve(t, {q})}
  BY DEF ParentHook
<1> QED
  BY <1>1, <1>2, <1>3, <1>4

LEMMA FailAnnounces ==
    ASSUME IInv, AnnouncedIn(job, inbox), NEW j \in Job,
           NEW status \in {"delayed", "dead"}, FailsAs(j, status)
    PROVE  AnnouncedIn(job', inbox')
<1> DEFINE t == FailedTable(j, status)
           box == inbox \cup ChildDone(t, {j}, status)
<1>0. job \in [Job -> Row] /\ Open(job, j)
  BY DEF IInv, TypeOK, FailsAs, Open, Pending
<1>1. /\ t \in [Job -> Row]
      /\ \A i \in Job \ {j} : t[i] = job[i]
      /\ t[j].status = status /\ t[j].parent = job[j].parent
  BY FailedTableIs DEF Status, Terminal, Pending
<1>2. ASSUME NEW c \in Job
      PROVE  /\ t[c].parent = job[c].parent
             /\ Open(t, c) => Open(job, c)
             /\ c # j /\ Told(t, c) => Told(job, c)
  BY <1>0, <1>1 DEF Open, Told, Ended
<1>3. CASE status = "delayed"
  <2>1. job' = t /\ inbox' = inbox
    BY <1>3, FailsAsIs
  <2>2. ~Told(t, j)
    BY <1>1, <1>3 DEF Told, Ended, Terminal
  <2> HIDE DEF t
  <2>3. AnnouncedIn(t, inbox)
    BY <1>0, <1>2, <2>2, QuietAnnounces
  <2> QED
    BY <2>1, <2>3
<1>4. CASE status = "dead"
  <2>1. Swept(ParentHook(t, j), box, j, job[j].opt.remove_on_fail)
    BY <1>4, FailsAsIs
  <2> HIDE DEF t
  <2>2. AnnouncedIn(t, box)
    BY <1>0, <1>1, <1>2, <1>4, PutAnnounces DEF Outcome
  <2> HIDE DEF box
  <2>3. AnnouncedIn(ParentHook(t, j), box) /\ ParentHook(t, j) \in [Job -> Row]
    BY <1>1, <2>2, HookAnnounces, ParentHookCalm DEF Calm
  <2> QED
    BY <2>1, <2>3, SweptAnnounces
<1> QED
  BY <1>3, <1>4

LEMMA AddAnnounces ==
    ASSUME IInv, ParentsHandedOut, AnnouncedIn(job, inbox),
           NEW o \in Options, NEW q \in Job \cup {NoJob}, add(o, q)
    PROVE  AnnouncedIn(job', inbox')
<1>1. ASSUME NEW c \in Job, Told(job', c), job'[c].parent # NoJob,
             Open(job', job'[c].parent)
      PROVE  \E m \in inbox : m.to = job'[c].parent /\ m.child = c
  <2>1. c # next_id
    BY <1>1, AddIs DEF Told, Ended, Terminal
  <2>2. job'[c] = job[c]
    BY <1>1, <2>1, AddIs DEF Told, Ended, Terminal
  <2>3. job[c].parent \in Job \ {next_id}
    <3>1. job[c] \in Row /\ next_id \in Nat /\ job[c].parent < next_id
      BY DEF IInv, TypeOK, ParentsHandedOut
    <3>2. job[c].parent \in Job
      BY <1>1, <2>2, <3>1 DEF Row
    <3> QED
      BY <3>1, <3>2, JobAssumption
  <2>4. Open(job, job[c].parent)
    BY <1>1, <2>2, <2>3, AddIs DEF Open, Pending, Ready
  <2> QED
    BY <1>1, <2>2, <2>4 DEF AnnouncedIn, Told, Ended
<1> QED
  BY <1>1, AddIs DEF AnnouncedIn

\* Steps that change no inbox, end nobody loudly and open nobody.
LEMMA OtherAnnounces ==
    ASSUME IInv, IInv', AnnouncedIn(job, inbox),
           SteadyStep \/ handleStalled \/ \E j \in Job : removeChildDependency(j)
    PROVE  AnnouncedIn(job', inbox')
<1>0. job \in [Job -> Row]
  BY DEF IInv, TypeOK
<1>1. CASE SteadyStep
  <2>1. \A c \in Job : /\ job'[c].parent \in {NoJob, job[c].parent}
                       /\ Told(job', c) => Told(job, c)
                       /\ Open(job', c) => Open(job, c)
    BY <1>1 DEF SteadyStep, SteadyRow, Told, Ended, Open, Silent, Terminal, Pending
  <2>2. AnnouncedIn(job', inbox)
    BY <1>0, <2>1, QuietAnnounces
  <2> QED
    BY <1>1, <2>2 DEF SteadyStep
<1>2. CASE handleStalled
  <2>1. ASSUME NEW c \in Job
        PROVE  /\ job'[c].parent \in {NoJob, job[c].parent}
               /\ Told(job', c) => Told(job, c)
               /\ Open(job', c) => Open(job, c)
    <3>1. CASE job'[c] = job[c]
      BY <3>1 DEF Told, Ended, Open
    <3>2. CASE job'[c] # job[c]
      <4>1. /\ job'[c].parent = job[c].parent /\ job'[c].opt = job[c].opt
            /\ job[c].status = "active"
            /\ \/ job'[c].status = "waiting"
               \/ job'[c].status = "dead" /\ job'[c].stalled >= job[c].opt.max_stalled
        BY <1>2, <3>2, StalledRowIs
      <4> QED
        BY <4>1 DEF Told, Ended, Open, Silent, Terminal, Pending
    <3> QED
      BY <3>1, <3>2
  <2>2. AnnouncedIn(job', inbox)
    BY <1>0, <2>1, QuietAnnounces
  <2> QED
    BY <1>2, <2>2 DEF handleStalled
<1>3. CASE \E j \in Job : removeChildDependency(j)
  <2>1. PICK j \in Job : job' = [job EXCEPT ![j].parent = NoJob] /\ inbox' = inbox
    BY <1>3 DEF removeChildDependency
  <2>2. \A c \in Job : /\ job'[c].parent \in {NoJob, job[c].parent}
                       /\ Told(job', c) => Told(job, c)
                       /\ Open(job', c) => Open(job, c)
    BY <1>0, <2>1 DEF Row, Told, Ended, Open, Silent
  <2>3. AnnouncedIn(job', inbox)
    BY <1>0, <2>2, QuietAnnounces
  <2> QED
    BY <2>1, <2>3
<1> QED
  BY <1>1, <1>2, <1>3

PostedInv == EndInv /\ ParentsHandedOut /\ ChildDonePosted

LEMMA NextPosted ==
    ASSUME NothingReopened, "cancel_error" \notin Env, PostedInv, [Next]_vars
    PROVE  PostedInv'
<1>0. /\ IInv /\ IInv' /\ EndInv' /\ StepKind /\ ParentsHandedOut
      /\ AnnouncedIn(job, inbox)
  BY NextInv, NextFinal, NextKind, Announced DEF PostedInv, EndInv, Final
<1>1. ParentsHandedOut'
  BY <1>0, KindCalm, CalmParents, AddParents DEF NothingReopened
<1>2. ~ReopenOne
  <2>1. \A j \in Job : job[j].opt \in Options
    BY <1>0 DEF IInv, TypeOK, Row
  <2> QED
    BY <2>1 DEF ReopenOne, NothingReopened
<1>3. AnnouncedIn(job', inbox')
  <2>1. CASE SteadyStep \/ handleStalled \/ \E j \in Job : removeChildDependency(j)
    BY <1>0, <2>1, OtherAnnounces
  <2>2. CASE \E o \in Options, p \in Job \cup {NoJob} : add(o, p)
    BY <1>0, <2>2, AddAnnounces
  <2>3. CASE EndSome \/ FailOne
    BY <1>0, <2>3, EndAnnounces, FailAnnounces DEF FailOne
  <2>4. CASE \E j \in Job : removeJob(j)
    BY <1>0, <2>4, DeleteAnnounces DEF removeJob, IInv, TypeOK
  <2> QED
    BY <1>0, <1>2, <2>1, <2>2, <2>3, <2>4
       DEF StepKind, NothingReopened, retryJob, MarkOne
<1>4. ChildDonePosted'
  BY <1>3 DEF ChildDonePosted, AnnouncedIn, Told, Silent, Unannounced, StalledOut
<1> QED
  BY <1>0, <1>1, <1>4 DEF PostedInv

\* An open parent has a child_done message for every child that ended, whichever
\* of the transactions ended it, stall sweep and fail_parent excepted: this is
\* what the aggregator counts on.  A cancel that threw tells nobody, and a parent
\* reopened by a retry or a deferral was not open when its children ended.
THEOREM ChildDonePostedHolds ==
    ASSUME NothingReopened, "cancel_error" \notin Env
    PROVE  Spec => []ChildDonePosted
<1>1. Init => PostedInv
  <2> SUFFICES ASSUME Init PROVE PostedInv
    OBVIOUS
  <2>1. CapInv
    BY InitCap
  <2>2. ChildDonePosted
    BY DEF Init, BlankRow, ChildDonePosted, Ended, Terminal
  <2> QED
    BY <2>1, <2>2 DEF CapInv, PostedInv
<1>2. PostedInv /\ [Next]_vars => PostedInv'
  BY NextPosted
<1>3. PostedInv => ChildDonePosted
  BY DEF PostedInv
<1> QED
  BY <1>1, <1>2, <1>3, PTL DEF Spec
--------------------------------------------------------------------------------
(* Induction over the numbers, for a set of them rather than an operator: what *)
(* the least number outside it would contradict.                               *)

\* A set of numbers has a least one.
LEMMA Least ==
    ASSUME NEW T \in SUBSET Nat, T # {}
    PROVE  \E m \in T : \A k \in T : m <= k
<1> DEFINE R == OpToRel(<, Nat)
<1>1. IsWellFoundedOn(R, Nat)
  BY NatLessThanWellFounded, Zenon
<1>2. \E x \in T : \A y \in T : <<y, x>> \notin R
  <2> HIDE DEF R
  <2> QED
    BY <1>1, WFMin, Zenon
<1>3. \A x, y \in Nat : x < y => <<x, y>> \in R
  BY SMT DEF OpToRel
<1> HIDE DEF R
<1>4. PICK m \in T : \A k \in T : <<k, m>> \notin R
  BY <1>2
<1>5. \A k \in T : ~(k < m)
  BY <1>3, <1>4
<1> QED
  BY <1>5

\* Induction over the numbers, for a set of them.
LEMMA SetInduction ==
    ASSUME NEW T \in SUBSET Nat, 0 \in T, \A n \in T : n + 1 \in T
    PROVE  T = Nat
<1> SUFFICES ASSUME Nat \ T # {} PROVE FALSE
  OBVIOUS
<1>1. PICK m \in Nat \ T : \A k \in Nat \ T : m <= k
  BY Least
<1>2. m # 0 /\ m - 1 \in Nat
  BY <1>1
<1>3. m - 1 \in T
  BY <1>1, <1>2
<1> QED
  BY <1>3, <1>1

\* A step can be repeated any number of times.
LEMMA Iterates ==
    ASSUME NEW S, NEW start \in S, NEW step \in [S -> S]
    PROVE  \E g \in [Nat -> S] : g[0] = start /\ \A n \in Nat : g[n + 1] = step[g[n]]
<1> DEFINE C(n) == {g \in [0..n -> S] : g[0] = start /\ \A i \in 0..(n - 1) : g[i + 1] = step[g[i]]}
           T == {n \in Nat : C(n) # {}}
<1>1. T = Nat
  <2>1. 0 \in T
    <3>1. [i \in 0..0 |-> start] \in C(0)
      OBVIOUS
    <3> QED
      BY <3>1
  <2>2. ASSUME NEW n \in T PROVE n + 1 \in T
    <3>1. PICK g \in C(n) : TRUE
      OBVIOUS
    <3>2. g \in [0..n -> S] /\ n \in Nat /\ g[0] = start /\ \A i \in 0..(n - 1) : g[i + 1] = step[g[i]]
      BY <3>1
    <3> DEFINE h == [i \in 0..(n + 1) |-> IF i = n + 1 THEN step[g[n]] ELSE g[i]]
    <3>3. h \in [0..(n + 1) -> S] /\ h[0] = start
      BY <3>2
    <3>4. ASSUME NEW i \in 0..((n + 1) - 1) PROVE h[i + 1] = step[h[i]]
      <4>1. i \in 0..n /\ h[i] = g[i]
        BY <3>2
      <4>2. CASE i = n
        <5>1. h[n + 1] = step[g[n]]
          BY <3>2
        <5> QED
          BY <4>1, <4>2, <5>1
      <4>3. CASE i # n
        <5>1. i \in 0..(n - 1) /\ i + 1 \in 0..n /\ i + 1 # n + 1
          BY <4>1, <4>3, <3>2
        <5>2. h[i + 1] = g[i + 1]
          BY <5>1, <3>2
        <5> QED
          BY <4>1, <5>1, <5>2, <3>2
      <4> QED
        BY <4>2, <4>3
    <3>5. h \in C(n + 1)
      BY <3>3, <3>4
    <3>6. n + 1 \in Nat
      BY <3>2
    <3> HIDE DEF C, h
    <3> QED
      BY <3>5, <3>6
  <2> HIDE DEF T
  <2>3. T \subseteq Nat
    BY DEF T
  <2> QED
    BY <2>1, <2>2, <2>3, SetInduction
<1>2. ASSUME NEW m \in Nat, NEW n \in Nat, NEW g \in C(m), NEW h \in C(n)
      PROVE  \A i \in Nat : i <= m /\ i <= n => g[i] = h[i]
  <2> DEFINE U == {i \in Nat : i <= m /\ i <= n => g[i] = h[i]}
  <2>1. 0 \in U
    OBVIOUS
  <2>2. ASSUME NEW i \in U PROVE i + 1 \in U
    <3>1. CASE i + 1 <= m /\ i + 1 <= n
      <4>1. g[i] = h[i] /\ i \in 0..(m - 1) /\ i \in 0..(n - 1)
        BY <3>1
      <4>2. g[i + 1] = step[g[i]] /\ h[i + 1] = step[h[i]]
        BY <4>1
      <4> QED
        BY <4>1, <4>2
    <3> QED
      BY <3>1
  <2> HIDE DEF U
  <2>3. U \subseteq Nat
    BY DEF U
  <2>4. U = Nat
    BY <2>1, <2>2, <2>3, SetInduction
  <2> QED
    BY <2>4 DEF U
<1> DEFINE c == [n \in Nat |-> CHOOSE g \in C(n) : TRUE]
           f == [n \in Nat |-> c[n][n]]
<1>3. ASSUME NEW n \in Nat PROVE c[n] \in C(n)
  <2>1. C(n) # {}
    BY <1>1
  <2> HIDE DEF C
  <2> QED
    BY <2>1
<1> HIDE DEF c
<1>4. f \in [Nat -> S]
  BY <1>3
<1>5. f[0] = start
  BY <1>3
<1>6. ASSUME NEW n \in Nat PROVE f[n + 1] = step[f[n]]
  <2>1. c[n] \in C(n) /\ c[n + 1] \in C(n + 1)
    BY <1>3
  <2>2. c[n][n] = c[n + 1][n]
    <3> HIDE DEF C
    <3> QED
      BY <1>2, <2>1
  <2>3. c[n + 1][n + 1] = step[c[n + 1][n]]
    BY <2>1
  <2> QED
    BY <2>2, <2>3
<1> HIDE DEF f
<1> QED
  BY <1>4, <1>5, <1>6

--------------------------------------------------------------------------------
(* A cancel takes the whole tree: its walk over the children stops at          *)
(* MaxCascade levels, and no tree is deeper than submissions may go.           *)

\* The recursion in Descendants has the values that its definition says.
LEMMA LevelsAre ==
    ASSUME NEW id \in Job
    PROVE  \E level \in [Nat -> SUBSET Job] :
              /\ level[0] = {id}
              /\ \A d \in Nat : level[d + 1] = level[d] \cup {c \in Job : Exists(job, c) /\ job[c].parent \in level[d]}
              /\ Descendants(job, id) = level[MaxCascade]
<1> DEFINE Below(X) == {c \in Job : Exists(job, c) /\ job[c].parent \in X}
           step == [X \in SUBSET Job |-> X \cup Below(X)]
           Is(f) == f = [d \in Nat |-> IF d = 0 THEN {id} ELSE LET above == f[d - 1] IN above \cup Below(above)]
           level == CHOOSE f : Is(f)
<1>1. step \in [SUBSET Job -> SUBSET Job]
  OBVIOUS
<1>2. PICK g \in [Nat -> SUBSET Job] : g[0] = {id} /\ \A n \in Nat : g[n + 1] = step[g[n]]
  <2>1. {id} \in SUBSET Job
    OBVIOUS
  <2> HIDE DEF step
  <2>2. ASSUME NEW f \in [SUBSET Job -> SUBSET Job]
        PROVE  \E g \in [Nat -> SUBSET Job] : g[0] = {id} /\ \A n \in Nat : g[n + 1] = f[g[n]]
    <3> DEFINE S == SUBSET Job
    <3>1. {id} \in S /\ f \in [S -> S]
      OBVIOUS
    <3> HIDE DEF S
    <3>2. \E g \in [Nat -> S] : g[0] = {id} /\ \A n \in Nat : g[n + 1] = f[g[n]]
      BY <3>1, Iterates
    <3> QED
      BY <3>2 DEF S
  <2> QED
    BY <1>1, <2>2
<1>3. Is(g)
  <2>1. ASSUME NEW d \in Nat
        PROVE  g[d] = IF d = 0 THEN {id} ELSE g[d - 1] \cup Below(g[d - 1])
    <3>1. CASE d = 0
      BY <3>1, <1>2
    <3>2. CASE d # 0
      <4>1. d - 1 \in Nat /\ (d - 1) + 1 = d
        BY <3>2
      <4>2. g[d] = step[g[d - 1]] /\ g[d - 1] \in SUBSET Job
        BY <4>1, <1>2
      <4> QED
        BY <4>2, <3>2
    <3> QED
      BY <3>1, <3>2
  <2> HIDE DEF Below
  <2> QED
    BY <2>1, <1>2
<1>4. Is(level)
  <2> HIDE DEF Is
  <2> QED
    BY <1>3
<1>5. Descendants(job, id) = level[MaxCascade]
  BY DEF Descendants
<1>6. ASSUME NEW d \in Nat PROVE level[d] = IF d = 0 THEN {id} ELSE level[d - 1] \cup Below(level[d - 1])
  <2> HIDE DEF Below, level
  <2> QED
    BY <1>4
<1>7. ASSUME NEW d \in Nat PROVE level[d] = g[d]
  <2> DEFINE T == {n \in Nat : level[n] = g[n]}
  <2>1. 0 \in T
    BY <1>6, <1>2
  <2>2. ASSUME NEW n \in T PROVE n + 1 \in T
    <3>1. level[n + 1] = level[n] \cup Below(level[n])
      <4> HIDE DEF Below, level
      <4>1. n + 1 \in Nat /\ n + 1 # 0 /\ (n + 1) - 1 = n
        OBVIOUS
      <4> QED
        BY <4>1, <1>6
    <3>2. g[n + 1] = g[n] \cup Below(g[n])
      BY <1>2
    <3>3. level[n] = g[n] /\ n + 1 \in Nat
      BY <2>2
    <3> HIDE DEF level
    <3>4. level[n] \cup Below(level[n]) = g[n] \cup Below(g[n])
      BY <3>3
    <3> HIDE DEF Below
    <3> QED
      BY <3>1, <3>2, <3>3, <3>4
  <2> HIDE DEF T, level
  <2>3. T \subseteq Nat
    BY DEF T
  <2>4. T = Nat
    BY <2>1, <2>2, <2>3, SetInduction
  <2> QED
    BY <2>4 DEF T
<1>8. Descendants(job, id) = g[MaxCascade]
  <2> HIDE DEF level
  <2> QED
    BY <1>5, <1>7, BoundsAssumption
<1>9. \A d \in Nat : g[d + 1] = g[d] \cup Below(g[d])
  BY <1>2
<1> QED
  BY <1>2, <1>8, <1>9

\* A child is one level below its parent, and nobody is deeper than add() allows.
DepthOK ==
    \A c \in Job :
        /\ job[c].depth <= MaxSpawnDepth
        /\ job[c].parent # NoJob => job[c].depth = job[job[c].parent].depth + 1

\* What is d levels below id in the tree is d levels deeper.
LEMMA LevelDepth ==
    ASSUME IInv, DepthOK, NEW id \in Job, NEW level \in [Nat -> SUBSET Job], level[0] = {id},
           \A d \in Nat : level[d + 1] =
               level[d] \cup {c \in Job : Exists(job, c) /\ job[c].parent \in level[d]},
           NEW n \in Nat, NEW p \in level[n]
    PROVE  \E d \in 0..n : p \in level[d] /\ job[p].depth = job[id].depth + d
<1> DEFINE At(m) == \A j \in level[m] : \E d \in 0..m : j \in level[d] /\ job[j].depth = job[id].depth + d
           T == {m \in Nat : At(m)}
<1>0. \A j \in Job : job[j].depth \in Nat /\ job[j].parent \in Job \cup {NoJob} /\ NoJob \notin Job
  BY JobAssumption DEF IInv, TypeOK, Row, NoJob
<1>1. 0 \in T
  BY <1>0
<1>2. ASSUME NEW m \in T PROVE m + 1 \in T
  <2>1. ASSUME NEW j \in level[m + 1]
        PROVE  \E d \in 0..(m + 1) : j \in level[d] /\ job[j].depth = job[id].depth + d
    <3>1. CASE j \in level[m]
      <4>1. PICK d \in 0..m : j \in level[d] /\ job[j].depth = job[id].depth + d
        BY <3>1, <1>2
      <4> QED
        BY <4>1
    <3>2. CASE j \notin level[m]
      <4>1. j \in Job /\ Exists(job, j) /\ job[j].parent \in level[m] /\ job[j].parent \in Job
        BY <3>2
      <4>2. PICK d \in 0..m : /\ job[j].parent \in level[d]
                              /\ job[job[j].parent].depth = job[id].depth + d
        BY <4>1, <1>2
      <4>3. j \in level[d + 1] /\ d + 1 \in 0..(m + 1)
        BY <4>1, <4>2
      <4>4. job[j].depth = job[id].depth + (d + 1)
        BY <4>1, <4>2, <1>0 DEF DepthOK
      <4> QED
        BY <4>3, <4>4
    <3> QED
      BY <3>1, <3>2
  <2> QED
    BY <2>1, <1>2
<1> HIDE DEF T
<1>3. T \subseteq Nat
  BY DEF T
<1>4. T = Nat
  BY <1>1, <1>2, <1>3, SetInduction
<1> QED
  BY <1>4 DEF T

\* A level holds those above it.
LEMMA LevelsGrow ==
    ASSUME NEW level \in [Nat -> SUBSET Job], \A d \in Nat : level[d] \subseteq level[d + 1],
           NEW n \in Nat, NEW d \in 0..n
    PROVE  level[d] \subseteq level[n]
<1> DEFINE T == {m \in Nat : m >= d => level[d] \subseteq level[m]}
<1>1. 0 \in T
  OBVIOUS
<1>2. ASSUME NEW m \in T PROVE m + 1 \in T
  <2>1. CASE m >= d
    <3>1. level[d] \subseteq level[m] /\ level[m] \subseteq level[m + 1]
      BY <2>1
    <3> QED
      BY <3>1
  <2>2. CASE m + 1 = d
    BY <2>2
  <2> QED
    BY <2>1, <2>2
<1> HIDE DEF T
<1>3. T \subseteq Nat
  BY DEF T
<1>4. T = Nat
  BY <1>1, <1>2, <1>3, SetInduction
<1> QED
  BY <1>4 DEF T

\* The children of what the walk finds are found as well.
LEMMA DescendantsClosed ==
    ASSUME IInv, DepthOK, MaxSpawnDepth <= MaxCascade, NEW id \in Job,
           NEW p \in Descendants(job, id), NEW c \in Job, Exists(job, c), job[c].parent = p
    PROVE  c \in Descendants(job, id)
<1>1. PICK level \in [Nat -> SUBSET Job] :
            /\ level[0] = {id}
            /\ \A d \in Nat : level[d + 1] =
                  level[d] \cup {j \in Job : Exists(job, j) /\ job[j].parent \in level[d]}
            /\ Descendants(job, id) = level[MaxCascade]
  BY LevelsAre
<1>2. MaxCascade \in Nat /\ MaxSpawnDepth \in Nat /\ p \in level[MaxCascade]
  BY <1>1, BoundsAssumption
<1>3. PICK d \in 0..MaxCascade : p \in level[d] /\ job[p].depth = job[id].depth + d
  BY <1>1, <1>2, LevelDepth
<1>4. p \in Job /\ p # NoJob
  BY <1>1, <1>2, JobAssumption DEF NoJob
<1>5. job[c].depth = job[p].depth + 1 /\ job[c].depth <= MaxSpawnDepth
  BY <1>4 DEF DepthOK
<1>6. job[id].depth \in Nat /\ job[p].depth \in Nat
  BY <1>4 DEF IInv, TypeOK, Row
<1>7. d + 1 \in 0..MaxCascade
  BY <1>2, <1>3, <1>5, <1>6
<1>8. c \in level[d + 1]
  BY <1>1, <1>3
<1>9. \A n \in Nat : level[n] \subseteq level[n + 1]
  BY <1>1
<1>10. level[d + 1] \subseteq level[MaxCascade]
  BY <1>1, <1>2, <1>7, <1>9, LevelsGrow
<1> QED
  BY <1>1, <1>8, <1>10

LEMMA AddDepth ==
    ASSUME IInv, ParentsHandedOut, DepthOK,
           NEW o \in Options, NEW p \in Job \cup {NoJob}, add(o, p)
    PROVE  DepthOK'
<1>0. next_id \in Job /\ next_id \in Nat \ {0} /\ p # next_id
  BY AddIs, JobAssumption
<1>1. \A j \in Job : job[j].parent # next_id
  BY <1>0 DEF ParentsHandedOut, IInv, TypeOK, Row, NoJob
<1>2. p # NoJob => p \in Job /\ job[p].depth + 1 <= MaxSpawnDepth
  BY DEF add, MayAdopt
<1>3. /\ job'[next_id].parent = p
      /\ job'[next_id].depth = IF p = NoJob THEN 0 ELSE job[p].depth + 1
      /\ \A j \in Job \ {next_id} : job'[j].parent = job[j].parent /\ job'[j].depth = job[j].depth
  BY AddIs
<1>4. \A j \in Job : job[j].parent \in Job \cup {NoJob}
  BY DEF IInv, TypeOK, Row
<1>5. ASSUME NEW c \in Job
      PROVE  /\ job'[c].depth <= MaxSpawnDepth
             /\ job'[c].parent # NoJob => job'[c].depth = job'[job'[c].parent].depth + 1
  <2>1. CASE c = next_id
    BY <1>0, <1>2, <1>3, <2>1, BoundsAssumption
  <2>2. CASE c # next_id
    BY <1>1, <1>3, <1>4, <2>2 DEF DepthOK
  <2> QED
    BY <2>1, <2>2
<1> QED
  BY <1>5 DEF DepthOK

\* No other step changes a depth, or gives a job another parent.
Rooted ==
    /\ next_id' = next_id
    /\ \A j \in Job : job'[j].depth = job[j].depth /\ job'[j].parent \in {NoJob, job[j].parent}

LEMMA KindRooted ==
    ASSUME IInv, IInv', StepKind
    PROVE  Rooted \/ \E o \in Options, p \in Job \cup {NoJob} : add(o, p)
<1>0. job \in [Job -> Row]
  BY DEF IInv, TypeOK
<1>1. ASSUME NEW S \in SUBSET Job, NEW status \in Status, job' = Put(job, S, status)
      PROVE  \A j \in Job : job'[j].parent = job[j].parent /\ job'[j].depth = job[j].depth
  BY <1>0, <1>1 DEF Put, Unlocked, Row
<1>2. CASE Calm(job, job') /\ next_id' = next_id
  BY <1>2 DEF Rooted, Calm, CalmRow
<1>3. CASE \E j \in Job : retryJob(j)
  BY <1>1, <1>3 DEF retryJob, Status, Pending, Rooted
<1>4. CASE ReopenOne /\ next_id' = next_id
  BY <1>1, <1>4 DEF ReopenOne, Status, Pending, Rooted
<1>5. CASE \E j \in Job : removeJob(j) \/ removeChildDependency(j)
  BY <1>2, <1>5, RemoveCalm, DetachCalm DEF removeJob, removeChildDependency
<1>6. CASE (SteadyStep \/ EndSome \/ FailOne \/ handleStalled \/ MarkOne) /\ next_id' = next_id
  BY <1>2, <1>6, SteadyCalm, EndCalm, FailCalm, StalledCalm, MarkCalm DEF FailOne
<1> QED
  BY <1>3, <1>4, <1>5, <1>6 DEF StepKind

\* Nothing but a cancel makes an open job a cancelled one.
LEMMA OnlyCancelCancels ==
    ASSUME IInv, StepKind, "cancel_error" \notin Env, NEW p \in Job,
           Open(job, p), job'[p].status = "cancelled"
    PROVE  \E id \in Job :
              LET S == CancelSet(job, id)
                  t == Put(job, S, "cancelled")
              IN  p \in S /\ job' = Resolve(t, ParentsOf(t, S))
<1>0. job \in [Job -> Row]
  BY DEF IInv, TypeOK
<1>1. ASSUME NEW t, NEW P, Resolve(t, P)[p].status = "cancelled"
      PROVE  t[p].status = "cancelled"
  BY <1>1 DEF Resolve
<1>2. ASSUME NEW t, NEW S, Delete(t, S)[p].status = "cancelled"
      PROVE  t[p].status = "cancelled"
  BY <1>2 DEF Delete
<1>3. CASE EndSome
  <2>1. PICK S \in SUBSET Job, status \in {"completed", "cancelled", "dead"},
             outcome \in Outcome, j \in Job, remove \in BOOLEAN :
             EndStep(S, status, outcome, j, remove)
    BY <1>3 DEF EndSome
  <2> DEFINE t == Put(job, S, status)
             u == Resolve(t, ParentsOf(t, S))
  <2>2. u[p].status = "cancelled" /\ (~remove => job' = u)
    BY <2>1, <1>2 DEF EndStep, Swept
  <2>3. t[p].status = "cancelled"
    BY <2>2, <1>1
  <2>4. p \in S /\ status = "cancelled"
    BY <1>0, <2>3 DEF Put, Unlocked, Open, Pending, Row
  <2>5. PICK id \in Job : S = CancelSet(job, id)
    BY <2>1, <2>4 DEF EndStep
  <2> QED
    BY <2>1, <2>2, <2>4, <2>5 DEF EndStep
<1>4. ~FailOne
  <2> SUFFICES ASSUME NEW j \in Job, NEW status \in {"delayed", "dead"}, FailsAs(j, status)
               PROVE  FALSE
    BY DEF FailOne
  <2> DEFINE t == FailedTable(j, status)
  <2>1. t[p].status # "cancelled" /\ t \in [Job -> Row]
    <3>1. status \in Status
      BY DEF Status, Terminal, Pending
    <3>2. /\ t \in [Job -> Row] /\ t[j].status = status
          /\ \A i \in Job \ {j} : t[i] = job[i]
      BY <3>1, FailedTableIs
    <3> HIDE DEF t
    <3>3. job[p].status # "cancelled"
      BY DEF Open, Pending
    <3> QED
      BY <3>2, <3>3
  <2>2. \/ job' = t
        \/ Swept(ParentHook(t, j), inbox \cup ChildDone(t, {j}, status), j, job[j].opt.remove_on_fail)
    BY FailsAsIs
  <2> HIDE DEF t
  <2>3. ParentHook(t, j)[p].status # "cancelled"
    <3> DEFINE q == t[j].parent
               u == [t EXCEPT ![j].parent = NoJob]
    <3>1. u[p].status # "cancelled"
      BY <2>1
    <3>2. Resolve(u, {q})[p].status # "cancelled" /\ Resolve(t, {q})[p].status # "cancelled"
      BY <1>1, <2>1, <3>1
    <3>3. [i \in Job |-> IF i = q /\ t[i].status = "waiting-children"
                         THEN [t[i] EXCEPT !.status = "failed"] ELSE t[i]][p].status # "cancelled"
      BY <2>1 DEF Row
    <3>4. ParentHook(t, j) \in
            {[i \in Job |-> IF i = q /\ t[i].status = "waiting-children"
                            THEN [t[i] EXCEPT !.status = "failed"] ELSE t[i]],
             Resolve(u, {q}), Resolve(t, {q})}
      BY DEF ParentHook
    <3> QED
      BY <3>2, <3>3, <3>4
  <2> QED
    BY <2>1, <2>2, <2>3, <1>2 DEF Swept
<1>5. ~SteadyStep
  BY DEF SteadyStep, SteadyRow, Open, Pending
<1>6. ~\E o \in Options, q \in Job \cup {NoJob} : add(o, q)
  BY AddIs DEF Open, Pending, Ready
<1>7. ~handleStalled
  BY StalledRowIs DEF Open, Pending
<1>8. ~\E j \in Job : retryJob(j) \/ removeJob(j) \/ removeChildDependency(j)
  <2>1. ASSUME NEW j \in Job, retryJob(j) PROVE FALSE
    BY <1>0, <2>1 DEF retryJob, Put, Unlocked, Open, Pending, Row
  <2>2. ASSUME NEW j \in Job, removeJob(j) PROVE FALSE
    BY <1>2, <2>2 DEF removeJob, Open, Pending
  <2>3. ASSUME NEW j \in Job, removeChildDependency(j) PROVE FALSE
    BY <1>0, <2>3 DEF removeChildDependency, Open, Pending, Row
  <2> QED
    BY <2>1, <2>2, <2>3
<1>9. ~MarkOne
  BY DEF MarkOne
<1>10. ~ReopenOne
  BY <1>0 DEF ReopenOne, Put, Unlocked, Open, Pending, Row
<1> QED
  BY <1>3, <1>4, <1>5, <1>6, <1>7, <1>8, <1>9, <1>10 DEF StepKind

CascadeInv == EndInv /\ ParentsHandedOut /\ DepthOK

LEMMA NextCascade ==
    ASSUME CascadeInv, [Next]_vars
    PROVE  CascadeInv'
<1>0. IInv /\ IInv' /\ EndInv' /\ StepKind
  BY NextInv, NextFinal, NextKind DEF CascadeInv, EndInv, Final
<1>1. CASE Rooted
  <2>1. DepthOK' /\ ParentsHandedOut'
    BY <1>0, <1>1 DEF Rooted, CascadeInv, DepthOK, ParentsHandedOut, IInv, TypeOK, Row, NoJob
  <2> QED
    BY <1>0, <2>1 DEF CascadeInv
<1>2. CASE \E o \in Options, p \in Job \cup {NoJob} : add(o, p)
  BY <1>0, <1>2, AddDepth, AddParents DEF CascadeInv
<1> QED
  BY <1>0, <1>1, <1>2, KindRooted

\* Whatever cancels a job leaves none of its children open, nor theirs: the tree
\* is no deeper than the walk goes (100 levels in the code, where submissions are
\* held to five by default).  A cancel that threw marks the job alone.
THEOREM CancelCascadesHolds ==
    ASSUME "cancel_error" \notin Env, MaxSpawnDepth <= MaxCascade
    PROVE  Spec => CancelCascades
<1>1. Init => CascadeInv
  <2> SUFFICES ASSUME Init PROVE CascadeInv
    OBVIOUS
  <2>1. CapInv
    BY InitCap
  <2>2. DepthOK
    BY BoundsAssumption DEF Init, BlankRow, DepthOK
  <2> QED
    BY <2>1, <2>2 DEF CapInv, CascadeInv
<1>2. CascadeInv /\ [Next]_vars =>
        CascadeInv' /\ [\A p, c \in Job : /\ Open(job, p) /\ job'[p].status = "cancelled"
                                          /\ job[c].parent = p
                                          => ~Open(job', c)]_vars
  <2> SUFFICES ASSUME CascadeInv, [Next]_vars
               PROVE  \A p, c \in Job : /\ Open(job, p) /\ job'[p].status = "cancelled"
                                       /\ job[c].parent = p
                                       => ~Open(job', c)
    BY NextCascade
  <2> SUFFICES ASSUME NEW p \in Job, NEW c \in Job,
                      Open(job, p), job'[p].status = "cancelled", job[c].parent = p, Open(job', c)
               PROVE  FALSE
    OBVIOUS
  <2>0. IInv /\ StepKind /\ DepthOK /\ job \in [Job -> Row]
    BY NextKind DEF CascadeInv, EndInv, IInv, TypeOK
  <2>1. PICK id \in Job :
           LET S == CancelSet(job, id)
               t == Put(job, S, "cancelled")
           IN  p \in S /\ job' = Resolve(t, ParentsOf(t, S))
    BY <2>0, OnlyCancelCancels
  <2> DEFINE S == CancelSet(job, id)
             t == Put(job, S, "cancelled")
  <2>2. Open(t, c)
    BY <2>1 DEF Open, Resolve, Pending
  <2>3. c \notin S /\ Open(job, c)
    BY <2>0, <2>2 DEF Open, Put, Unlocked, Pending, Row
  <2>4. p \in Descendants(job, id) /\ Exists(job, c)
    BY <2>1, <2>3 DEF CancelSet, Open, Exists, Pending
  <2>5. c \in Descendants(job, id)
    BY <2>0, <2>4, DescendantsClosed
  <2> QED
    BY <2>3, <2>5 DEF CancelSet
<1> QED
  BY <1>1, <1>2, PTL DEF Spec, CancelCascades

================================================================================
