--------------------------- MODULE MinionQueueProofs ---------------------------
(***************************************************************************)
(* Proofs about MinionQueue, for every set of ids, every set of            *)
(* submissions and every environment.                                      *)
(*                                                                         *)
(* Most transactions are tame: they take rows away from workers without    *)
(* handing out a token or counting anything.  The first lemmas say which   *)
(* table updates are, and that tame steps keep the inductive invariant, so *)
(* that only add, claim, failJob and handleStalled need an argument of     *)
(* their own.                                                              *)
(***************************************************************************)
EXTENDS MinionQueue, TLAPS

\* Ids not handed out yet have nothing in their row.
Fresh ==
    \A j \in Job : j >= next_id =>
        /\ job[j].status = "none"
        /\ job[j].parent = NoJob
        /\ job[j].token = NoToken
        /\ job[j].started = 0
        /\ job[j].made = 0
        /\ job[j].stalled = 0

IInv == TypeOK /\ Fresh /\ Fenced /\ AttemptsAccounted /\ SnapshotCurrent

\* Row b may replace row a without handing out a token or counting anything.
TameRow(a, b) ==
    /\ b.started = a.started
    /\ b.made = a.made
    /\ b.stalled = a.stalled
    /\ b.token \in {NoToken, a.token}
    /\ b.status = "active" => a.status = "active"
    /\ a.status = "none" => b.status = "none"
    /\ b.parent \in {NoJob, a.parent}

Tame(t, u) ==
    /\ u \in [Job -> Row]
    /\ \A j \in Job : TameRow(t[j], u[j])

LEMMA PutTame ==
    ASSUME NEW t \in [Job -> Row], NEW S \in SUBSET Job,
           NEW status \in Status \ {"active"},
           \A j \in S : t[j].status # "none"
    PROVE  Tame(t, Put(t, S, status))
<1> DEFINE u == Put(t, S, status)
<1>1. ASSUME NEW j \in Job
      PROVE  u[j] \in Row /\ TameRow(t[j], u[j])
  <2> DEFINE row == [t[j] EXCEPT !.token = NoToken, !.lock = "null",
                                 !.status = status]
  <2>1. t[j] \in Row
    OBVIOUS
  <2>2. row \in Row /\ (t[j].status # "none" => TameRow(t[j], row))
    BY <2>1 DEF TameRow, Row, NoToken, NoJob
  <2>3. u[j] = IF j \in S THEN row ELSE t[j]
    BY <2>1 DEF Put, Unlocked, Row
  <2>4. TameRow(t[j], t[j])
    BY DEF TameRow
  <2> QED
    BY <2>1, <2>2, <2>3, <2>4
<1>2. u = [j \in Job |-> u[j]]
  BY DEF Put
<1> QED
  BY <1>1, <1>2 DEF Tame

LEMMA ResolveTame ==
    ASSUME NEW t \in [Job -> Row], NEW P
    PROVE  Tame(t, Resolve(t, P))
BY DEF Tame, TameRow, Resolve, Row, Status, Terminal, Pending, NoToken, NoJob

LEMMA DeleteTame ==
    ASSUME NEW t \in [Job -> Row], NEW S
    PROVE  Tame(t, Delete(t, S))
BY DEF Tame, TameRow, Delete, Row, Status, Terminal, Pending, NoToken, NoJob

LEMMA TameTrans ==
    ASSUME NEW t \in [Job -> Row], NEW u, NEW v, Tame(t, u), Tame(u, v)
    PROVE  Tame(t, v)
BY DEF Tame, TameRow, NoToken, NoJob

LEMMA ParentHookTame ==
    ASSUME NEW t \in [Job -> Row], NEW j \in Job
    PROVE  Tame(t, ParentHook(t, j))
<1> DEFINE p == t[j].parent
           u == [t EXCEPT ![j].parent = NoJob]
           f == [i \in Job |-> IF i = p /\ t[i].status = "waiting-children"
                               THEN [t[i] EXCEPT !.status = "failed"] ELSE t[i]]
<1>1. Tame(t, u) /\ u \in [Job -> Row]
  BY DEF Tame, TameRow, Row, NoToken, NoJob
<1>2. Tame(u, Resolve(u, {p}))
  BY <1>1, ResolveTame
<1>3. Tame(t, Resolve(u, {p}))
  BY <1>1, <1>2, TameTrans
<1>4. Tame(t, Resolve(t, {p}))
  BY ResolveTame
<1>5. Tame(t, f)
  BY DEF Tame, TameRow, Row, Status, Terminal, Pending, NoToken, NoJob
<1>6. ParentHook(t, j) \in {f, Resolve(u, {p}), Resolve(t, {p})}
  BY DEF ParentHook
<1> QED
  BY <1>3, <1>4, <1>5, <1>6

LEMMA ChildDoneType ==
    ASSUME NEW t, NEW S, NEW outcome
    PROVE  ChildDone(t, S, outcome) \subseteq Message
BY DEF ChildDone
--------------------------------------------------------------------------------
\* The claims b are some of the claims a; a claim may change phase.
Fewer(a, b) ==
    /\ b \subseteq Run
    /\ \A r \in b : \E q \in a : /\ q.job = r.job
                                 /\ q.token = r.token
                                 /\ q.made = r.made
    /\ \A r, s \in b : r.job = s.job /\ r.token = s.token => r = s

LEMMA FewerSubset ==
    ASSUME IInv, NEW b, b \subseteq runs
    PROVE  Fewer(runs, b)
BY DEF IInv, TypeOK, Fenced, Fewer

\* A tame step that adds no claim keeps the invariant.
LEMMA TameStep ==
    ASSUME IInv, Tame(job, job'), Fewer(runs, runs'), next_id' = next_id,
           inbox' \subseteq Message
    PROVE  IInv'
<1>1. TypeOK'
  BY DEF IInv, TypeOK, Tame, Fewer
<1>2. Fresh'
  BY DEF IInv, Fresh, Tame, TameRow, NoToken, NoJob
<1>3. Fenced'
  <2>1. \A j \in Job : job'[j].token \in {NoToken, job'[j].started}
    BY DEF IInv, Fenced, Tame, TameRow
  <2>2. ASSUME NEW r \in runs'
        PROVE  r.token \in 1..job'[r.job].started
    <3>1. PICK q \in runs : q.job = r.job /\ q.token = r.token
      BY DEF Fewer
    <3>2. r.job \in Job
      BY DEF Fewer, Run
    <3> QED
      BY <3>1, <3>2 DEF IInv, Fenced, Tame, TameRow
  <2> QED
    BY <2>1, <2>2 DEF Fenced, Fewer
<1>4. AttemptsAccounted'
  <2>1. ASSUME NEW j \in Job
        PROVE  job'[j].made + job'[j].stalled
                 + (IF job'[j].status = "active" THEN 1 ELSE 0) <= job'[j].started
    <3>1. TameRow(job[j], job'[j])
      BY DEF Tame
    <3>2. job[j] \in Row
      BY DEF IInv, TypeOK
    <3>3. job[j].made \in Nat /\ job[j].stalled \in Nat /\ job[j].started \in Nat
      BY <3>2 DEF Row
    <3>4. job[j].made + job[j].stalled
            + (IF job[j].status = "active" THEN 1 ELSE 0) <= job[j].started
      BY DEF IInv, AttemptsAccounted
    <3> QED
      BY <3>1, <3>3, <3>4 DEF TameRow
  <2> QED
    BY <2>1 DEF AttemptsAccounted
<1>5. SnapshotCurrent'
  <2>1. ASSUME NEW r \in runs', Owns(r)'
        PROVE  r.made = job'[r.job].made
    <3>1. PICK q \in runs : q.job = r.job /\ q.token = r.token /\ q.made = r.made
      BY DEF Fewer
    <3>2. r.job \in Job
      BY DEF Fewer, Run
    <3>3. TameRow(job[r.job], job'[r.job])
      BY <3>2 DEF Tame
    <3>4. q.token # NoToken
      BY <3>1 DEF IInv, Fenced, NoToken
    <3>5. Owns(q)
      BY <2>1, <3>1, <3>3, <3>4 DEF Owns, TameRow
    <3> QED
      BY <3>1, <3>3, <3>5 DEF IInv, SnapshotCurrent, TameRow
  <2> QED
    BY <2>1 DEF SnapshotCurrent
<1> QED
  BY <1>1, <1>2, <1>3, <1>4, <1>5 DEF IInv
--------------------------------------------------------------------------------
(* The tame actions.                                                        *)

LEMMA OpenExists ==
    ASSUME IInv, NEW j \in Job, Open(job, j)
    PROVE  job[j].status # "none"
BY DEF Open, Pending

\* Ending the jobs S and resolving their parents.
LEMMA PutResolveTame ==
    ASSUME IInv, NEW S \in SUBSET Job, NEW status \in Status \ {"active"},
           \A j \in S : job[j].status # "none"
    PROVE  /\ Put(job, S, status) \in [Job -> Row]
           /\ Tame(job, Put(job, S, status))
           /\ \A P : Tame(job, Resolve(Put(job, S, status), P))
<1>1. Tame(job, Put(job, S, status))
  BY PutTame DEF IInv, TypeOK
<1>2. Put(job, S, status) \in [Job -> Row]
  BY <1>1 DEF Tame
<1>3. ASSUME NEW P
      PROVE  Tame(job, Resolve(Put(job, S, status), P))
  BY <1>1, <1>2, ResolveTame, TameTrans DEF IInv, TypeOK
<1> QED
  BY <1>1, <1>2, <1>3

\* Deleting the row afterwards, or not.
LEMMA SweptTame ==
    ASSUME IInv, NEW t, Tame(job, t), NEW box, box \subseteq Message,
           NEW j, NEW remove, Swept(t, box, j, remove)
    PROVE  Tame(job, job') /\ inbox' \subseteq Message
<1>1. t \in [Job -> Row]
  BY DEF Tame
<1>2. Tame(job, Delete(t, {j}))
  BY <1>1, DeleteTame, TameTrans DEF IInv, TypeOK
<1> QED
  BY <1>2 DEF Swept, InboxWithout

LEMMA CancelledTame ==
    ASSUME IInv, NEW j \in Job, Cancelled(j)
    PROVE  Tame(job, job') /\ inbox' \subseteq Message
<1> DEFINE S == CancelSet(job, j)
           t == Put(job, S, "cancelled")
<1>1. S \subseteq Job /\ \A i \in S : job[i].status # "none"
  BY DEF CancelSet, Open, Pending
<1>2. Tame(job, Resolve(t, ParentsOf(t, S)))
  BY <1>1, PutResolveTame DEF Status, Terminal
<1>3. ChildDone(t, S, "cancelled") \subseteq Message
  BY ChildDoneType
<1> QED
  BY <1>2, <1>3 DEF Cancelled, IInv, TypeOK

LEMMA TimeOutTame ==
    ASSUME IInv, NEW S \in SUBSET Job, \A j \in S : job[j].status = "active",
           TimeOut(S)
    PROVE  IInv'
<1> DEFINE t == Put(job, S, "dead")
<1>1. Tame(job, Resolve(t, ParentsOf(t, S)))
  BY PutResolveTame DEF Status, Terminal
<1>2. ChildDone(t, S, "timeout") \subseteq Message
  BY ChildDoneType
<1>3. Tame(job, job') /\ inbox' \subseteq Message
  BY <1>1, <1>2 DEF TimeOut, IInv, TypeOK
<1> QED
  BY <1>3, FewerSubset, TameStep DEF TimeOut

LEMMA CommandStep ==
    ASSUME IInv, NEW j \in Job, Command(j)
    PROVE  IInv'
<1>0. inbox \subseteq Message /\ job \in [Job -> Row] /\ Fewer(runs, runs)
  BY FewerSubset DEF IInv, TypeOK
<1>1. CASE cancelJob(j)
  BY <1>0, <1>1, CancelledTame, TameStep DEF cancelJob
<1>2. CASE retryJob(j)
  <2>1. Tame(job, job')
    BY <1>2, PutResolveTame DEF retryJob, Status, Pending
  <2> QED
    BY <1>0, <1>2, <2>1, TameStep DEF retryJob
<1>3. CASE pauseJob(j)
  <2>1. Tame(job, job')
    BY <1>3, PutResolveTame DEF pauseJob, Status, Pending
  <2> QED
    BY <1>0, <1>3, <2>1, TameStep DEF pauseJob
<1>4. CASE resumeJob(j)
  <2>1. Tame(job, job')
    BY <1>4, PutResolveTame DEF resumeJob, Status, Pending
  <2> QED
    BY <1>0, <1>4, <2>1, TameStep DEF resumeJob
<1>5. CASE removeJob(j)
  BY <1>0, <1>5, DeleteTame, TameStep DEF removeJob, InboxWithout
<1>6. CASE removeChildDependency(j)
  <2>1. Tame(job, job')
    BY <1>0, <1>6 DEF removeChildDependency, Tame, TameRow, Row, NoJob, NoToken
  <2> QED
    BY <1>0, <1>6, <2>1, TameStep DEF removeChildDependency
<1> QED
  BY <1>1, <1>2, <1>3, <1>4, <1>5, <1>6 DEF Command

LEMMA ClockStep ==
    ASSUME IInv, NEW j \in Job, Clock(j)
    PROVE  IInv'
<1>0. inbox \subseteq Message /\ job \in [Job -> Row] /\ Fewer(runs, runs)
  BY FewerSubset DEF IInv, TypeOK
<1>1. Tame(job, job')
  <2>1. CASE LockExpires(j)
    BY ZenonT(60), <1>0, <2>1 DEF LockExpires, Tame, TameRow, Row
  <2>2. CASE DeadlinePasses(j)
    BY ZenonT(60), <1>0, <2>2 DEF DeadlinePasses, Tame, TameRow, Row
  <2>3. CASE AgePasses(j)
    BY ZenonT(60), <1>0, <2>3 DEF AgePasses, Tame, TameRow, Row
  <2> QED
    BY <2>1, <2>2, <2>3 DEF Clock
<1> QED
  BY <1>0, <1>1, TameStep DEF Clock, LockExpires, DeadlinePasses, AgePasses

LEMMA PromoteStep ==
    ASSUME IInv, promoteDelayed
    PROVE  IInv'
<1>1. PICK S \in SUBSET {j \in Job : job[j].status = "delayed"} :
        /\ job' = Put(job, S, "waiting")
        /\ UNCHANGED <<next_id, inbox, runs>>
  BY DEF promoteDelayed
<1>2. Tame(job, job')
  BY <1>1, PutResolveTame DEF Status, Pending
<1> QED
  BY <1>1, <1>2, FewerSubset, TameStep DEF IInv, TypeOK

\* The answers that only take a claim away.
LEMMA QuietStep ==
    ASSUME IInv, NEW r \in runs,
           QuietDefer(r) \/ QuietRelease(r) \/ QuietCancel(r)
             \/ QuietCancelError(r) \/ Dropped(r) \/ Crash(r) \/ renewLock(r)
    PROVE  IInv'
<1>0. /\ inbox \subseteq Message /\ job \in [Job -> Row] /\ Fewer(runs, runs)
      /\ Fewer(runs, runs \ {r}) /\ Tame(job, job) /\ r \in Run /\ r.job \in Job
  BY FewerSubset DEF IInv, TypeOK, Run, Tame, TameRow
<1>1. CASE QuietDefer(r)
  <2>1. Tame(job, Put(job, {r.job}, "delayed")) \/ ~Holds(r)
    BY <1>0, PutResolveTame DEF Holds, Exists, Status, Pending
  <2> QED
    BY <1>0, <1>1, <2>1, TameStep DEF QuietDefer
<1>2. CASE QuietRelease(r)
  <2> DEFINE row == [job[r.job] EXCEPT !.token = NoToken, !.lock = "null"]
  <2>1. Tame(job, [job EXCEPT ![r.job] = Unlocked(@)])
    <3>0. job[r.job] \in Row
      BY <1>0
    <3>1. row \in Row /\ TameRow(job[r.job], row)
      BY <3>0 DEF TameRow, Row, NoToken
    <3>2. [job EXCEPT ![r.job] = Unlocked(@)] = [job EXCEPT ![r.job] = row]
      BY DEF Unlocked
    <3> QED
      BY <1>0, <3>1, <3>2 DEF Tame, TameRow
  <2>2. Fewer(runs, (runs \ {r}) \cup {[r EXCEPT !.phase = "cancel"]})
    BY <1>0 DEF Fewer, Run, IInv, TypeOK, Fenced
  <2> QED
    BY <1>0, <1>2, <2>1, <2>2, TameStep DEF QuietRelease
<1>3. CASE QuietCancel(r)
  BY <1>0, <1>3, CancelledTame, TameStep DEF QuietCancel
<1>4. CASE QuietCancelError(r)
  <2>1. Exists(job, r.job) =>
          Tame(job, [job EXCEPT ![r.job].status = "cancelled"])
    BY <1>0 DEF Exists, Tame, TameRow, Row, Status, Terminal
  <2> QED
    BY <1>0, <1>4, <2>1, TameStep DEF QuietCancelError
<1>5. CASE Dropped(r) \/ Crash(r)
  BY <1>0, <1>5, TameStep DEF Dropped, Crash
<1>6. CASE renewLock(r)
  <2>1. Tame(job, job')
    BY <1>0, <1>6 DEF renewLock, Tame, TameRow, Row
  <2> QED
    BY <1>0, <1>6, <2>1, TameStep DEF renewLock
<1> QED
  BY <1>1, <1>2, <1>3, <1>4, <1>5, <1>6

LEMMA CompleteStep ==
    ASSUME IInv, NEW r \in runs, completeJob(r)
    PROVE  IInv'
<1> DEFINE t == Put(job, {r.job}, "completed")
           u == Resolve(t, ParentsOf(t, {r.job}))
           box == inbox \cup ChildDone(t, {r.job}, "complete")
<1>1. r.job \in Job /\ job[r.job].status # "none"
  BY DEF IInv, TypeOK, Run, completeJob, Owns
<1>2. Tame(job, u)
  BY <1>1, PutResolveTame DEF Status, Terminal
<1>3. box \subseteq Message
  BY ChildDoneType DEF IInv, TypeOK
<1>4. Tame(job, job') /\ inbox' \subseteq Message
  BY <1>2, <1>3, SweptTame DEF completeJob
<1> QED
  BY <1>4, FewerSubset, TameStep DEF completeJob
--------------------------------------------------------------------------------
(* The actions that count.                                                  *)

\* Tame except that the rows S count one more failure or stall each, which
\* their claims in force pay for.
Counted(S, u) ==
    /\ u \in [Job -> Row]
    /\ \A i \in Job \ S : TameRow(job[i], u[i])
    /\ \A j \in S :
        /\ job[j].status = "active"
        /\ u[j].status # "active"
        /\ u[j].token = NoToken
        /\ u[j].started = job[j].started
        /\ u[j].made + u[j].stalled = job[j].made + job[j].stalled + 1

LEMMA CountedTame ==
    ASSUME IInv, NEW S \in SUBSET Job, NEW u, NEW v, Counted(S, u), Tame(u, v)
    PROVE  Counted(S, v)
<1>1. \A i \in Job \ S : TameRow(job[i], v[i])
  BY DEF Counted, Tame, TameRow, NoToken, NoJob
<1> QED
  BY <1>1 DEF Counted, Tame, TameRow, NoToken

LEMMA CountedStep ==
    ASSUME IInv, NEW S \in SUBSET Job, Counted(S, job'), Fewer(runs, runs'),
           next_id' = next_id, inbox' \subseteq Message
    PROVE  IInv'
<1>0. job \in [Job -> Row] /\ next_id \in Nat
  BY JobAssumption DEF IInv, TypeOK
<1>1. TypeOK'
  BY DEF IInv, TypeOK, Counted, Fewer
<1>2. Fresh'
  <2>1. \A j \in S : j < next_id
    BY <1>0, JobAssumption DEF Counted, IInv, Fresh
  <2> QED
    BY <1>0, <2>1, JobAssumption DEF IInv, Fresh, Counted, TameRow, NoToken, NoJob
<1>3. Fenced'
  <2>1. \A i \in Job : job'[i].token \in {NoToken, job'[i].started}
    BY DEF IInv, Fenced, Counted, TameRow
  <2>2. ASSUME NEW r \in runs'
        PROVE  r.token \in 1..job'[r.job].started
    <3>1. PICK q \in runs : q.job = r.job /\ q.token = r.token
      BY DEF Fewer
    <3>2. r.job \in Job
      BY DEF Fewer, Run
    <3>3. job'[r.job].started = job[r.job].started
      BY <3>2 DEF Counted, TameRow
    <3> QED
      BY <3>1, <3>3 DEF IInv, Fenced
  <2> QED
    BY <2>1, <2>2 DEF Fenced, Fewer
<1>4. AttemptsAccounted'
  <2>1. ASSUME NEW i \in Job
        PROVE  job'[i].made + job'[i].stalled
                 + (IF job'[i].status = "active" THEN 1 ELSE 0) <= job'[i].started
    <3>2. job[i] \in Row
      BY <1>0
    <3>3. job[i].made \in Nat /\ job[i].stalled \in Nat /\ job[i].started \in Nat
      BY <3>2 DEF Row
    <3>4. job[i].made + job[i].stalled
            + (IF job[i].status = "active" THEN 1 ELSE 0) <= job[i].started
      BY DEF IInv, AttemptsAccounted
    <3> QED
      BY <3>3, <3>4 DEF Counted, TameRow
  <2> QED
    BY <2>1 DEF AttemptsAccounted
<1>5. SnapshotCurrent'
  <2>1. ASSUME NEW r \in runs', Owns(r)'
        PROVE  r.made = job'[r.job].made
    <3>1. PICK q \in runs : q.job = r.job /\ q.token = r.token /\ q.made = r.made
      BY DEF Fewer
    <3>2. r.job \in Job \ S
      BY <2>1 DEF Fewer, Run, Owns, Counted
    <3>3. TameRow(job[r.job], job'[r.job])
      BY <3>2 DEF Counted
    <3>4. q.token # NoToken
      BY <3>1 DEF IInv, Fenced, NoToken
    <3>5. Owns(q)
      BY <2>1, <3>1, <3>3, <3>4 DEF Owns, TameRow
    <3> QED
      BY <3>1, <3>3, <3>5 DEF IInv, SnapshotCurrent, TameRow
  <2> QED
    BY <2>1 DEF SnapshotCurrent
<1> QED
  BY <1>1, <1>2, <1>3, <1>4, <1>5 DEF IInv

\* What failJob and handleStalled do to the row of a job that was worked on.
FailedRow(a, status)  ==
    [[Unlocked(a) EXCEPT !.status = status] EXCEPT !.made = @ + 1]
StalledRow(a, status) ==
    [Unlocked(a) EXCEPT !.stalled = @ + 1, !.status = status]

PaidFor(a, b, status) ==
    /\ b.status = status
    /\ b.token = NoToken
    /\ b.started = a.started
    /\ b.made + b.stalled = a.made + a.stalled + 1

LEMMA FailedRowCounts ==
    ASSUME NEW a \in Row, NEW status \in Status \ {"active"}
    PROVE  FailedRow(a, status) \in Row /\ PaidFor(a, FailedRow(a, status), status)
<1> DEFINE b == FailedRow(a, status)
<1>1. a.made \in Nat /\ a.stalled \in Nat
  BY DEF Row
<1>2. /\ b.made = a.made + 1 /\ b.stalled = a.stalled
      /\ b.status = status /\ b.token = NoToken /\ b.started = a.started
  BY DEF FailedRow, Unlocked, Row
<1>3. b \in Row
  BY <1>1, a.made + 1 \in Nat DEF FailedRow, Unlocked, Row, NoToken
<1> HIDE DEF b
<1> QED
  BY <1>1, <1>2, <1>3 DEF PaidFor, b

LEMMA StalledRowCounts ==
    ASSUME NEW a \in Row, NEW status \in Status \ {"active"}
    PROVE  StalledRow(a, status) \in Row /\ PaidFor(a, StalledRow(a, status), status)
<1> DEFINE b == StalledRow(a, status)
<1>1. a.made \in Nat /\ a.stalled \in Nat
  BY DEF Row
<1>2. /\ b.made = a.made /\ b.stalled = a.stalled + 1
      /\ b.status = status /\ b.token = NoToken /\ b.started = a.started
  BY DEF StalledRow, Unlocked, Row
<1>3. b \in Row
  BY <1>1, a.stalled + 1 \in Nat DEF StalledRow, Unlocked, Row, NoToken
<1> HIDE DEF b
<1> QED
  BY <1>1, <1>2, <1>3 DEF PaidFor, b

LEMMA StalledStep ==
    ASSUME IInv, handleStalled
    PROVE  IInv'
<1> DEFINE next(j) == IF job[j].stalled + 1 < job[j].opt.max_stalled
                      THEN "waiting" ELSE "dead"
<1>0. /\ job \in [Job -> Row] /\ inbox \subseteq Message
      /\ Stalled \in SUBSET Job /\ \A j \in Stalled : job[j].status = "active"
  BY DEF IInv, TypeOK, Stalled
<1>1. /\ job' = [j \in Job |-> IF j \in Stalled THEN StalledRow(job[j], next(j))
                                                ELSE job[j]]
      /\ UNCHANGED <<next_id, inbox, runs>>
  BY DEF handleStalled, StalledRow
<1>2. \A j \in Stalled : /\ next(j) \in {"waiting", "dead"}
                          /\ next(j) \in Status \ {"active"}
  BY DEF Status, Terminal, Pending
<1> HIDE DEF next
<1>3. \A j \in Stalled : /\ StalledRow(job[j], next(j)) \in Row
                          /\ PaidFor(job[j], StalledRow(job[j], next(j)), next(j))
  BY <1>0, <1>2, StalledRowCounts
<1>4. Counted(Stalled, job')
  BY <1>0, <1>1, <1>2, <1>3 DEF Counted, TameRow, PaidFor
<1>5. Fewer(runs, runs)
  BY FewerSubset
<1> QED
  BY <1>0, <1>1, <1>4, <1>5, CountedStep

\* The transaction of failJob, whoever calls it.
LEMMA FailedWithStep ==
    ASSUME IInv, NEW j \in Job, job[j].status = "active",
           NEW status \in {"delayed", "dead"}, FailedWith(j, status),
           Fewer(runs, runs'), next_id' = next_id
    PROVE  IInv'
<1> DEFINE t == [Put(job, {j}, status) EXCEPT ![j].made = @ + 1]
           box == inbox \cup ChildDone(t, {j}, status)
<1>0. job \in [Job -> Row] /\ job[j] \in Row /\ inbox \subseteq Message
  BY DEF IInv, TypeOK
<1>1. FailedRow(job[j], status) \in Row
      /\ PaidFor(job[j], FailedRow(job[j], status), status)
  BY <1>0, FailedRowCounts DEF Status, Terminal, Pending
<1>2. Counted({j}, t)
  <2>1. t = [i \in Job |-> IF i = j THEN FailedRow(job[j], status) ELSE job[i]]
    BY DEF Put, FailedRow
  <2> QED
    BY <1>0, <1>1, <2>1 DEF Counted, TameRow, PaidFor
<1>3. box \subseteq Message
  BY <1>0, ChildDoneType
<1>4. Counted({j}, job') /\ inbox' \subseteq Message
  <2>1. CASE status = "delayed"
    BY <1>0, <1>2, <2>1 DEF FailedWith
  <2>2. CASE status = "dead"
    <3> DEFINE u == ParentHook(t, j)
    <3>1. Swept(u, box, j, job[j].opt.remove_on_fail)
      BY <2>2 DEF FailedWith
    <3>2. t \in [Job -> Row]
      BY <1>2 DEF Counted
    <3>3. Tame(t, u)
      BY <3>2, ParentHookTame
    <3>4. u \in [Job -> Row] /\ Counted({j}, u)
      BY <1>2, <3>3, CountedTame DEF Tame
    <3>5. Counted({j}, Delete(u, {j}))
      BY <3>4, DeleteTame, CountedTame
    <3> QED
      BY <1>3, <3>1, <3>4, <3>5 DEF Swept, InboxWithout
  <2> QED
    BY <2>1, <2>2
<1> HIDE DEF t
<1> QED
  BY <1>4, CountedStep

LEMMA FailStep ==
    ASSUME IInv, NEW r \in runs, failJob(r) \/ ForceEvict(r)
    PROVE  IInv'
<1>0. r.job \in Job /\ Fewer(runs, runs) /\ Fewer(runs, runs \ {r})
  BY FewerSubset DEF IInv, TypeOK, Run
<1>1. CASE failJob(r)
  <2>1. PICK status \in FailStatuses(r) : FailedWith(r.job, status)
    BY <1>1 DEF failJob
  <2>2. status \in {"delayed", "dead"}
    BY <2>1 DEF FailStatuses
  <2> QED
    BY <1>0, <1>1, <2>1, <2>2, FailedWithStep DEF failJob, Owns
<1>2. CASE ForceEvict(r)
  BY <1>0, <1>2, FailedWithStep DEF ForceEvict, Owns
<1> QED
  BY <1>1, <1>2
--------------------------------------------------------------------------------
(* The two actions that hand something out: a token, a row.                 *)

LEMMA ClaimStep ==
    ASSUME IInv, NEW j \in Job, claim(j)
    PROVE  IInv'
<1> DEFINE token == job[j].started + 1
           row == [job[j] EXCEPT !.status = "active", !.token = token,
                                 !.lock = "live", !.due = FALSE, !.started = token]
<1>0. /\ job \in [Job -> Row] /\ job[j] \in Row
      /\ job[j].made \in Nat /\ job[j].stalled \in Nat /\ job[j].started \in Nat
  BY DEF IInv, TypeOK, Row
<1>1. /\ job' = [job EXCEPT ![j] = row]
      /\ job[j].status = "waiting"
      /\ UNCHANGED <<next_id, inbox>>
  BY DEF claim, Claimable
<1>2. PICK verdict \in Verdicts(job[j].opt) :
        runs' = runs \cup {[job |-> j, token |-> token,
                            made |-> job[j].made, phase |-> verdict]}
  BY DEF claim
<1>3. verdict \in {"run", "skip", "defer"}
  <2>1. job[j].opt.quiet \in {"none", "skip", "defer"}
    BY <1>0, OptionsAssumption DEF Row, OptionType
  <2> QED
    BY <1>2, <2>1 DEF Verdicts
<1> DEFINE new == [job |-> j, token |-> token, made |-> job[j].made,
                   phase |-> verdict]
<1>4. new \in Run /\ token \in Nat
  BY <1>0, <1>3 DEF Run
<1>5. /\ row \in Row
      /\ row.status = "active" /\ row.token = token /\ row.started = token
      /\ row.made = job[j].made /\ row.stalled = job[j].stalled
      /\ row.parent = job[j].parent
  BY <1>0, <1>4 DEF Row, Status, Pending
<1> HIDE DEF row
<1>6. /\ job'[j] = row
      /\ \A i \in Job \ {j} : job'[i] = job[i]
      /\ job' \in [Job -> Row]
  BY <1>0, <1>1, <1>5
<1>7. \A r \in runs : r.job \in Job /\ r.token \in 1..job[r.job].started
  BY DEF IInv, TypeOK, Run, Fenced
<1>8. runs' = runs \cup {new}
  BY <1>2
<1>9. new.job = j /\ new.token = token /\ new.made = job[j].made
  OBVIOUS
<1> HIDE DEF new
<1>10. TypeOK'
  BY <1>1, <1>4, <1>6, <1>8 DEF IInv, TypeOK
<1>11. Fresh'
  BY <1>1, <1>6 DEF IInv, Fresh
<1>12. Fenced'
  <2>1. \A i \in Job : job'[i].token \in {NoToken, job'[i].started}
    BY <1>5, <1>6 DEF IInv, Fenced
  <2>2. \A r \in runs' : r.token \in 1..job'[r.job].started
    BY <1>0, <1>5, <1>6, <1>7, <1>8, <1>9
  <2>3. \A r \in runs : r.job = j => r.token # token
    BY <1>0, <1>7
  <2>4. \A r, s \in runs : r.job = s.job /\ r.token = s.token => r = s
    BY DEF IInv, Fenced
  <2>5. \A r, s \in runs' : r.job = s.job /\ r.token = s.token => r = s
    BY <1>8, <1>9, <2>3, <2>4
  <2> QED
    BY <2>1, <2>2, <2>5 DEF Fenced
<1>13. AttemptsAccounted'
  <2>1. job[j].made + job[j].stalled <= job[j].started
    BY <1>0, <1>1 DEF IInv, AttemptsAccounted
  <2>2. \A i \in Job \ {j} :
          job'[i].made + job'[i].stalled
            + (IF job'[i].status = "active" THEN 1 ELSE 0) <= job'[i].started
    BY <1>6 DEF IInv, AttemptsAccounted
  <2>3. job'[j].made + job'[j].stalled
          + (IF job'[j].status = "active" THEN 1 ELSE 0) <= job'[j].started
    BY <1>0, <1>5, <1>6, <2>1
  <2> QED
    BY <2>2, <2>3 DEF AttemptsAccounted
<1>14. SnapshotCurrent'
  <2>1. ASSUME NEW r \in runs', Owns(r)'
        PROVE  r.made = job'[r.job].made
    <3>1. CASE r = new
      BY <1>5, <1>6, <1>9, <3>1
    <3>2. CASE r \in runs /\ r.job = j
      <4>1. r.token = token
        BY <1>5, <1>6, <2>1, <3>2 DEF Owns
      <4> QED
        BY <1>0, <1>7, <3>2, <4>1
    <3>3. CASE r \in runs /\ r.job # j
      <4>1. job'[r.job] = job[r.job]
        BY <1>6, <1>7, <3>3
      <4> QED
        BY <2>1, <3>3, <4>1 DEF Owns, IInv, SnapshotCurrent
    <3> QED
      BY <1>8, <2>1, <3>1, <3>2, <3>3
  <2> QED
    BY <2>1 DEF SnapshotCurrent
<1> QED
  BY <1>10, <1>11, <1>12, <1>13, <1>14 DEF IInv

LEMMA AddStep ==
    ASSUME IInv, NEW o \in Options, NEW p \in Job \cup {NoJob}, add(o, p)
    PROVE  IInv'
<1> DEFINE id == next_id
           row == [BlankRow(o) EXCEPT
                     !.status = IF o.delay THEN "delayed" ELSE "waiting",
                     !.parent = p,
                     !.depth  = IF p = NoJob THEN 0 ELSE job[p].depth + 1]
           t == Inserted(job, id, o, p)
<1>0. /\ job \in [Job -> Row] /\ id \in Job /\ id \in Nat
      /\ job' = Suspend(t, p) /\ next_id' = id + 1 /\ UNCHANGED <<inbox, runs>>
  BY DEF IInv, TypeOK, add
<1>1. /\ row \in Row /\ row.status \in {"delayed", "waiting"}
      /\ row.token = NoToken /\ row.started = 0 /\ row.made = 0 /\ row.stalled = 0
  <2>1. (IF p = NoJob THEN 0 ELSE job[p].depth + 1) \in Nat
    BY <1>0 DEF Row
  <2> QED
    BY <2>1 DEF BlankRow, Row, Status, Pending, NoToken
<1>2. t = [job EXCEPT ![id] = row]
  BY DEF Inserted
<1> HIDE DEF row, t
<1>3. t \in [Job -> Row]
  BY <1>0, <1>1, <1>2
<1>4. Tame(t, job')
  BY <1>0, <1>3 DEF Suspend, Tame, TameRow, Row, Status, Pending, NoToken
<1>5. /\ job[id].status = "none" /\ job[id].parent = NoJob
      /\ job[id].token = NoToken /\ job[id].started = 0
      /\ job[id].made = 0 /\ job[id].stalled = 0
  BY <1>0 DEF IInv, Fresh
<1>6. /\ t[id] = row
      /\ \A i \in Job \ {id} : t[i] = job[i]
  BY <1>0, <1>2
<1>7. \A i \in Job :
        /\ job'[i].started = job[i].started
        /\ job'[i].made = job[i].made
        /\ job'[i].stalled = job[i].stalled
        /\ job'[i].token \in {NoToken, job[i].token}
        /\ job'[i].status = "active" => job[i].status = "active"
  BY <1>0, <1>1, <1>4, <1>5, <1>6 DEF Tame, TameRow
<1>8. TypeOK'
  BY <1>0, <1>4 DEF IInv, TypeOK, Tame
<1>9. Fresh'
  <2>1. ASSUME NEW i \in Job, i >= id + 1
        PROVE  i # id /\ i >= id
    BY <1>0, <2>1, JobAssumption
  <2> QED
    BY <1>0, <1>4, <1>6, <2>1 DEF IInv, Fresh, Tame, TameRow, NoToken, NoJob
<1>10. Fenced'
  BY <1>0, <1>7 DEF IInv, Fenced, TypeOK, Run
<1>11. AttemptsAccounted'
  <2>1. ASSUME NEW i \in Job
        PROVE  job'[i].made + job'[i].stalled
                 + (IF job'[i].status = "active" THEN 1 ELSE 0) <= job'[i].started
    <3>1. job[i] \in Row
      BY <1>0
    <3>2. job[i].made \in Nat /\ job[i].stalled \in Nat /\ job[i].started \in Nat
      BY <3>1 DEF Row
    <3>3. job[i].made + job[i].stalled
            + (IF job[i].status = "active" THEN 1 ELSE 0) <= job[i].started
      BY DEF IInv, AttemptsAccounted
    <3> QED
      BY <1>7, <3>2, <3>3
  <2> QED
    BY <2>1 DEF AttemptsAccounted
<1>12. SnapshotCurrent'
  <2>1. ASSUME NEW r \in runs, job'[r.job].status = "active",
               job'[r.job].token = r.token
        PROVE  r.made = job'[r.job].made
    <3>1. r.job \in Job /\ r.token # NoToken
      BY DEF IInv, TypeOK, Run, Fenced, NoToken
    <3>2. Owns(r)
      BY <1>7, <2>1, <3>1 DEF Owns
    <3> QED
      BY <1>7, <3>1, <3>2 DEF IInv, SnapshotCurrent
  <2> QED
    BY <1>0, <2>1 DEF SnapshotCurrent, Owns
<1> QED
  BY <1>8, <1>9, <1>10, <1>11, <1>12 DEF IInv
--------------------------------------------------------------------------------
LEMMA InitInv == Init => IInv
<1> SUFFICES ASSUME Init PROVE IInv
  OBVIOUS
<1>1. (CHOOSE o \in Options : TRUE) \in Options
  BY OptionsAssumption
<1>2. \A j \in Job : job[j] = BlankRow(CHOOSE o \in Options : TRUE)
  BY DEF Init
<1>3. BlankRow(CHOOSE o \in Options : TRUE) \in Row
  BY <1>1 DEF BlankRow, Row, NoJob, NoToken
<1>4. TypeOK
  BY <1>3 DEF Init, TypeOK
<1> QED
  BY <1>2, <1>4 DEF IInv, Init, Fresh, Fenced, AttemptsAccounted,
                    SnapshotCurrent, BlankRow

LEMMA NextInv == IInv /\ [Next]_vars => IInv'
<1> SUFFICES ASSUME IInv, [Next]_vars PROVE IInv'
  OBVIOUS
<1>1. CASE Submission
  BY <1>1, AddStep DEF Submission
<1>2. CASE \E j \in Job : Command(j) \/ claim(j) \/ Clock(j)
  BY <1>2, CommandStep, ClaimStep, ClockStep
<1>3. CASE \E r \in runs : Progress(r) \/ Meanwhile(r)
  BY <1>3, CompleteStep, FailStep, QuietStep DEF Progress, Meanwhile
<1>4. CASE Sweep
  <2>1. CASE handleTimeouts
    BY <2>1, TimeOutTame DEF handleTimeouts
  <2>2. CASE handleWallClockTimeouts
    BY <2>2, TimeOutTame DEF handleWallClockTimeouts
  <2> QED
    BY <1>4, <2>1, <2>2, StalledStep, PromoteStep DEF Sweep
<1>5. CASE UNCHANGED vars
  BY <1>5 DEF vars, IInv, TypeOK, Fresh, Fenced, AttemptsAccounted,
              SnapshotCurrent, Owns
<1> QED
  BY <1>1, <1>2, <1>3, <1>4, <1>5 DEF Next

\* The queue's tables and the claims its workers carry are always well typed:
\* no transaction writes a status, a parent or a counter the schema lacks.
THEOREM TypeCorrect == Spec => []TypeOK
<1>1. IInv => TypeOK
  BY DEF IInv
<1> QED
  BY <1>1, InitInv, NextInv, PTL DEF Spec

\* A worker whose claim was superseded can never match the row again, however
\* many workers, stalls and retries there are.
THEOREM FencingHolds == Spec => []Fenced
<1>1. IInv => Fenced
  BY DEF IInv
<1> QED
  BY <1>1, InitInv, NextInv, PTL DEF Spec

\* Failed attempts and stalls of a job never outnumber its claims.
THEOREM AttemptsAccountedHolds == Spec => []AttemptsAccounted
<1>1. IInv => AttemptsAccounted
  BY DEF IInv
<1> QED
  BY <1>1, InitInv, NextInv, PTL DEF Spec

\* The attempt count a worker read when it claimed its job is still the row's
\* when failJob accepts its answer, so retry-or-dead is decided on fresh data.
THEOREM SnapshotCurrentHolds == Spec => []SnapshotCurrent
<1>1. IInv => SnapshotCurrent
  BY DEF IInv
<1> QED
  BY <1>1, InitInv, NextInv, PTL DEF Spec
================================================================================
