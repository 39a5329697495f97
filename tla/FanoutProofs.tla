----------------------------- MODULE FanoutProofs ------------------------------
(***************************************************************************)
(* What holds of AgentFanout for every manifest, whatever the queue does   *)
(* meanwhile: an aggregator's report tells the truth about its children.   *)
(*                                                                         *)
(* Each step of the fan-out is a step of the queue or leaves it alone, so  *)
(* that what FamilyProofs says of children and messages holds here.        *)
(***************************************************************************)
EXTENDS AgentFanout, FamilyProofs

\* Row b may replace row a, and what the family knows of a is true of b.
KeptRow(a, b) ==
    /\ b.opt = a.opt /\ b.parent = a.parent
    /\ b.started >= a.started /\ b.stalled >= a.stalled
    /\ b.status # "none" /\ (a.status \in Terminal => b.status = a.status)

\* A step posts only how open jobs have just ended, and all in the same way.
Posts ==
    /\ inbox \subseteq inbox'
    /\ \E outcome \in Outcome : \A m \in inbox' \ inbox :
         m.outcome = outcome /\ Open(job, m.child) /\ job'[m.child].status = EndOf(outcome)

QueueKeeps ==
    /\ \A j \in Job : Exists(job, j) => KeptRow(job[j], job'[j])
    /\ \A j \in Job : job'[j].started <= MaxStarted
    /\ Posts
    /\ \A r \in runs : (Owns(r)' => Owns(r)) /\ (IsAggregator(r.job)' => IsAggregator(r.job))

NoneNew == \A j \in Job : Exists(job', j) => Exists(job, j)

-----------------------------------------------------------------------------
(* The invariant.                                                          *)

Claims == 1..MaxStarted
Spent == {"read", "over"}
Hand == [phase : {"none", "claimed", "checked", "empty"} \cup Spent, ids : Seq(Job), told : SUBSET Message]

FanoutTypes ==
    /\ cli \in [pc : {"aggregator", "children", "ids", "follow", "done"}, job : Job \cup {NoJob}, ids : Seq(Job)]
    /\ children_ids \in {<<>>, cli.ids} /\ hand \in [Claims -> Hand]
    /\ report \in [claim : Nat, ids : Seq(Job), told : SUBSET Message]
    /\ unread \subseteq inbox /\ report.told \subseteq inbox
    /\ \A j \in Job : job[j].started <= MaxStarted

\* There is one aggregator, and the children are its.
Family ==
    /\ cli.pc = "aggregator" => cli.job = NoJob /\ cli.ids = <<>> /\ inbox = {} /\ \A j \in Job : ~Exists(job, j)
    /\ \A j \in Job : IsAggregator(j) => j = cli.job
    /\ \A c \in Range(cli.ids) : Exists(job, c) /\ job[c].parent = cli.job
    /\ children_ids # <<>> => cli.pc \in {"follow", "done"}

\* A child has ended as its message says, and its messages say the same.
MessagesTrue ==
    /\ \A m \in inbox : job[m.child].status = EndOf(m.outcome)
    /\ \A m, n \in inbox : m.child = n.child => m.outcome = n.outcome

\* All children have ended, and the aggregator has been told.
AllTold ==
    \A c \in Range(cli.ids) :
        Ended(job, c) /\ (Unannounced(c) \/ \E m \in inbox : m.to = cli.job /\ m.child = c)

Covered(told) == \A c \in Range(cli.ids) : Unannounced(c) \/ \E m \in told : m.child = c

\* One of the claims has emptied the inbox.
Emptied(T) == \E t \in T : hand[t].phase \in Spent

Unread == \A m \in inbox : m.to = cli.job => m \in unread \/ Emptied(Claims)

FromRow(ids) == ids # <<>> => ids = children_ids /\ ids = cli.ids /\ AllTold

HandOK(t) ==
    LET h == hand[t]
    IN  /\ h.told \subseteq inbox /\ FromRow(h.ids)
        /\ h # NoHand => cli.job \in Job /\ IsAggregator(cli.job) /\ t <= job[cli.job].started
        /\ h.phase = "read" /\ h.ids # <<>> => Emptied(Claims \ {t}) \/ Covered(h.told)

\* A claim that is carried on has not given its answer, and one that found no lock will not find it.
RunOK(r) ==
    IsAggregator(r.job) => /\ hand[r.token].phase # "over"
                           /\ hand[r.token].phase = "empty" => ~Owns(r)

ReportOK ==
    /\ FromRow(report.ids)
    /\ report.ids # <<>> => Emptied(Claims \ {report.claim}) \/ Covered(report.told)

FanoutInv ==
    /\ WaitInv /\ PostedInv /\ FanoutTypes /\ Family /\ MessagesTrue /\ Unread /\ ReportOK
    /\ \A t \in Claims : HandOK(t)
    /\ \A r \in runs : RunOK(r)

-----------------------------------------------------------------------------
(* What the queue does to a row that exists, submissions and claims aside. *)

Lasting(a, b) ==
    /\ b.opt = a.opt /\ b.parent = a.parent /\ b.started = a.started /\ b.stalled >= a.stalled
    /\ b.status = "none" <=> a.status = "none"
    /\ a.status \in Terminal => b.status = a.status
    /\ b.token \in {NoToken, a.token}
    /\ b.status = "active" => a.status = "active"

Lasts(t, u) ==
    /\ u \in [Job -> Row]
    /\ \A j \in Job : Lasting(t[j], u[j])

LEMMA RowSame == ASSUME NEW a \in Row PROVE Lasting(a, a)
  BY DEF Lasting, Row

LEMMA LastsTrans ==
    ASSUME NEW t \in [Job -> Row], NEW u, NEW v, Lasts(t, u), Lasts(u, v)
    PROVE  Lasts(t, v)
  <1>1. ASSUME NEW j \in Job PROVE Lasting(t[j], v[j])
    <2>1. t[j].stalled \in Nat /\ u[j].stalled \in Nat /\ v[j].stalled \in Nat
      BY DEF Lasts, Row
    <2> QED BY <2>1 DEF Lasts, Lasting, NoToken
  <1> QED BY <1>1 DEF Lasts

LEMMA PutLasts ==
    ASSUME NEW t \in [Job -> Row], NEW S \in SUBSET Job, NEW status \in Status \ {"active"},
           \A j \in S : Open(t, j)
    PROVE  /\ Lasts(t, Put(t, S, status))
           /\ \A j \in S : Put(t, S, status)[j].status = status
  <1> DEFINE u == Put(t, S, status)
  <1>1. ASSUME NEW j \in Job
        PROVE  u[j] \in Row /\ Lasting(t[j], u[j]) /\ (j \in S => u[j].status = status)
    <2> DEFINE row == [t[j] EXCEPT !.token = NoToken, !.lock = "null", !.status = status]
    <2>1. t[j] \in Row
      OBVIOUS
    <2>2. row \in Row /\ row.status = status /\ (Open(t, j) => Lasting(t[j], row))
      <3>1. /\ row \in Row /\ row.status = status /\ row.token = NoToken
            /\ row.opt = t[j].opt /\ row.parent = t[j].parent /\ row.started = t[j].started
            /\ row.stalled = t[j].stalled /\ row.stalled \in Nat
        BY <2>1 DEF Row, NoToken, Status
      <3> HIDE DEF row
      <3> QED BY <3>1 DEF Lasting, Open, Terminal, Pending, Status
    <2>3. u[j] = IF j \in S THEN row ELSE t[j]
      BY <2>1 DEF Put, Unlocked, Row
    <2> QED BY <2>1, <2>2, <2>3, RowSame
  <1>2. u = [j \in Job |-> u[j]]
    BY DEF Put
  <1> QED BY <1>1, <1>2 DEF Lasts

LEMMA ResolveLasts ==
    ASSUME NEW t \in [Job -> Row], NEW P
    PROVE  Lasts(t, Resolve(t, P))
  BY DEF Lasts, Lasting, Resolve, Row, Status, Terminal, Pending, NoToken

\* The policies of this fan-out: a child that fails resolves its parent, and the aggregator has none.
LEMMA HookLasts ==
    ASSUME NEW t \in [Job -> Row], NEW j \in Job
    PROVE  Lasts(t, ParentHook(t, j))
  <1> DEFINE p == t[j].parent
             f == [i \in Job |-> IF i = p /\ t[i].status = "waiting-children"
                                 THEN [t[i] EXCEPT !.status = "failed"] ELSE t[i]]
  <1>1. t[j].opt.on_child_fail # "remove_dep"
    BY FanoutAssumption DEF Row
  <1>2. Lasts(t, f)
    BY DEF Lasts, Lasting, Row, Status, Terminal, Pending, NoToken
  <1>3. ParentHook(t, j) \in {f, Resolve(t, {p})}
    BY <1>1 DEF ParentHook
  <1> QED BY <1>2, <1>3, ResolveLasts

-----------------------------------------------------------------------------
(* The steps of the queue.                                                 *)

GoesOn ==
    /\ Lasts(job, job') /\ Posts
    /\ runs' \subseteq runs /\ next_id' = next_id

LEMMA NothingPosted ==
    ASSUME inbox' = inbox
    PROVE  Posts
  BY DEF Posts, Outcome

\* Some open jobs end together, and their parents are told and resolved.
LEMMA EndsGoOn ==
    ASSUME TypeOK, NEW S \in SUBSET Job, NEW status \in {"completed", "cancelled", "dead"},
           NEW outcome \in Outcome, status = EndOf(outcome), \A j \in S : Open(job, j),
           job' = Resolve(Put(job, S, status), ParentsOf(Put(job, S, status), S)),
           inbox' = inbox \cup ChildDone(Put(job, S, status), S, outcome),
           runs' \subseteq runs, next_id' = next_id
    PROVE  GoesOn
  <1> DEFINE t == Put(job, S, status)
  <1>1. job \in [Job -> Row] /\ status \in Status \ {"active"} /\ status \in Terminal
    BY DEF TypeOK, Status, Terminal
  <1>2. Lasts(job, t) /\ \A j \in S : t[j].status = status
    BY <1>1, PutLasts
  <1>3. Lasts(t, job') /\ Lasts(job, job')
    BY <1>1, <1>2, ResolveLasts, LastsTrans DEF Lasts
  <1>4. \A j \in S : job'[j].status = status
    BY <1>1, <1>2, <1>3 DEF Lasts, Lasting
  <1>5. \A m \in inbox' \ inbox : m.child \in S /\ m.outcome = outcome
    BY DEF ChildDone
  <1>6. Posts
    BY <1>4, <1>5 DEF Posts
  <1> QED BY <1>3, <1>6 DEF GoesOn

LEMMA FailsGoOn ==
    ASSUME IInv, NEW j \in Job, job[j].status = "active", NEW status \in {"delayed", "dead"},
           FailedWith(j, status), runs' \subseteq runs, next_id' = next_id
    PROVE  GoesOn
  <1> DEFINE t == FailedTable(j, status)
  <1>1. job \in [Job -> Row] /\ ~job[j].opt.remove_on_fail /\ Open(job, j) /\ status \in Status
    BY FanoutAssumption DEF IInv, TypeOK, Row, Open, Pending, Status, Terminal
  <1>2. Lasts(job, t) /\ t[j].status = status
    <2> DEFINE row == [job[j] EXCEPT !.token = NoToken, !.lock = "null", !.status = status, !.made = job[j].made + 1]
    <2>1. job[j] \in Row /\ job[j].made \in Nat
      BY <1>1 DEF Row
    <2>2. row \in Row /\ row.status = status /\ Lasting(job[j], row)
      <3>1. /\ row \in Row /\ row.status = status /\ row.token = NoToken
            /\ row.opt = job[j].opt /\ row.parent = job[j].parent /\ row.started = job[j].started
            /\ row.stalled = job[j].stalled /\ row.stalled \in Nat
        <4>1. status \in Status /\ job[j].made + 1 \in Nat
          BY <1>1, <2>1
        <4> QED BY <2>1, <4>1 DEF Row, NoToken
      <3> HIDE DEF row
      <3> QED BY <3>1 DEF Lasting, Terminal
    <2>3. t = [job EXCEPT ![j] = row]
      <3>1. \A i \in Job : t[i] = IF i = j THEN row ELSE job[i]
        BY <1>1, <2>1 DEF FailedTable, Put, Unlocked, Row
      <3>2. t = [i \in Job |-> t[i]]
        BY DEF FailedTable, Put
      <3> QED BY <3>1, <3>2, <1>1
    <2> QED BY <2>1, <2>2, <2>3, <1>1, RowSame DEF Lasts
  <1>3. CASE status = "delayed"
    BY <1>2, <1>3, NothingPosted DEF FailedWith, FailedTable, GoesOn
  <1>4. CASE status = "dead"
    <2>1. job' = ParentHook(t, j) /\ inbox' = inbox \cup ChildDone(t, {j}, "dead")
      BY <1>1, <1>4 DEF FailedWith, FailedTable, Swept
    <2>2. t \in [Job -> Row] /\ Lasts(t, job') /\ Lasts(job, job')
      BY <1>1, <1>2, <2>1, HookLasts, LastsTrans DEF Lasts
    <2>3. job'[j].status = "dead"
      BY <1>2, <1>4, <2>2 DEF Lasts, Lasting, Terminal
    <2>4. \A m \in inbox' \ inbox : m.child = j /\ m.outcome = "dead"
      BY <2>1 DEF ChildDone
    <2>5. Posts
      BY <1>1, <2>1, <2>3, <2>4 DEF Posts, EndOf, Outcome
    <2> QED BY <2>2, <2>5 DEF GoesOn
  <1> QED BY <1>3, <1>4

LEMMA TableGoesOn ==
    ASSUME IInv, Lasts(job, job'), inbox' = inbox, runs' \subseteq runs, next_id' = next_id
    PROVE  GoesOn
  BY NothingPosted DEF GoesOn

LEMMA RowGoesOn ==
    ASSUME IInv, NEW j \in Job, NEW row \in Row, Lasting(job[j], row), job' = [job EXCEPT ![j] = row],
           inbox' = inbox, runs' \subseteq runs, next_id' = next_id
    PROVE  GoesOn
  <1>1. Lasts(job, job')
    BY RowSame DEF Lasts, IInv, TypeOK
  <1> QED BY <1>1, TableGoesOn

LEMMA SameGoesOn ==
    ASSUME IInv, job' = job, inbox' = inbox, runs' \subseteq runs, next_id' = next_id
    PROVE  GoesOn
  <1>1. Lasts(job, job')
    BY RowSame DEF Lasts, IInv, TypeOK
  <1> QED BY <1>1, TableGoesOn

LEMMA CompleteGoesOn ==
    ASSUME IInv, NEW r \in runs, completeJob(r)
    PROVE  GoesOn
  <1>1. r.job \in Job /\ job[r.job] \in Row /\ TypeOK
    BY DEF IInv, TypeOK, Run
  <1>2. ~job[r.job].opt.remove_on_complete /\ Open(job, r.job)
    BY <1>1, FanoutAssumption DEF completeJob, Owns, Open, Pending, Row
  <1>3. \A j \in {r.job} : Open(job, j)
    BY <1>2
  <1>4. /\ job' = Resolve(Put(job, {r.job}, "completed"), ParentsOf(Put(job, {r.job}, "completed"), {r.job}))
        /\ inbox' = inbox \cup ChildDone(Put(job, {r.job}, "completed"), {r.job}, "complete")
        /\ runs' \subseteq runs /\ next_id' = next_id
    BY <1>2 DEF completeJob, Swept
  <1>5. "completed" = EndOf("complete") /\ "complete" \in Outcome /\ {r.job} \in SUBSET Job
    BY <1>1 DEF EndOf, Outcome
  <1> QED BY <1>1, <1>3, <1>4, <1>5, EndsGoOn

LEMMA RunGoesOn ==
    ASSUME IInv, NEW r \in runs,
           failJob(r) \/ ForceEvict(r) \/ Dropped(r) \/ Crash(r) \/ renewLock(r) \/ completeJob(r)
    PROVE  GoesOn
  <1>1. r.job \in Job /\ job \in [Job -> Row] /\ job[r.job] \in Row
    BY DEF IInv, TypeOK, Run
  <1>2. CASE failJob(r)
    <2>1. PICK status \in {"delayed", "dead"} : FailedWith(r.job, status)
      BY <1>2 DEF failJob, FailStatuses
    <2> QED BY <1>1, <1>2, <2>1, FailsGoOn DEF failJob, Owns
  <1>3. CASE ForceEvict(r)
    BY <1>1, <1>3, FailsGoOn DEF ForceEvict, Owns
  <1>4. CASE Dropped(r) \/ Crash(r)
    BY <1>4, SameGoesOn DEF Dropped, Crash
  <1>5. CASE renewLock(r)
    <2> DEFINE row == [job[r.job] EXCEPT !.lock = "live"]
    <2>1. row \in Row /\ Lasting(job[r.job], row)
      BY <1>1 DEF Lasting, Row
    <2> QED BY <1>1, <1>5, <2>1, RowGoesOn DEF renewLock
  <1> QED BY <1>2, <1>3, <1>4, <1>5, CompleteGoesOn

LEMMA ClockGoesOn ==
    ASSUME IInv, NEW j \in Job, cancelJob(j) \/ Clock(j)
    PROVE  GoesOn
  <1>1. job[j] \in Row
    BY DEF IInv, TypeOK
  <1>2. CASE cancelJob(j)
    <2> DEFINE S == CancelSet(job, j)
    <2>1. S \in SUBSET Job /\ \A i \in S : Open(job, i)
      BY DEF CancelSet
    <2>2. /\ job' = Resolve(Put(job, S, "cancelled"), ParentsOf(Put(job, S, "cancelled"), S))
          /\ inbox' = inbox \cup ChildDone(Put(job, S, "cancelled"), S, "cancelled")
          /\ runs' \subseteq runs /\ next_id' = next_id
      BY <1>2 DEF cancelJob, Cancelled
    <2>3. "cancelled" = EndOf("cancelled") /\ "cancelled" \in Outcome /\ TypeOK
      BY DEF EndOf, Outcome, IInv
    <2> QED BY <2>1, <2>2, <2>3, EndsGoOn
  <1>3. CASE LockExpires(j)
    <2> DEFINE row == [job[j] EXCEPT !.lock = "expired"]
    <2>1. row \in Row /\ Lasting(job[j], row)
      BY <1>1 DEF Lasting, Row
    <2> QED BY <1>3, <2>1, RowGoesOn DEF LockExpires
  <1>4. CASE DeadlinePasses(j)
    <2> DEFINE row == [job[j] EXCEPT !.due = TRUE]
    <2>1. row \in Row /\ Lasting(job[j], row)
      <3>1. row \in Row
        BY ZenonT(60), <1>1 DEF Row
      <3>2. job[j].stalled >= job[j].stalled
        BY <1>1 DEF Row
      <3>3. /\ row.opt = job[j].opt /\ row.parent = job[j].parent /\ row.started = job[j].started
            /\ row.stalled = job[j].stalled /\ row.status = job[j].status /\ row.token = job[j].token
        BY <1>1 DEF Row
      <3> QED BY <3>1, <3>2, <3>3 DEF Lasting
    <2> QED BY <1>4, <2>1, RowGoesOn DEF DeadlinePasses
  <1>5. CASE AgePasses(j)
    <2> DEFINE row == [job[j] EXCEPT !.overdue = TRUE]
    <2>1. row \in Row /\ Lasting(job[j], row)
      <3>1. row \in Row
        BY ZenonT(60), <1>1 DEF Row
      <3>2. job[j].stalled >= job[j].stalled
        BY <1>1 DEF Row
      <3>3. /\ row.opt = job[j].opt /\ row.parent = job[j].parent /\ row.started = job[j].started
            /\ row.stalled = job[j].stalled /\ row.status = job[j].status /\ row.token = job[j].token
        BY <1>1 DEF Row
      <3> QED BY <3>1, <3>2, <3>3 DEF Lasting
    <2> QED BY <1>5, <2>1, RowGoesOn DEF AgePasses
  <1> QED BY <1>2, <1>3, <1>4, <1>5 DEF Clock

LEMMA SweepGoesOn ==
    ASSUME IInv, Sweep
    PROVE  GoesOn
  <1>1. job \in [Job -> Row] /\ TypeOK
    BY DEF IInv, TypeOK
  <1>2. ASSUME NEW S \in SUBSET Job, \A j \in S : job[j].status = "active", TimeOut(S)
        PROVE  GoesOn
    <2>1. "dead" = EndOf("timeout") /\ "timeout" \in Outcome /\ \A j \in S : Open(job, j)
      BY <1>2 DEF EndOf, Outcome, Open, Pending
    <2>2. /\ job' = Resolve(Put(job, S, "dead"), ParentsOf(Put(job, S, "dead"), S))
          /\ inbox' = inbox \cup ChildDone(Put(job, S, "dead"), S, "timeout")
          /\ runs' \subseteq runs /\ next_id' = next_id
      BY <1>2 DEF TimeOut
    <2> QED BY <1>1, <2>1, <2>2, EndsGoOn
  <1>3. CASE handleTimeouts
    BY <1>2, <1>3 DEF handleTimeouts
  <1>4. CASE handleWallClockTimeouts
    BY <1>2, <1>4 DEF handleWallClockTimeouts
  <1>5. CASE promoteDelayed
    <2>1. PICK S \in SUBSET {j \in Job : job[j].status = "delayed"} :
            job' = Put(job, S, "waiting") /\ UNCHANGED <<next_id, inbox, runs>>
      BY <1>5 DEF promoteDelayed
    <2>2. S \in SUBSET Job /\ (\A j \in S : Open(job, j)) /\ "waiting" \in Status \ {"active"}
      BY DEF Open, Pending, Status
    <2> QED BY <1>1, <2>1, <2>2, PutLasts, TableGoesOn
  <1>6. CASE handleStalled
    <2>1. ASSUME NEW j \in Job
          PROVE  job'[j] \in Row /\ Lasting(job[j], job'[j])
      <3> DEFINE status == IF job[j].stalled + 1 < job[j].opt.max_stalled THEN "waiting" ELSE "dead"
                 row == [job[j] EXCEPT !.token = NoToken, !.lock = "null", !.stalled = job[j].stalled + 1, !.status = status]
      <3>1. job[j] \in Row /\ job[j].stalled \in Nat
        BY <1>1 DEF Row
      <3>2. /\ row \in Row /\ row.status = status /\ row.token = NoToken
            /\ row.opt = job[j].opt /\ row.parent = job[j].parent /\ row.started = job[j].started
            /\ row.stalled = job[j].stalled + 1
        <4>1. status \in Status /\ job[j].stalled + 1 \in Nat
          BY <3>1 DEF Status, Pending, Terminal
        <4> HIDE DEF status
        <4> QED BY <3>1, <4>1 DEF Row, NoToken
      <3>3. job'[j] = IF job[j].status = "active" /\ job[j].lock = "expired" THEN row ELSE job[j]
        BY <1>6, <3>1 DEF handleStalled, Stalled, Unlocked, Row
      <3>4. job[j].status = "active" => Lasting(job[j], row)
        <4> status \in {"waiting", "dead"}
          OBVIOUS
        <4> HIDE DEF row, status
        <4> QED BY <3>1, <3>2 DEF Lasting, Terminal
      <3> HIDE DEF row
      <3> QED BY <3>1, <3>2, <3>3, <3>4, RowSame
    <2>2. job' = [j \in Job |-> job'[j]]
      BY <1>6 DEF handleStalled
    <2>3. Lasts(job, job')
      BY <2>1, <2>2 DEF Lasts
    <2> QED BY <1>6, <2>3, TableGoesOn DEF handleStalled
  <1> QED BY <1>3, <1>4, <1>5, <1>6 DEF Sweep

-----------------------------------------------------------------------------
(* What the steps of the queue keep.                                       *)

LEMMA RunIs ==
    ASSUME IInv, NEW r \in runs
    PROVE  /\ r.job \in Job /\ r.token \in Nat \ {0} /\ r.token <= job[r.job].started /\ job[r.job].started \in Nat
           /\ job[r.job] \in Row
  BY DEF IInv, TypeOK, Run, Fenced, Row

LEMMA GoesOnKeeps ==
    ASSUME IInv, FanoutTypes, GoesOn
    PROVE  QueueKeeps /\ NoneNew
  <1>1. \A j \in Job : Lasting(job[j], job'[j]) /\ job[j].started \in Nat /\ job'[j].started \in Nat
    BY DEF GoesOn, Lasts, IInv, TypeOK, Row
  <1>2. \A j \in Job : Exists(job, j) => KeptRow(job[j], job'[j])
    BY <1>1 DEF Lasting, KeptRow, Exists
  <1>3. NoneNew
    BY <1>1 DEF NoneNew, Exists, Lasting
  <1>4. ASSUME NEW r \in runs
        PROVE  (Owns(r)' => Owns(r)) /\ (IsAggregator(r.job)' => IsAggregator(r.job))
    <2>1. r.token # 0 /\ r.job \in Job
      BY RunIs
    <2> QED BY <1>1, <1>3, <2>1 DEF Owns, Lasting, IsAggregator, NoneNew, NoToken
  <1>5. \A j \in Job : job'[j].started <= MaxStarted
    BY <1>1 DEF FanoutTypes, Lasting
  <1> QED BY <1>2, <1>3, <1>4, <1>5 DEF QueueKeeps, GoesOn

\* A claim starts a job: it hands out a token that none had.
LEMMA ClaimIs ==
    ASSUME IInv, NEW j \in Job, claim(j)
    PROVE  LET token == job[j].started + 1
           IN  /\ job[j].status = "waiting" /\ job[j].started < MaxStarted /\ token \in Nat
               /\ \A i \in Job \ {j} : job'[i] = job[i]
               /\ job'[j].started = token /\ job'[j].token = token /\ job'[j].status = "active"
               /\ job'[j].opt = job[j].opt /\ job'[j].parent = job[j].parent
               /\ job'[j].stalled = job[j].stalled
               /\ inbox' = inbox
               /\ \A r \in runs' : r \in runs \/ (r.job = j /\ r.token = token)
  <1>1. job[j] \in Row /\ job \in [Job -> Row]
    BY DEF IInv, TypeOK
  <1> QED BY <1>1 DEF claim, Claimable, Row

LEMMA ClaimKeeps ==
    ASSUME IInv, FanoutTypes, NEW j \in Job, claim(j)
    PROVE  QueueKeeps /\ NoneNew
  <1>1. \A i \in Job : job[i].started \in Nat /\ job[i].stalled \in Nat
    BY DEF IInv, TypeOK, Row
  <1>2. \A i \in Job : Exists(job, i) => KeptRow(job[i], job'[i])
    <2>1. job[j].status \notin Terminal
      BY ClaimIs DEF Terminal
    <2> QED BY <1>1, <2>1, ClaimIs DEF KeptRow, Exists
  <1>3. NoneNew
    BY ClaimIs DEF NoneNew, Exists
  <1>4. ASSUME NEW r \in runs
        PROVE  (Owns(r)' => Owns(r)) /\ (IsAggregator(r.job)' => IsAggregator(r.job))
    <2>1. r.token \in Nat /\ r.token <= job[r.job].started /\ r.job \in Job
      BY RunIs
    <2>2. r.job = j => ~Owns(r)'
      BY <1>1, <2>1, ClaimIs DEF Owns
    <2> QED BY <1>3, <2>1, <2>2, ClaimIs DEF Owns, IsAggregator, NoneNew
  <1>5. \A i \in Job : job'[i].started <= MaxStarted
    <2>1. job[j].started + 1 <= MaxStarted
      BY <1>1, ClaimIs, BoundsAssumption
    <2> QED BY <2>1, ClaimIs DEF FanoutTypes
  <1> QED BY <1>2, <1>3, <1>4, <1>5, ClaimIs, NothingPosted DEF QueueKeeps

LEMMA AddKeeps ==
    ASSUME IInv, FanoutTypes, NEW o \in Options, NEW p \in Job \cup {NoJob}, add(o, p)
    PROVE  /\ QueueKeeps /\ next_id \in Job /\ ~Exists(job, next_id) /\ Exists(job', next_id)
           /\ job'[next_id].parent = p /\ job'[next_id].opt = o
           /\ \A j \in Job \ {next_id} : Exists(job', j) => Exists(job, j) /\ job'[j].opt = job[j].opt
           /\ inbox' = inbox /\ runs' = runs
  <1>1. \A i \in Job : job[i].started \in Nat /\ job[i].stalled \in Nat
    BY DEF IInv, TypeOK, Row
  <1>2. ASSUME NEW i \in Job, Exists(job, i)
        PROVE  KeptRow(job[i], job'[i])
    <2>1. i # next_id
      BY <1>2, AddIs DEF Exists
    <2>2. \/ job'[i].status = job[i].status
          \/ job[i].status \in Ready /\ job'[i].status = "waiting-children"
      BY <2>1, AddIs
    <2>3. job[i].status \in Ready => job[i].status \notin Terminal
      BY DEF Ready, Terminal
    <2>4. job'[i].status # "none"
      BY <1>2, <2>2 DEF Exists
    <2> QED BY <1>1, <2>1, <2>2, <2>3, <2>4, AddIs DEF KeptRow
  <1>3. \A j \in Job \ {next_id} : Exists(job', j) => Exists(job, j) /\ job'[j].opt = job[j].opt
    BY AddIs DEF Exists, Ready
  <1>4. ASSUME NEW r \in runs
        PROVE  (Owns(r)' => Owns(r)) /\ (IsAggregator(r.job)' => IsAggregator(r.job))
    <2>1. r.token \in Nat \ {0} /\ r.token <= job[r.job].started /\ r.job \in Job
      BY RunIs
    <2>2. r.job # next_id
      BY <2>1, AddIs
    <2>3. job'[r.job] = job[r.job] \/ job'[r.job].status = "waiting-children"
      BY <2>1, <2>2, AddIs
    <2> QED BY <1>3, <2>1, <2>2, <2>3 DEF Owns, IsAggregator
  <1>5. \A i \in Job : job'[i].started <= MaxStarted
    <2>1. 0 <= MaxStarted
      BY BoundsAssumption
    <2> QED BY <2>1, AddIs DEF FanoutTypes
  <1>6. inbox' = inbox /\ runs' = runs
    BY DEF add
  <1> QED BY <1>2, <1>3, <1>4, <1>5, <1>6, AddIs, NothingPosted DEF QueueKeeps, Exists

\* Every step of the fan-out is a step of the queue, or leaves it alone.
LEMMA StepsOfTheQueue ==
    ASSUME [FanoutNext]_allVars, FanoutTypes
    PROVE  [Next]_vars
  <1>1. CASE SubmitAggregator
    <2>1. Submission
      BY <1>1, FanoutAssumption DEF SubmitAggregator, QueueStep, Submission
    <2> QED BY <2>1 DEF Next
  <1>2. CASE SubmitChild
    <2>1. cli.job \in Job \cup {NoJob}
      BY DEF FanoutTypes
    <2>2. Submission
      BY <1>2, <2>1, FanoutAssumption DEF SubmitChild, QueueStep, Submission
    <2> QED BY <2>2 DEF Next
  <1>3. CASE \E j \in Job : ClaimAggregator(j)
    BY <1>3 DEF ClaimAggregator, QueueStep, Next
  <1>4. CASE \E r \in runs : Report(r) \/ LoseClaim(r)
    BY <1>4 DEF Report, LoseClaim, QueueStep, Next, Progress, Meanwhile
  <1>5. CASE Otherwise
    BY <1>5 DEF Otherwise, QueueStep, Next, Command, Progress, Meanwhile
  <1>6. CASE \/ WriteIds \/ followJob \/ CliEnds \/ UNCHANGED allVars
             \/ \E r \in runs : CheckLock(r) \/ ReadInbox(r)
    BY <1>6 DEF WriteIds, followJob, CliEnds, CheckLock, ReadInbox, allVars, vars
  <1> QED BY <1>1, <1>2, <1>3, <1>4, <1>5, <1>6 DEF FanoutNext

LEMMA FamilyGoesOn ==
    ASSUME [FanoutNext]_allVars, WaitInv, PostedInv, FanoutTypes
    PROVE  WaitInv' /\ PostedInv'
  <1>1. NothingReopened /\ "resume" \notin Env /\ "cancel_error" \notin Env
    BY FanoutAssumption DEF NothingReopened
  <1> QED BY <1>1, StepsOfTheQueue, NextWait, NextPosted

-----------------------------------------------------------------------------
(* What the reports rest on is kept.                                       *)

LEMMA MessagesKeep ==
    ASSUME IInv, MessagesTrue, QueueKeeps
    PROVE  MessagesTrue'
  <1>1. \A m \in inbox : m.child \in Job /\ job[m.child].status \in Terminal
    BY DEF MessagesTrue, IInv, TypeOK, Message, EndOf, Terminal
  <1>2. \A m \in inbox : job'[m.child].status = job[m.child].status
    BY <1>1 DEF QueueKeeps, KeptRow, Exists, Terminal
  <1>3. PICK outcome \in Outcome : \A m \in inbox' \ inbox :
          m.outcome = outcome /\ Open(job, m.child) /\ job'[m.child].status = EndOf(outcome)
    BY DEF QueueKeeps, Posts
  <1>4. \A m \in inbox, n \in inbox' \ inbox : m.child # n.child
    BY <1>1, <1>3 DEF Open, Terminal, Pending
  <1>5. \A m \in inbox' : job'[m.child].status = EndOf(m.outcome)
    BY <1>2, <1>3 DEF MessagesTrue
  <1>6. \A m, n \in inbox' : m.child = n.child => m.outcome = n.outcome
    BY <1>3, <1>4 DEF MessagesTrue
  <1> QED BY <1>5, <1>6 DEF MessagesTrue

LEMMA ChildrenKeep ==
    ASSUME IInv, IInv', FanoutTypes, Family, QueueKeeps, cli'.ids = cli.ids, cli'.job = cli.job
    PROVE  /\ AllTold => AllTold'
           /\ \A c \in Range(cli.ids) : Unannounced(c) => Unannounced(c)'
  <1>1. Range(cli.ids) \subseteq Job
    BY DEF FanoutTypes, Range
  <1>2. ASSUME NEW c \in Range(cli.ids)
        PROVE  (Unannounced(c) => Unannounced(c)') /\ (Ended(job, c) => Ended(job', c))
    <2>1. c \in Job /\ KeptRow(job[c], job'[c])
      BY <1>1, <1>2 DEF Family, QueueKeeps
    <2>2. job[c] \in Row /\ job'[c] \in Row /\ job[c].opt \in OptionType
      BY <2>1, OptionsAssumption DEF IInv, TypeOK, Row
    <2>3. job[c].opt.max_stalled \in Nat /\ job[c].stalled \in Nat /\ job'[c].stalled \in Nat
      BY <2>2 DEF Row, OptionType
    <2> QED BY <2>1, <2>3 DEF Unannounced, StalledOut, KeptRow, Ended, Terminal
  <1>3. inbox \subseteq inbox'
    BY DEF QueueKeeps, Posts
  <1>4. AllTold => AllTold'
    BY <1>2, <1>3 DEF AllTold
  <1> QED BY <1>2, <1>4

\* A step that submits nothing keeps all that its hands do not touch.
HandsGoOn ==
    /\ hand' \in [Claims -> Hand]
    /\ \A t \in Claims : hand[t].phase \in Spent => hand'[t].phase \in Spent

LEMMA HandKeeps ==
    ASSUME IInv, IInv', FanoutTypes, Family, Family', QueueKeeps, HandsGoOn,
           cli' = cli, children_ids' = children_ids, NEW t \in Claims, HandOK(t), hand'[t] = hand[t]
    PROVE  HandOK(t)'
  <1>1. (AllTold => AllTold') /\ \A c \in Range(cli.ids) : Unannounced(c) => Unannounced(c)'
    BY ChildrenKeep
  <1>2. inbox \subseteq inbox'
    BY DEF QueueKeeps, Posts
  <1>3. FromRow(hand[t].ids) => FromRow(hand[t].ids)'
    BY <1>1 DEF FromRow
  <1>4. Emptied(Claims \ {t}) => Emptied(Claims \ {t})'
    BY DEF Emptied, HandsGoOn
  <1>5. ASSUME cli.job \in Job, IsAggregator(cli.job), t <= job[cli.job].started
        PROVE  IsAggregator(cli.job)' /\ t <= job'[cli.job].started
    <2>1. KeptRow(job[cli.job], job'[cli.job])
      BY <1>5 DEF QueueKeeps, IsAggregator
    <2>2. job[cli.job].started \in Nat /\ job'[cli.job].started \in Nat /\ t \in Nat
      BY <1>5 DEF IInv, TypeOK, Row, Claims
    <2> QED BY <1>5, <2>1, <2>2 DEF KeptRow, IsAggregator, Exists
  <1>6. Covered(hand[t].told) => Covered(hand[t].told)'
    BY <1>1 DEF Covered
  <1>7. hand[t] # NoHand =>
          cli'.job \in Job /\ IsAggregator(cli.job)' /\ t <= job'[cli'.job].started
    BY <1>5 DEF HandOK
  <1>8. hand[t].phase = "read" /\ hand[t].ids # <<>> => Emptied(Claims \ {t})' \/ Covered(hand[t].told)'
    BY <1>4, <1>6 DEF HandOK
  <1> QED BY <1>2, <1>3, <1>7, <1>8 DEF HandOK

LEMMA ReportKeeps ==
    ASSUME IInv, IInv', FanoutTypes, Family, QueueKeeps, HandsGoOn,
           cli' = cli, children_ids' = children_ids, ReportOK, report' = report
    PROVE  ReportOK'
  <1>1. (AllTold => AllTold') /\ \A c \in Range(cli.ids) : Unannounced(c) => Unannounced(c)'
    BY ChildrenKeep
  <1>2. Covered(report.told) => Covered(report.told)'
    BY <1>1 DEF Covered
  <1>3. Emptied(Claims \ {report.claim}) => Emptied(Claims \ {report.claim})'
    BY DEF Emptied, HandsGoOn
  <1> QED BY <1>1, <1>2, <1>3 DEF ReportOK, FromRow

LEMMA RunKeeps ==
    ASSUME QueueKeeps, NEW r \in runs, RunOK(r), hand'[r.token] = hand[r.token]
    PROVE  RunOK(r)'
  BY DEF RunOK, QueueKeeps

LEMMA FamilyKeeps ==
    ASSUME IInv, IInv', Family, FanoutTypes, QueueKeeps, NoneNew, cli' = cli, children_ids' = children_ids
    PROVE  Family'
  <1>1. \A j \in Job : IsAggregator(j)' => IsAggregator(j)
    BY DEF IsAggregator, QueueKeeps, NoneNew, KeptRow
  <1>2. \A c \in Range(cli.ids) : c \in Job
    BY DEF FanoutTypes, Range
  <1>3. \A c \in Range(cli.ids) : Exists(job', c) /\ job'[c].parent = cli.job
    BY <1>2 DEF Family, QueueKeeps, KeptRow, Exists
  <1>4. cli.pc = "aggregator" => inbox' = {} /\ \A j \in Job : ~Exists(job', j)
    <2>1. \A m \in inbox' \ inbox : m.child \in Job /\ Exists(job, m.child)
      BY DEF IInv, TypeOK, Message, QueueKeeps, Posts, Open, Pending, Exists
    <2> QED BY <2>1 DEF Family, NoneNew
  <1> QED BY <1>1, <1>3, <1>4 DEF Family

-----------------------------------------------------------------------------
(* A case for every action.                                                *)

\* What a step that submits nothing keeps, whatever it does to its own hand.
Rest == /\ WaitInv' /\ PostedInv' /\ FanoutTypes' /\ Family' /\ MessagesTrue'

LEMMA RestKeeps ==
    ASSUME FanoutInv, WaitInv', PostedInv', QueueKeeps, NoneNew, HandsGoOn,
           cli' = cli, children_ids' = children_ids, unread' \subseteq unread \cup (inbox' \ inbox),
           report' \in [claim : Nat, ids : Seq(Job), told : SUBSET Message], report'.told \subseteq inbox
    PROVE  /\ Rest
           /\ \A t \in Claims : hand'[t] = hand[t] => HandOK(t)'
           /\ report' = report => ReportOK'
  <1>1. IInv /\ IInv' /\ FanoutTypes /\ Family /\ MessagesTrue /\ ReportOK /\ \A t \in Claims : HandOK(t)
    BY DEF FanoutInv, WaitInv, EndInv
  <1>2. inbox \subseteq inbox' /\ \A j \in Job : job'[j].started <= MaxStarted
    BY DEF QueueKeeps, Posts
  <1>3. FanoutTypes'
    BY <1>1, <1>2 DEF FanoutTypes, HandsGoOn
  <1>4. Family' /\ MessagesTrue'
    BY <1>1, FamilyKeeps, MessagesKeep
  <1>5. \A t \in Claims : hand'[t] = hand[t] => HandOK(t)'
    BY <1>1, <1>4, HandKeeps
  <1>6. report' = report => ReportOK'
    BY <1>1, ReportKeeps
  <1> QED BY <1>3, <1>4, <1>5, <1>6 DEF Rest

LEMMA UnreadKeeps ==
    ASSUME Unread, HandsGoOn, cli' = cli, unread' = unread \cup (inbox' \ inbox)
    PROVE  Unread'
  BY DEF Unread, Emptied, HandsGoOn

\* What the queue does to other jobs than the aggregator, or with the lock of its claims.
LEMMA OtherwiseKeeps ==
    ASSUME FanoutInv, WaitInv', PostedInv', QueueKeeps, NoneNew, hand' = hand,
           cli' = cli, children_ids' = children_ids, report' = report,
           unread' = unread \cup (inbox' \ inbox),
           \A r \in runs' : r \in runs \/ ~IsAggregator(r.job)'
    PROVE  FanoutInv'
  <1>1. HandsGoOn /\ FanoutTypes /\ Unread
    BY DEF FanoutInv, FanoutTypes, HandsGoOn
  <1>2. report' \in [claim : Nat, ids : Seq(Job), told : SUBSET Message] /\ report'.told \subseteq inbox
    BY <1>1 DEF FanoutTypes
  <1>3. Rest /\ (\A t \in Claims : HandOK(t)') /\ ReportOK'
    BY <1>1, <1>2, RestKeeps
  <1>4. Unread'
    BY <1>1, UnreadKeeps
  <1>5. \A r \in runs' : RunOK(r)'
    <2> SUFFICES ASSUME NEW r \in runs' PROVE RunOK(r)'
      OBVIOUS
    <2>1. CASE r \in runs
      BY <2>1, RunKeeps DEF FanoutInv
    <2>2. CASE ~IsAggregator(r.job)'
      BY <2>2 DEF RunOK
    <2> QED BY <2>1, <2>2
  <1> QED BY <1>3, <1>4, <1>5 DEF FanoutInv, Rest

\* A claim that is carried on is one of the aggregator's.
LEMMA CarriedOn ==
    ASSUME FanoutInv, NEW r \in runs
    PROVE  /\ r.token \in Claims /\ (IsAggregator(r.job) => r.job = cli.job)
           /\ \A s \in runs : IsAggregator(r.job) /\ IsAggregator(s.job) /\ s.token = r.token => s = r
  <1>1. IInv /\ FanoutTypes /\ Family
    BY DEF FanoutInv, WaitInv, EndInv
  <1>2. ASSUME NEW s \in runs
        PROVE  s.token \in Claims /\ s.job \in Job /\ (IsAggregator(s.job) => s.job = cli.job)
    <2>1. s.job \in Job /\ s.token \in Nat \ {0} /\ s.token <= job[s.job].started /\ job[s.job].started \in Nat
      BY <1>1, RunIs
    <2>2. s.token \in Claims
      BY <1>1, <2>1, BoundsAssumption DEF FanoutTypes, Claims
    <2> QED BY <1>1, <2>1, <2>2 DEF Family
  <1> QED BY <1>1, <1>2 DEF IInv, Fenced

\* A claim of the aggregator is given up or answered: nobody carries it any more.
LEMMA RunGone ==
    ASSUME FanoutInv, NEW r \in runs, IsAggregator(r.job), QueueKeeps, runs' \subseteq runs \ {r},
           \A t \in Claims \ {r.token} : hand'[t] = hand[t]
    PROVE  /\ RunOK(r) /\ HandOK(r.token)
           /\ \A s \in runs' : RunOK(s)'
  <1>1. r.token \in Claims
    BY CarriedOn
  <1>2. ASSUME NEW s \in runs'
        PROVE  RunOK(s)'
    <2>1. s \in runs /\ s # r /\ s.token \in Claims
      BY CarriedOn
    <2>2. IsAggregator(s.job)' => IsAggregator(s.job)
      BY <2>1 DEF QueueKeeps
    <2>3. IsAggregator(s.job)' => hand'[s.token] = hand[s.token]
      BY <2>1, <2>2, CarriedOn
    <2> QED BY <2>1, <2>3 DEF RunOK, QueueKeeps, FanoutInv
  <1> QED BY <1>1, <1>2 DEF FanoutInv

LEMMA HandPhase ==
    ASSUME NEW h \in Hand, NEW phase \in {"none", "claimed", "checked", "empty"} \cup Spent
    PROVE  LET g == [h EXCEPT !.phase = phase]
           IN  g \in Hand /\ g.phase = phase /\ g.ids = h.ids /\ g.told = h.told
  BY DEF Hand

LEMMA HandBlank == NoHand \in Hand /\ NoHand.phase = "none" /\ NoHand.ids = <<>> /\ NoHand.told = {}
  BY DEF Hand, NoHand

LEMMA SubmitAggregatorKeeps ==
    ASSUME FanoutInv, WaitInv', PostedInv', SubmitAggregator
    PROVE  FanoutInv'
  <1>1. /\ IInv /\ IInv' /\ FanoutTypes /\ Family /\ ReportOK
        /\ (\A t \in Claims : HandOK(t)) /\ \A r \in runs : RunOK(r)
    BY DEF FanoutInv, WaitInv, EndInv
  <1>2. AggregatorOptions \in Options /\ NoJob \in Job \cup {NoJob} /\ NoJob \notin Job
    BY FanoutAssumption, JobAssumption DEF NoJob
  <1>3. /\ add(AggregatorOptions, NoJob) /\ unread' = unread \cup (inbox' \ inbox)
        /\ cli.pc = "aggregator" /\ cli' = [cli EXCEPT !.pc = "children", !.job = next_id]
        /\ UNCHANGED <<children_ids, hand, report>>
    BY DEF SubmitAggregator, QueueStep
  <1>4. /\ QueueKeeps /\ next_id \in Job /\ Exists(job', next_id) /\ job'[next_id].parent = NoJob
        /\ \A j \in Job \ {next_id} : Exists(job', j) => Exists(job, j)
        /\ inbox' = inbox /\ runs' = runs
    BY <1>1, <1>2, <1>3, AddKeeps
  <1>5. cli.ids = <<>> /\ cli.job = NoJob /\ inbox = {} /\ children_ids = <<>> /\ \A j \in Job : ~Exists(job, j)
    BY <1>1, <1>3 DEF Family, FanoutTypes
  <1>6. cli'.ids = <<>> /\ cli'.job = next_id /\ cli'.pc = "children"
    BY <1>1, <1>3, <1>5 DEF FanoutTypes
  <1>7. \A t \in Claims : hand[t] = NoHand
    BY <1>1, <1>2, <1>5 DEF HandOK
  <1>8. report.ids = <<>> /\ Range(cli'.ids) = {}
    BY <1>1, <1>5, <1>6 DEF ReportOK, FromRow, Range
  <1>9. FanoutTypes'
    BY <1>1, <1>3, <1>4, <1>5, <1>6 DEF FanoutTypes, QueueKeeps
  <1>10. Family' /\ MessagesTrue' /\ Unread'
    BY <1>3, <1>4, <1>5, <1>6, <1>8 DEF Family, MessagesTrue, Unread, IsAggregator
  <1>11. ReportOK' /\ \A t \in Claims : HandOK(t)'
    BY <1>3, <1>5, <1>7, <1>8, HandBlank DEF ReportOK, FromRow, HandOK
  <1>12. \A r \in runs' : RunOK(r)'
    BY <1>1, <1>3, <1>4, RunKeeps
  <1> QED BY <1>9, <1>10, <1>11, <1>12 DEF FanoutInv

\* Before the command has written the ids, nobody has any.
LEMMA NoIdsYet ==
    ASSUME FanoutInv, cli.pc \notin {"follow", "done"}
    PROVE  children_ids = <<>> /\ report.ids = <<>> /\ \A t \in Claims : hand[t].ids = <<>>
  BY DEF FanoutInv, Family, HandOK, ReportOK, FromRow

LEMMA SubmitChildKeeps ==
    ASSUME FanoutInv, WaitInv', PostedInv', SubmitChild
    PROVE  FanoutInv'
  <1>1. /\ IInv /\ IInv' /\ FanoutTypes /\ Family /\ MessagesTrue /\ Unread
        /\ (\A t \in Claims : HandOK(t)) /\ \A r \in runs : RunOK(r)
    BY DEF FanoutInv, WaitInv, EndInv
  <1>2. ChildOptions \in Options /\ cli.job \in Job \cup {NoJob} /\ ChildOptions # AggregatorOptions
    BY <1>1, FanoutAssumption DEF FanoutTypes
  <1>3. /\ add(ChildOptions, cli.job) /\ unread' = unread \cup (inbox' \ inbox) /\ cli.pc = "children"
        /\ cli' = [cli EXCEPT !.ids = Append(@, next_id), !.pc = IF Len(cli.ids) + 1 = Entries THEN "ids" ELSE @]
        /\ UNCHANGED <<children_ids, hand, report>>
    BY DEF SubmitChild, QueueStep
  <1>4. /\ QueueKeeps /\ next_id \in Job /\ ~Exists(job, next_id) /\ Exists(job', next_id)
        /\ job'[next_id].parent = cli.job /\ job'[next_id].opt = ChildOptions
        /\ \A j \in Job \ {next_id} : Exists(job', j) => Exists(job, j) /\ job'[j].opt = job[j].opt
        /\ inbox' = inbox /\ runs' = runs
    BY <1>1, <1>2, <1>3, AddKeeps
  <1>5. children_ids = <<>> /\ report.ids = <<>> /\ \A t \in Claims : hand[t].ids = <<>>
    BY <1>3, NoIdsYet
  <1>6. cli.ids \in Seq(Job)
    BY <1>1 DEF FanoutTypes
  <1>7. cli'.ids = Append(cli.ids, next_id) /\ cli'.job = cli.job /\ cli'.pc \in {"children", "ids"}
    BY <1>1, <1>3 DEF FanoutTypes
  <1>8. \A c \in Range(cli'.ids) : c = next_id \/ c \in Range(cli.ids)
    BY <1>4, <1>6, <1>7 DEF Range
  <1>9. FanoutTypes'
    <2>1. cli' \in [pc : {"aggregator", "children", "ids", "follow", "done"}, job : Job \cup {NoJob}, ids : Seq(Job)]
      <3>1. Append(cli.ids, next_id) \in Seq(Job)
        BY <1>4, <1>6
      <3> DEFINE pc == IF Len(cli.ids) + 1 = Entries THEN "ids" ELSE cli.pc
                 ids == Append(cli.ids, next_id)
      <3>2. cli' = [cli EXCEPT !.ids = ids, !.pc = pc] /\ pc \in {"children", "ids"}
        BY <1>1, <1>3 DEF FanoutTypes
      <3> HIDE DEF pc, ids
      <3> QED BY <1>1, <3>1, <3>2 DEF FanoutTypes, ids
    <2>2. unread' \subseteq inbox' /\ report'.told \subseteq inbox' /\ \A j \in Job : job'[j].started <= MaxStarted
      BY <1>1, <1>3, <1>4 DEF FanoutTypes, QueueKeeps
    <2> QED BY <1>1, <1>3, <1>5, <2>1, <2>2 DEF FanoutTypes
  <1>10. Family'
    <2>1. \A j \in Job : IsAggregator(j)' => j = cli.job
      BY <1>1, <1>2, <1>4 DEF Family, IsAggregator
    <2>2. \A c \in Range(cli'.ids) : Exists(job', c) /\ job'[c].parent = cli.job
      <3>1. \A c \in Range(cli.ids) : c \in Job
        BY <1>6 DEF Range
      <3> QED BY <1>1, <1>4, <1>8, <3>1 DEF Family, QueueKeeps, KeptRow, Exists
    <2> QED BY <1>3, <1>5, <1>7, <2>1, <2>2 DEF Family
  <1>11. MessagesTrue' /\ Unread'
    BY <1>1, <1>3, <1>4, <1>7, MessagesKeep DEF Unread, Emptied
  <1>12. ASSUME NEW t \in Claims
         PROVE  HandOK(t)'
    <2>1. hand'[t] = hand[t] /\ hand[t].ids = <<>> /\ HandOK(t)
      BY <1>1, <1>3, <1>5
    <2>2. ASSUME hand[t] # NoHand
          PROVE  cli.job \in Job /\ IsAggregator(cli.job)' /\ t <= job'[cli.job].started
      <3>1. cli.job \in Job /\ IsAggregator(cli.job) /\ t <= job[cli.job].started
        BY <2>1, <2>2 DEF HandOK
      <3>2. KeptRow(job[cli.job], job'[cli.job])
        BY <1>4, <3>1 DEF QueueKeeps, IsAggregator
      <3>3. job[cli.job].started \in Nat /\ job'[cli.job].started \in Nat /\ t \in Nat
        BY <1>1, <3>1 DEF IInv, TypeOK, Row, Claims
      <3> QED BY <1>7, <3>1, <3>2, <3>3 DEF KeptRow, IsAggregator, Exists
    <2> QED BY <1>4, <1>7, <2>1, <2>2 DEF HandOK, FromRow
  <1>13. \A r \in runs' : RunOK(r)'
    BY <1>1, <1>3, <1>4, RunKeeps
  <1>14. ReportOK'
    BY <1>3, <1>5 DEF ReportOK, FromRow
  <1> QED BY <1>9, <1>10, <1>11, <1>12, <1>13, <1>14 DEF FanoutInv

\* The ids are written, or the command does no more than wait, or ends.
LEMMA CommandKeeps ==
    ASSUME FanoutInv, WaitInv', PostedInv', WriteIds \/ followJob \/ CliEnds
    PROVE  FanoutInv'
  <1>1. /\ FanoutTypes /\ Family /\ MessagesTrue /\ Unread /\ ReportOK
        /\ (\A t \in Claims : HandOK(t)) /\ \A r \in runs : RunOK(r)
    BY DEF FanoutInv
  <1>2. /\ job' = job /\ inbox' = inbox /\ runs' = runs /\ unread' = unread /\ hand' = hand /\ report' = report
        /\ cli'.pc \in {"follow", "done"} /\ cli'.ids = cli.ids /\ cli'.job = cli.job
        /\ cli' \in [pc : {"aggregator", "children", "ids", "follow", "done"}, job : Job \cup {NoJob}, ids : Seq(Job)]
    BY <1>1 DEF WriteIds, followJob, CliEnds, vars, FanoutTypes
  <1>3. children_ids' = children_ids \/ (children_ids' = cli.ids /\ cli.pc = "ids")
    BY DEF WriteIds, followJob, CliEnds
  <1>4. cli.pc = "ids" => report.ids = <<>> /\ \A t \in Claims : hand[t].ids = <<>>
    BY NoIdsYet
  <1>5. FanoutTypes'
    BY <1>1, <1>2, <1>3 DEF FanoutTypes
  <1>6. Family' /\ MessagesTrue' /\ Unread'
    BY <1>1, <1>2 DEF Family, MessagesTrue, Unread, Emptied, IsAggregator
  <1>7. AllTold' <=> AllTold
    BY <1>2 DEF AllTold, Unannounced, StalledOut
  <1>8. ReportOK'
    BY <1>1, <1>2, <1>3, <1>4, <1>7 DEF ReportOK, FromRow, Emptied, Covered, Unannounced, StalledOut
  <1>9. \A t \in Claims : HandOK(t)'
    BY <1>1, <1>2, <1>3, <1>4, <1>7 DEF HandOK, FromRow, Emptied, Covered, Unannounced, StalledOut, IsAggregator
  <1>10. \A r \in runs' : RunOK(r)'
    BY <1>1, <1>2 DEF RunOK, IsAggregator, Owns
  <1> QED BY <1>5, <1>6, <1>8, <1>9, <1>10 DEF FanoutInv

\* When the aggregator can be claimed its children have ended and it has been told.
LEMMA AllEnded ==
    ASSUME FanoutInv, IsAggregator(cli.job), cli.job \in Job, job[cli.job].status = "waiting"
    PROVE  AllTold
  <1>1. IInv /\ Family /\ FanoutTypes /\ ReadyAlone /\ ChildDonePosted
    BY DEF FanoutInv, WaitInv, PostedInv, EndInv
  <1>2. OpenChildren(job, cli.job) = {} /\ Open(job, cli.job) /\ cli.job # NoJob
    BY <1>1, JobAssumption DEF ReadyAlone, Ready, Open, Pending, NoJob
  <1>3. ASSUME NEW c \in Range(cli.ids)
        PROVE  Ended(job, c) /\ (Unannounced(c) \/ \E m \in inbox : m.to = cli.job /\ m.child = c)
    <2>1. c \in Job /\ Exists(job, c) /\ job[c].parent = cli.job /\ job[c] \in Row
      BY <1>1 DEF FanoutTypes, Family, Range, IInv, TypeOK
    <2>2. Ended(job, c)
      BY <1>2, <2>1 DEF OpenChildren, Open, Ended, Exists, Row, Status
    <2> QED BY <1>1, <1>2, <2>1, <2>2 DEF ChildDonePosted
  <1> QED BY <1>3 DEF AllTold

LEMMA ClaimAggregatorKeeps ==
    ASSUME FanoutInv, WaitInv', PostedInv', NEW j \in Job, ClaimAggregator(j)
    PROVE  FanoutInv'
  <1> DEFINE h == [phase |-> "claimed", ids |-> children_ids, told |-> {}]
  <1> SUFFICES ASSUME NEW t, t = job[j].started + 1
               PROVE  FanoutInv'
    OBVIOUS
  <1>1. /\ IInv /\ IInv' /\ FanoutTypes /\ Family /\ Unread
        /\ (\A u \in Claims : HandOK(u)) /\ \A r \in runs : RunOK(r)
    BY DEF FanoutInv, WaitInv, EndInv
  <1>2. /\ IsAggregator(j) /\ claim(j) /\ unread' = unread \cup (inbox' \ inbox)
        /\ hand' = [hand EXCEPT ![job'[j].started] = h]
        /\ cli' = cli /\ children_ids' = children_ids /\ report' = report
    BY DEF ClaimAggregator, QueueStep
  <1>3. QueueKeeps /\ NoneNew
    BY <1>1, <1>2, ClaimKeeps
  <1>4. /\ job[j].status = "waiting" /\ job[j].started \in Nat /\ job[j].started < MaxStarted /\ job'[j].started = t
        /\ inbox' = inbox /\ \A r \in runs' : r \in runs \/ (r.job = j /\ r.token = t)
    BY <1>1, <1>2, ClaimIs DEF IInv, TypeOK, Row
  <1>5. j = cli.job /\ t \in Claims
    BY <1>1, <1>2, <1>4, BoundsAssumption DEF Family, Claims
  <1>6. hand[t] = NoHand
    <2>1. HandOK(t) /\ ~(t <= job[cli.job].started)
      BY <1>1, <1>4, <1>5
    <2> QED BY <2>1 DEF HandOK
  <1>7. h \in Hand /\ children_ids \in {<<>>, cli.ids} /\ hand \in [Claims -> Hand]
    <2>1. children_ids \in {<<>>, cli.ids} /\ hand \in [Claims -> Hand] /\ cli.ids \in Seq(Job)
      BY <1>1 DEF FanoutTypes
    <2>2. children_ids \in Seq(Job) /\ {} \in SUBSET Message
      <3>1. <<>> \in Seq(Job) /\ {} \in SUBSET Message
        OBVIOUS
      <3> QED BY <2>1, <3>1
    <2> QED BY <2>1, <2>2 DEF Hand
  <1>8. hand'[t] = h /\ (\A u \in Claims \ {t} : hand'[u] = hand[u]) /\ hand' \in [Claims -> Hand]
    BY <1>2, <1>4, <1>5, <1>7
  <1>9. HandsGoOn
    BY <1>6, <1>8, HandBlank DEF HandsGoOn, Spent
  <1>10. /\ Rest /\ ReportOK'
         /\ \A u \in Claims : hand'[u] = hand[u] => HandOK(u)'
    BY <1>1, <1>2, <1>3, <1>9, RestKeeps DEF FanoutTypes
  <1>11. AllTold'
    BY <1>1, <1>2, <1>3, <1>4, <1>5, AllEnded, ChildrenKeep
  <1>12. HandOK(t)'
    <2>1. cli'.job \in Job /\ IsAggregator(cli.job)' /\ t <= job'[cli'.job].started
      <3>1. KeptRow(job[j], job'[j])
        BY <1>2, <1>3 DEF QueueKeeps, IsAggregator
      <3> QED BY <1>2, <1>4, <1>5, <3>1 DEF IsAggregator, KeptRow, Exists
    <2>2. FromRow(children_ids)'
      BY <1>2, <1>7, <1>11 DEF FromRow
    <2>3. /\ hand'[t].phase = "claimed" /\ hand'[t].ids = children_ids' /\ hand'[t].told = {}
      BY <1>2, <1>8
    <2> QED BY <2>1, <2>2, <2>3 DEF HandOK
  <1>13. \A u \in Claims : HandOK(u)'
    BY <1>8, <1>10, <1>12
  <1>14. Unread'
    BY <1>1, <1>2, <1>9, UnreadKeeps
  <1>15. ASSUME NEW r \in runs'
         PROVE  RunOK(r)'
    <2>1. CASE r.token = t
      BY <1>8, <2>1 DEF RunOK
    <2>2. CASE r \in runs /\ r.token # t
      <3>1. r.job \in Job /\ r.token \in Nat \ {0} /\ r.token <= job[r.job].started /\ job[r.job].started \in Nat
        BY <1>1, <2>2, RunIs
      <3>2. r.token \in Claims
        BY <1>1, <3>1, BoundsAssumption DEF FanoutTypes, Claims
      <3> QED BY <1>1, <1>3, <1>8, <2>2, <3>2, RunKeeps
    <2> QED BY <1>4, <2>1, <2>2
  <1> QED BY <1>10, <1>13, <1>14, <1>15 DEF FanoutInv, Rest

\* The tables of the queue are as they were: it is only the handler that moves.
LEMMA StillKeeps ==
    ASSUME FanoutInv, job' = job, inbox' = inbox, runs' = runs
    PROVE  QueueKeeps /\ NoneNew
  <1>1. IInv /\ FanoutTypes
    BY DEF FanoutInv, WaitInv, EndInv
  <1>2. \A j \in Job : Exists(job, j) => KeptRow(job[j], job'[j])
    BY <1>1 DEF KeptRow, Exists, IInv, TypeOK, Row
  <1>3. Posts
    BY NothingPosted
  <1>4. \A r \in runs : (Owns(r)' => Owns(r)) /\ (IsAggregator(r.job)' => IsAggregator(r.job))
    BY DEF Owns, IsAggregator, Exists
  <1>5. NoneNew /\ \A j \in Job : job'[j].started <= MaxStarted
    BY <1>1 DEF NoneNew, Exists, FanoutTypes
  <1> QED BY <1>2, <1>3, <1>4, <1>5 DEF QueueKeeps

LEMMA CheckLockKeeps ==
    ASSUME FanoutInv, WaitInv', PostedInv', NEW r \in runs, CheckLock(r)
    PROVE  FanoutInv'
  <1> DEFINE t == r.token
             phase == IF Owns(r) THEN "checked" ELSE "empty"
  <1>1. /\ FanoutTypes /\ Unread /\ \A s \in runs : RunOK(s)
    BY DEF FanoutInv
  <1>2. /\ job' = job /\ inbox' = inbox /\ runs' = runs /\ unread' = unread
        /\ cli' = cli /\ children_ids' = children_ids /\ report' = report
        /\ hand[t].phase = "claimed" /\ hand' = [hand EXCEPT ![t].phase = phase] /\ IsAggregator(r.job)
    BY DEF CheckLock, vars
  <1>3. t \in Claims /\ (\A s \in runs : IsAggregator(s.job) /\ s.token = t => s = r) /\ HandOK(t)
    BY <1>2, CarriedOn DEF FanoutInv
  <1>4. /\ hand[t] \in Hand /\ hand' = [hand EXCEPT ![t] = [hand[t] EXCEPT !.phase = phase]]
        /\ phase \in {"checked", "empty"} /\ hand \in [Claims -> Hand]
    BY <1>1, <1>2, <1>3 DEF FanoutTypes
  <1>5. /\ hand'[t] \in Hand /\ hand'[t].phase = phase /\ hand'[t].ids = hand[t].ids /\ hand'[t].told = hand[t].told
        /\ (\A u \in Claims \ {t} : hand'[u] = hand[u]) /\ hand' \in [Claims -> Hand]
    BY <1>3, <1>4, HandPhase
  <1>6. HandsGoOn /\ QueueKeeps /\ NoneNew
    BY <1>2, <1>5, StillKeeps DEF HandsGoOn, Spent
  <1>7. Rest /\ ReportOK' /\ \A u \in Claims : hand'[u] = hand[u] => HandOK(u)'
    BY <1>1, <1>2, <1>6, RestKeeps DEF FanoutTypes
  <1>8. HandOK(t)'
    <2>1. FromRow(hand[t].ids)'
      BY <1>2, <1>3, <1>5 DEF HandOK, FromRow, AllTold, Unannounced, StalledOut
    <2>2. hand[t] # NoHand
      BY <1>2, HandBlank
    <2>3. cli'.job \in Job /\ IsAggregator(cli.job)' /\ t <= job'[cli'.job].started
      BY <1>2, <1>3, <2>2 DEF HandOK, IsAggregator, Exists
    <2> QED BY <1>2, <1>3, <1>4, <1>5, <2>1, <2>3 DEF HandOK
  <1>9. \A u \in Claims : HandOK(u)'
    BY <1>5, <1>7, <1>8
  <1>10. ASSUME NEW s \in runs'
         PROVE  RunOK(s)'
    <2>1. CASE s = r
      <3>1. Owns(r)' => Owns(r)
        BY <1>2 DEF Owns
      <3> QED BY <1>5, <2>1, <3>1 DEF RunOK
    <2>2. CASE s # r
      <3>1. s \in runs /\ s.token \in Claims /\ (IsAggregator(s.job) => s.token # t)
        BY <1>2, <1>3, <2>2, CarriedOn
      <3> QED BY <1>1, <1>2, <1>5, <3>1 DEF RunOK, IsAggregator, Owns
    <2> QED BY <2>1, <2>2
  <1>11. Unread'
    BY <1>1, <1>2, <1>6 DEF Unread, Emptied, HandsGoOn
  <1> QED BY <1>7, <1>9, <1>10, <1>11 DEF FanoutInv, Rest

LEMMA ReadInboxKeeps ==
    ASSUME FanoutInv, WaitInv', PostedInv', NEW r \in runs, ReadInbox(r)
    PROVE  FanoutInv'
  <1> DEFINE t == r.token
  <1> SUFFICES ASSUME NEW told, told = {m \in unread : m.to = r.job}
               PROVE  FanoutInv'
    OBVIOUS
  <1>1. /\ FanoutTypes /\ Unread /\ (\A s \in runs : RunOK(s)) /\ IInv
    BY DEF FanoutInv, WaitInv, EndInv
  <1>2. /\ job' = job /\ inbox' = inbox /\ runs' = runs /\ unread' = {m \in unread : m.to # r.job}
        /\ cli' = cli /\ children_ids' = children_ids /\ report' = report /\ IsAggregator(r.job)
        /\ hand[t].phase = "checked" /\ hand' = [hand EXCEPT ![t].phase = "read", ![t].told = told]
    BY DEF ReadInbox, vars
  <1>3. t \in Claims /\ r.job = cli.job /\ (\A s \in runs : IsAggregator(s.job) /\ s.token = t => s = r) /\ HandOK(t)
    BY <1>2, CarriedOn DEF FanoutInv
  <1>4. hand[t] \in Hand /\ hand \in [Claims -> Hand] /\ told \in SUBSET Message /\ told \subseteq inbox
    BY <1>1, <1>3 DEF FanoutTypes, IInv, TypeOK
  <1>5. /\ hand'[t] = [hand[t] EXCEPT !.phase = "read", !.told = told]
        /\ (\A u \in Claims \ {t} : hand'[u] = hand[u])
    BY <1>2, <1>3, <1>4
  <1>6. hand'[t] \in Hand /\ hand'[t].phase = "read" /\ hand'[t].ids = hand[t].ids /\ hand'[t].told = told
    <2> HIDE DEF t
    <2> QED BY <1>4, <1>5 DEF Hand, Spent
  <1>7. hand' \in [Claims -> Hand] /\ HandsGoOn
    <2>1. hand' \in [Claims -> Hand]
      BY <1>2, <1>3, <1>4, <1>5, <1>6
    <2> QED BY <1>5, <1>6, <2>1 DEF HandsGoOn, Spent
  <1>8. QueueKeeps /\ NoneNew
    BY <1>2, StillKeeps
  <1>9. Rest /\ ReportOK' /\ \A u \in Claims : hand'[u] = hand[u] => HandOK(u)'
    BY <1>1, <1>2, <1>7, <1>8, RestKeeps DEF FanoutTypes
  <1>10. HandOK(t)'
    <2>1. FromRow(hand[t].ids)'
      BY <1>2, <1>3, <1>6 DEF HandOK, FromRow, AllTold, Unannounced, StalledOut
    <2>2. hand[t] # NoHand
      BY <1>2, HandBlank
    <2>3. cli'.job \in Job /\ IsAggregator(cli.job)' /\ t <= job'[cli'.job].started
      BY <1>2, <1>3, <2>2 DEF HandOK, IsAggregator, Exists
    <2>4. hand[t].ids # <<>> => Emptied(Claims \ {t})' \/ Covered(told)'
      <3>1. Emptied(Claims) => Emptied(Claims \ {t})'
        BY <1>2, <1>5 DEF Emptied, Spent
      <3>2. AllTold /\ ~Emptied(Claims) => Covered(told)
        BY <1>1, <1>3 DEF AllTold, Covered, Unread
      <3>3. Covered(told) => Covered(told)'
        BY <1>2, <1>3 DEF Covered, Unannounced, StalledOut
      <3> QED BY <1>3, <3>1, <3>2, <3>3 DEF HandOK, FromRow
    <2> QED BY <1>2, <1>4, <1>6, <2>1, <2>3, <2>4 DEF HandOK
  <1>11. \A u \in Claims : HandOK(u)'
    BY <1>5, <1>9, <1>10
  <1>12. ASSUME NEW s \in runs'
         PROVE  RunOK(s)'
    <2>1. CASE s.token = t
      BY <1>6, <2>1 DEF RunOK
    <2>2. CASE s.token # t
      BY <1>1, <1>2, <1>5, <2>2, CarriedOn DEF RunOK, IsAggregator, Owns
    <2> QED BY <2>1, <2>2
  <1>13. Unread'
    BY <1>3, <1>6 DEF Unread, Emptied, Spent
  <1> QED BY <1>9, <1>11, <1>12, <1>13 DEF FanoutInv, Rest

\* An answer is taken from a claim that still has its lock, so from one that found the inbox.
LEMMA ReportIsKept ==
    ASSUME FanoutInv, WaitInv', PostedInv', NEW r \in runs, Report(r)
    PROVE  FanoutInv'
  <1> DEFINE t == r.token
             phase == IF hand[t].phase = "read" THEN "over" ELSE "none"
  <1>1. /\ IInv /\ IInv' /\ FanoutTypes /\ Family /\ Unread
    BY DEF FanoutInv, WaitInv, EndInv
  <1>2. /\ IsAggregator(r.job) /\ completeJob(r) /\ unread' = unread \cup (inbox' \ inbox)
        /\ hand[t].phase \in {"empty", "read"} \/ (hand[t].phase = "claimed" /\ hand[t].ids = <<>>)
        /\ report' = [claim |-> t, ids |-> hand[t].ids, told |-> hand[t].told]
        /\ hand' = [hand EXCEPT ![t].phase = phase]
        /\ cli' = cli /\ children_ids' = children_ids
    BY DEF Report, QueueStep
  <1>3. Owns(r) /\ runs' \subseteq runs \ {r}
    BY <1>2 DEF completeJob
  <1>4. QueueKeeps /\ NoneNew
    BY <1>1, <1>2, CompleteGoesOn, GoesOnKeeps
  <1>5. t \in Claims
    BY CarriedOn
  <1>6. /\ hand[t] \in Hand /\ hand \in [Claims -> Hand] /\ phase \in {"over", "none"}
        /\ hand' = [hand EXCEPT ![t] = [hand[t] EXCEPT !.phase = phase]]
    BY <1>1, <1>2, <1>5 DEF FanoutTypes
  <1>7. /\ hand'[t] \in Hand /\ hand'[t].phase = phase /\ hand'[t].ids = hand[t].ids /\ hand'[t].told = hand[t].told
        /\ (\A u \in Claims \ {t} : hand'[u] = hand[u]) /\ hand' \in [Claims -> Hand]
    <2>1. phase \in {"none", "claimed", "checked", "empty"} \cup Spent
      BY DEF Spent
    <2> HIDE DEF phase
    <2> QED BY <1>5, <1>6, <2>1, HandPhase
  <1>8. RunOK(r) /\ HandOK(t) /\ \A s \in runs' : RunOK(s)'
    BY <1>2, <1>3, <1>4, <1>7, RunGone
  <1>9. hand[t].phase # "empty" /\ hand[t].phase # "over"
    BY <1>2, <1>3, <1>8 DEF RunOK
  <1>10. HandsGoOn
    BY <1>7, <1>9 DEF HandsGoOn, Spent
  <1>11. hand[t].ids \in Seq(Job) /\ hand[t].told \in SUBSET Message /\ hand[t].told \subseteq inbox /\ t \in Nat
    BY <1>5, <1>6, <1>8 DEF Hand, HandOK, Claims
  <1>12. report' \in [claim : Nat, ids : Seq(Job), told : SUBSET Message] /\ report'.told \subseteq inbox
    BY <1>2, <1>11
  <1>13. Rest /\ \A u \in Claims : hand'[u] = hand[u] => HandOK(u)'
    BY <1>1, <1>2, <1>4, <1>10, <1>12, RestKeeps
  <1>14. /\ AllTold => AllTold'
         /\ \A c \in Range(cli.ids) : Unannounced(c) => Unannounced(c)'
    BY <1>1, <1>2, <1>4, ChildrenKeep
  <1>15. FromRow(hand[t].ids) /\ (FromRow(hand[t].ids) => FromRow(hand[t].ids)')
    BY <1>2, <1>7, <1>8, <1>14 DEF HandOK, FromRow
  <1>16. HandOK(t)'
    <2>1. hand[t] # NoHand
      BY <1>2, <1>9, HandBlank
    <2>2. cli.job \in Job /\ IsAggregator(cli.job) /\ t <= job[cli.job].started
      BY <1>8, <2>1 DEF HandOK
    <2>3. KeptRow(job[cli.job], job'[cli.job])
      BY <1>4, <2>2 DEF QueueKeeps, IsAggregator
    <2>4. job[cli.job].started \in Nat /\ job'[cli.job].started \in Nat /\ t \in Nat
      BY <1>1, <1>11, <2>2 DEF IInv, TypeOK, Row
    <2>5. IsAggregator(cli.job)' /\ t <= job'[cli.job].started
      BY <1>2, <2>2, <2>3, <2>4 DEF KeptRow, IsAggregator, Exists
    <2>6. hand'[t].told \subseteq inbox'
      BY <1>4, <1>7, <1>11 DEF QueueKeeps, Posts
    <2> HIDE DEF t
    <2> QED BY <1>2, <1>6, <1>7, <1>15, <2>2, <2>5, <2>6 DEF HandOK
  <1>17. \A u \in Claims : HandOK(u)'
    BY <1>7, <1>13, <1>16
  <1>18. ReportOK'
    <2>1. report'.claim = t /\ report'.ids = hand[t].ids /\ report'.told = hand[t].told
      BY <1>2
    <2>2. hand[t].ids # <<>> => Emptied(Claims \ {t}) \/ Covered(hand[t].told)
      BY <1>2, <1>8, <1>9 DEF HandOK
    <2>3. Emptied(Claims \ {t}) => Emptied(Claims \ {t})'
      BY <1>7 DEF Emptied
    <2>4. Covered(hand[t].told) => Covered(report.told)'
      BY <1>2, <1>14, <2>1 DEF Covered
    <2>5. FromRow(report.ids)'
      BY <1>7, <1>15, <2>1 DEF FromRow
    <2>6. Emptied(Claims \ {t})' => Emptied(Claims \ {report.claim})'
      BY <2>1 DEF Emptied
    <2> HIDE DEF t
    <2> QED BY <2>1, <2>2, <2>3, <2>4, <2>5, <2>6 DEF ReportOK
  <1>19. Unread'
    BY <1>1, <1>2, <1>10, UnreadKeeps
  <1> QED BY <1>8, <1>13, <1>17, <1>18, <1>19 DEF FanoutInv, Rest

LEMMA LoseClaimKeeps ==
    ASSUME FanoutInv, WaitInv', PostedInv', NEW r \in runs, LoseClaim(r)
    PROVE  FanoutInv'
  <1> DEFINE t == r.token
             phase == IF hand[t].phase = "read" THEN "over" ELSE "none"
  <1>1. /\ IInv /\ IInv' /\ FanoutTypes /\ Unread
    BY DEF FanoutInv, WaitInv, EndInv
  <1>2. /\ failJob(r) \/ Dropped(r) \/ Crash(r)
        /\ unread' = unread \cup (inbox' \ inbox)
        /\ hand' = IF IsAggregator(r.job) THEN [hand EXCEPT ![t] = [NoHand EXCEPT !.phase = phase]] ELSE hand
        /\ cli' = cli /\ children_ids' = children_ids /\ report' = report
    BY DEF LoseClaim, QueueStep
  <1>3. runs' \subseteq runs \ {r}
    BY <1>2 DEF failJob, Dropped, Crash
  <1>4. QueueKeeps /\ NoneNew
    BY <1>1, <1>2, RunGoesOn, GoesOnKeeps
  <1>5. CASE ~IsAggregator(r.job)
    BY <1>2, <1>3, <1>4, <1>5, OtherwiseKeeps
  <1>6. CASE IsAggregator(r.job)
    <2>1. t \in Claims /\ hand \in [Claims -> Hand] /\ phase \in {"over", "none"}
      BY <1>1, CarriedOn DEF FanoutTypes
    <2>2. /\ hand'[t] = [NoHand EXCEPT !.phase = phase]
          /\ \A u \in Claims \ {t} : hand'[u] = hand[u]
      BY <1>2, <1>6, <2>1
    <2>3. hand'[t] \in Hand /\ hand'[t].phase = phase /\ hand'[t].ids = <<>> /\ hand'[t].told = {}
      <3>1. phase \in {"none", "claimed", "checked", "empty"} \cup Spent
        BY DEF Spent
      <3> HIDE DEF phase
      <3> QED BY <2>2, <3>1, HandBlank, HandPhase
    <2>4. RunOK(r) /\ HandOK(t) /\ \A s \in runs' : RunOK(s)'
      BY <1>3, <1>4, <1>6, <2>2, RunGone
    <2>5. hand[t].phase # "over"
      BY <1>6, <2>4 DEF RunOK
    <2>6. hand' \in [Claims -> Hand] /\ HandsGoOn
      <3>1. hand' \in [Claims -> Hand]
        BY <1>2, <1>6, <2>1, <2>2, <2>3
      <3> QED BY <2>2, <2>3, <2>5, <3>1 DEF HandsGoOn, Spent
    <2>7. Rest /\ ReportOK' /\ \A u \in Claims : hand'[u] = hand[u] => HandOK(u)'
      BY <1>1, <1>2, <1>4, <2>6, RestKeeps DEF FanoutTypes
    <2>8. HandOK(t)'
      <3>1. CASE hand[t].phase # "read"
        <4>1. hand'[t] = NoHand
          BY <2>2, <3>1 DEF NoHand
        <4> HIDE DEF t
        <4> QED BY <4>1, HandBlank DEF HandOK, FromRow
      <3>2. CASE hand[t].phase = "read"
        <4>1. cli.job \in Job /\ IsAggregator(cli.job) /\ t <= job[cli.job].started
          BY <2>4, <3>2, HandBlank DEF HandOK
        <4>2. KeptRow(job[cli.job], job'[cli.job])
          BY <1>4, <4>1 DEF QueueKeeps, IsAggregator
        <4>3. job[cli.job].started \in Nat /\ job'[cli.job].started \in Nat /\ t \in Nat
          BY <1>1, <2>1, <4>1 DEF IInv, TypeOK, Row, Claims
        <4>4. IsAggregator(cli.job)' /\ t <= job'[cli.job].started
          BY <1>2, <4>1, <4>2, <4>3 DEF KeptRow, IsAggregator, Exists
        <4>5. hand'[t].phase = "over"
          BY <2>3, <3>2
        <4> HIDE DEF t
        <4> QED BY <1>2, <2>3, <4>1, <4>4, <4>5 DEF HandOK, FromRow
      <3> QED BY <3>1, <3>2
    <2>9. \A u \in Claims : HandOK(u)'
      BY <2>2, <2>7, <2>8
    <2>10. Unread'
      BY <1>1, <1>2, <2>6, UnreadKeeps
    <2> QED BY <2>4, <2>7, <2>9, <2>10 DEF FanoutInv, Rest
  <1> QED BY <1>5, <1>6

LEMMA OthersKeep ==
    ASSUME FanoutInv, WaitInv', PostedInv', Otherwise
    PROVE  FanoutInv'
  <1>1. IInv /\ FanoutTypes
    BY DEF FanoutInv, WaitInv, EndInv
  <1>2. /\ unread' = unread \cup (inbox' \ inbox)
        /\ hand' = hand /\ cli' = cli /\ children_ids' = children_ids /\ report' = report
    BY DEF Otherwise, QueueStep
  <1>3. CASE GoesOn
    <2>1. runs' \subseteq runs
      BY <1>3 DEF GoesOn
    <2> QED BY <1>1, <1>2, <1>3, <2>1, GoesOnKeeps, OtherwiseKeeps
  <1>4. ASSUME NEW j \in Job, claim(j), ~IsAggregator(j)
        PROVE  FanoutInv'
    <2>1. QueueKeeps /\ NoneNew
      BY <1>1, <1>4, ClaimKeeps
    <2>2. /\ \A r \in runs' : r \in runs \/ r.job = j
          /\ job'[j].opt = job[j].opt /\ job[j].status = "waiting"
      BY <1>1, <1>4, ClaimIs
    <2>3. ~IsAggregator(j)'
      BY <1>4, <2>2 DEF IsAggregator, Exists
    <2>4. \A r \in runs' : r \in runs \/ ~IsAggregator(r.job)'
      BY <2>2, <2>3
    <2> QED BY <1>2, <2>1, <2>4, OtherwiseKeeps
  <1>5. CASE \E j \in Job : cancelJob(j) \/ Clock(j)
    BY <1>1, <1>3, <1>5, ClockGoesOn
  <1>6. CASE \E r \in runs : renewLock(r) \/ ForceEvict(r) \/ completeJob(r)
    BY <1>1, <1>3, <1>6, RunGoesOn
  <1>7. CASE Sweep
    BY <1>1, <1>3, <1>7, SweepGoesOn
  <1> QED BY <1>4, <1>5, <1>6, <1>7 DEF Otherwise, QueueStep

LEMMA FanoutInitially ==
    ASSUME FanoutInit
    PROVE  FanoutInv
  <1>1. Init /\ WaitInv /\ CapInv
    BY InitWait, InitCap DEF FanoutInit
  <1>2. ChildDonePosted /\ PostedInv
    BY <1>1 DEF Init, BlankRow, ChildDonePosted, Ended, Terminal, CapInv, PostedInv
  <1>3. /\ \A j \in Job : job[j].status = "none" /\ job[j].started = 0
        /\ inbox = {} /\ runs = {}
    BY <1>1 DEF Init, BlankRow
  <1>4. /\ cli = [pc |-> "aggregator", job |-> NoJob, ids |-> <<>>] /\ children_ids = <<>> /\ unread = {}
        /\ hand = [claim_ \in 1..MaxStarted |-> NoHand] /\ report = NoReport
    BY DEF FanoutInit
  <1>5. FanoutTypes
    <2>1. 0 <= MaxStarted /\ <<>> \in Seq(Job)
      BY BoundsAssumption
    <2>2. report \in [claim : Nat, ids : Seq(Job), told : SUBSET Message] /\ report.told = {}
      BY <1>4, <2>1 DEF NoReport
    <2>3. cli \in [pc : {"aggregator", "children", "ids", "follow", "done"}, job : Job \cup {NoJob}, ids : Seq(Job)]
      BY <1>4, <2>1
    <2>4. hand \in [Claims -> Hand]
      BY <1>4, HandBlank DEF Claims
    <2> QED BY <1>3, <1>4, <2>1, <2>2, <2>3, <2>4 DEF FanoutTypes
  <1>6. Family /\ MessagesTrue /\ Unread
    BY <1>3, <1>4 DEF Family, MessagesTrue, Unread, IsAggregator, Exists, Range
  <1>7. ReportOK /\ (\A t \in Claims : HandOK(t)) /\ \A r \in runs : RunOK(r)
    BY <1>3, <1>4, HandBlank DEF ReportOK, NoReport, HandOK, FromRow, Claims
  <1> QED BY <1>1, <1>2, <1>5, <1>6, <1>7 DEF FanoutInv

LEMMA FanoutStep ==
    ASSUME FanoutInv, [FanoutNext]_allVars
    PROVE  FanoutInv'
  <1>1. WaitInv' /\ PostedInv'
    BY FamilyGoesOn DEF FanoutInv
  <1>2. CASE UNCHANGED allVars
    BY <1>1, <1>2, StillKeeps, OtherwiseKeeps DEF allVars, vars, fanoutVars
  <1>3. CASE SubmitAggregator
    BY <1>1, <1>3, SubmitAggregatorKeeps
  <1>4. CASE SubmitChild
    BY <1>1, <1>4, SubmitChildKeeps
  <1>5. CASE WriteIds \/ followJob \/ CliEnds
    BY <1>1, <1>5, CommandKeeps
  <1>6. CASE \E j \in Job : ClaimAggregator(j)
    BY <1>1, <1>6, ClaimAggregatorKeeps
  <1>7. CASE \E r \in runs : CheckLock(r)
    BY <1>1, <1>7, CheckLockKeeps
  <1>8. CASE \E r \in runs : ReadInbox(r)
    BY <1>1, <1>8, ReadInboxKeeps
  <1>9. CASE \E r \in runs : Report(r)
    BY <1>1, <1>9, ReportIsKept
  <1>10. CASE \E r \in runs : LoseClaim(r)
    BY <1>1, <1>10, LoseClaimKeeps
  <1>11. CASE Otherwise
    BY <1>1, <1>11, OthersKeep
  <1> QED BY <1>2, <1>3, <1>4, <1>5, <1>6, <1>7, <1>8, <1>9, <1>10, <1>11 DEF FanoutNext

\* The command, the aggregator and their queue implement the queue: what is proved of MinionQueue
\* holds of every fan-out.
THEOREM FanoutIsQueue == FanoutSpec => Spec
  <1>1. FanoutInit => Init /\ FanoutInv
    BY FanoutInitially DEF FanoutInit
  <1>2. FanoutInv /\ [FanoutNext]_allVars => FanoutInv' /\ [Next]_vars
    BY FanoutStep, StepsOfTheQueue DEF FanoutInv
  <1> QED BY <1>1, <1>2, PTL DEF FanoutSpec, Spec

\* A stored report tells the truth about every child it lists, whatever manifest was submitted, and
\* whenever the command dies, a lock expires, the sweeps run or somebody cancels.
THEOREM ReportTrueHolds == FanoutSpec => []ReportTrue
  <1>1. FanoutInit => FanoutInv
    BY FanoutInitially
  <1>2. FanoutInv /\ [FanoutNext]_allVars => FanoutInv'
    BY FanoutStep
  <1>3. FanoutInv => ReportTrue
    <2> SUFFICES ASSUME FanoutInv, NEW c \in Range(report.ids)
                 PROVE  /\ Heard(c) = {} => Unannounced(c) \/ InboxSpent
                        /\ \A outcome \in Heard(c) : Heard(c) = {outcome} /\ job[c].status = EndOf(outcome)
      BY DEF ReportTrue
    <2>1. report.told \subseteq inbox /\ MessagesTrue /\ ReportOK
      BY DEF FanoutInv, FanoutTypes
    <2>2. \A m \in report.told : m.child = c => job[c].status = EndOf(m.outcome)
      BY <2>1 DEF MessagesTrue
    <2>3. \A m, n \in report.told : m.child = c /\ n.child = c => m.outcome = n.outcome
      BY <2>1 DEF MessagesTrue
    <2>4. \A outcome \in Heard(c) : \E m \in report.told : m.child = c /\ m.outcome = outcome
      BY DEF Heard
    <2>5. report.ids # <<>>
      BY DEF Range
    <2>6. c \in Range(cli.ids)
      BY <2>1, <2>5 DEF ReportOK, FromRow
    <2>7. Covered(report.told) => Unannounced(c) \/ \E m \in report.told : m.child = c
      BY <2>6 DEF Covered
    <2>8. Emptied(Claims \ {report.claim}) => InboxSpent
      BY DEF Emptied, InboxSpent, Claims, Spent
    <2>9. Heard(c) = {} => ~\E m \in report.told : m.child = c
      BY DEF Heard
    <2> QED BY <2>1, <2>2, <2>3, <2>4, <2>5, <2>7, <2>8, <2>9 DEF ReportOK
  <1> QED BY <1>1, <1>2, <1>3, PTL DEF FanoutSpec
=============================================================================
