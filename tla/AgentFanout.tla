------------------------------ MODULE AgentFanout ------------------------------
(***************************************************************************)
(* `gbrain agent run --fanout-manifest` (commands/agent.ts) and the        *)
(* aggregator it submits (core/minions/handlers/subagent-aggregator.ts),   *)
(* on top of the queue: every step of MinionQueue is a step here.          *)
(*                                                                         *)
(* The command submits the aggregator first, for its id, then the          *)
(* children, then writes their ids into the aggregator's row.  The         *)
(* aggregator reports from the ids it finds in its row when it is claimed  *)
(* and from the child_done messages it has not read yet.                   *)
(***************************************************************************)
EXTENDS MinionQueue, Sequences, Functions

CONSTANTS
    Entries,            \* length of the manifest; one entry makes no aggregator
    AggregatorOptions,  \* what runFanout submits
    ChildOptions

\* Nothing else is submitted, and of the operator's commands only cancelJob is in this model.
\* runFanout leaves what it does not name at its default.
ASSUME FanoutAssumption ==
    /\ Entries \in Nat \ {0, 1}
    /\ Options = {AggregatorOptions, ChildOptions} /\ AggregatorOptions # ChildOptions
    /\ ChildOptions.on_child_fail = "continue" /\ AggregatorOptions.on_child_fail = "fail_parent"
    /\ Env \subseteq {"cancel", "crash", "lock_expires", "age_passes"}
    /\ \A o \in Options : o.quiet = "none" /\ ~o.remove_on_complete /\ ~o.remove_on_fail

VARIABLES
    cli,          \* the process of the command
    children_ids, \* data.children_ids of the aggregator's row
    unread,       \* the messages of the inbox whose read_at is NULL
    hand,         \* by claim of the aggregator: what its handler holds
    report        \* the result of the aggregator's row

fanoutVars == <<cli, children_ids, unread, hand, report>>
allVars == <<vars, fanoutVars>>

NoReport == [claim |-> 0, ids |-> <<>>, told |-> {}]
NoHand == [phase |-> "none", ids |-> <<>>, told |-> {}]

FanoutTypeOK ==
    /\ cli.pc \in {"aggregator", "children", "ids", "follow", "done"} /\ cli.ids \in Seq(Job)
    /\ children_ids \in {<<>>, cli.ids}
    /\ unread \subseteq inbox
    /\ \A claim_ \in 1..MaxStarted :
         /\ hand[claim_].phase \in {"none", "claimed", "checked", "empty", "read", "over"}
         /\ hand[claim_].told \subseteq inbox
    /\ report.claim \in 0..MaxStarted /\ report.told \subseteq inbox

FanoutInit ==
    /\ Init
    /\ cli = [pc |-> "aggregator", job |-> NoJob, ids |-> <<>>]
    /\ children_ids = <<>> /\ unread = {}
    /\ hand = [claim_ \in 1..MaxStarted |-> NoHand]
    /\ report = NoReport

\* A step of the queue: what it posts has not been read.
QueueStep(A) == A /\ unread' = unread \union (inbox' \ inbox)

-----------------------------------------------------------------------------
(* The command.                                                            *)

SubmitAggregator ==
    /\ cli.pc = "aggregator"
    /\ QueueStep(add(AggregatorOptions, NoJob))
    /\ cli' = [cli EXCEPT !.pc = "children", !.job = next_id]
    /\ UNCHANGED <<children_ids, hand, report>>

SubmitChild ==
    /\ cli.pc = "children"
    /\ QueueStep(add(ChildOptions, cli.job))
    /\ cli' = [cli EXCEPT !.ids = Append(@, next_id),
                          !.pc = IF Len(cli.ids) + 1 = Entries THEN "ids" ELSE @]
    /\ UNCHANGED <<children_ids, hand, report>>

\* The statement asks neither for the status of the row nor for its lock.
WriteIds ==
    /\ cli.pc = "ids"
    /\ children_ids' = cli.ids
    /\ cli' = [cli EXCEPT !.pc = "follow"]
    /\ UNCHANGED <<vars, unread, hand, report>>

\* A poll of waitForCompletion finds the job ended.
followJob ==
    /\ cli.pc = "follow" /\ Ended(job, cli.job)
    /\ cli' = [cli EXCEPT !.pc = "done"]
    /\ UNCHANGED <<vars, children_ids, unread, hand, report>>

\* A submission throws, the follower times out, or someone interrupts it.
CliEnds ==
    /\ cli.pc # "done"
    /\ cli' = [cli EXCEPT !.pc = "done"]
    /\ UNCHANGED <<vars, children_ids, unread, hand, report>>

-----------------------------------------------------------------------------
(* The aggregator.                                                         *)

IsAggregator(j) == Exists(job, j) /\ job[j].opt = AggregatorOptions

\* The claim returns the row, and the handler works from that copy of its data.
ClaimAggregator(j) ==
    /\ IsAggregator(j) /\ QueueStep(claim(j))
    /\ hand' = [hand EXCEPT ![job'[j].started] = [phase |-> "claimed", ids |-> children_ids, told |-> {}]]
    /\ UNCHANGED <<cli, children_ids, report>>

\* readInbox: first a SELECT that compares the lock token; without the lock the inbox looks empty.
CheckLock(r) ==
    /\ IsAggregator(r.job) /\ hand[r.token].phase = "claimed" /\ hand[r.token].ids # <<>>
    /\ hand' = [hand EXCEPT ![r.token].phase = IF Owns(r) THEN "checked" ELSE "empty"]
    /\ UNCHANGED <<vars, cli, children_ids, unread, report>>

\* Then an UPDATE .. RETURNING that marks what it returns as read and compares nothing.
ReadInbox(r) ==
    /\ IsAggregator(r.job) /\ hand[r.token].phase = "checked"
    /\ hand' = [hand EXCEPT ![r.token].phase = "read", ![r.token].told = {m \in unread : m.to = r.job}]
    /\ unread' = {m \in unread : m.to # r.job}
    /\ UNCHANGED <<vars, cli, children_ids, report>>

\* The handler returns: without ids at once, otherwise with one record for every id.
Report(r) ==
    /\ IsAggregator(r.job)
    /\ \/ hand[r.token].phase \in {"empty", "read"}
       \/ hand[r.token].phase = "claimed" /\ hand[r.token].ids = <<>>
    /\ QueueStep(completeJob(r))
    /\ report' = [claim |-> r.token, ids |-> hand[r.token].ids, told |-> hand[r.token].told]
    /\ hand' = [hand EXCEPT ![r.token].phase = IF @ = "read" THEN "over" ELSE "none"]
    /\ UNCHANGED <<cli, children_ids>>

\* What else befalls a claim: it fails, loses its lock or dies with its process.
LoseClaim(r) ==
    /\ QueueStep(failJob(r) \/ Dropped(r) \/ Crash(r))
    /\ hand' = IF IsAggregator(r.job)
               THEN [hand EXCEPT ![r.token] = [NoHand EXCEPT !.phase = IF hand[r.token].phase = "read" THEN "over" ELSE "none"]]
               ELSE hand
    /\ UNCHANGED <<cli, children_ids, report>>

\* The queue goes on as it does.
Otherwise ==
    /\ QueueStep(
         \/ \E j \in Job : cancelJob(j) \/ Clock(j) \/ (~IsAggregator(j) /\ claim(j))
         \/ \E r \in runs : renewLock(r) \/ ForceEvict(r) \/ (~IsAggregator(r.job) /\ completeJob(r))
         \/ Sweep)
    /\ UNCHANGED <<cli, children_ids, hand, report>>

FanoutNext ==
    \/ SubmitAggregator \/ SubmitChild \/ WriteIds \/ followJob \/ CliEnds
    \/ \E j \in Job : ClaimAggregator(j)
    \/ \E r \in runs : CheckLock(r) \/ ReadInbox(r) \/ Report(r) \/ LoseClaim(r)
    \/ Otherwise

FanoutSpec == FanoutInit /\ [][FanoutNext]_allVars

-----------------------------------------------------------------------------
(* Properties.                                                             *)

Heard(c) == {m.outcome : m \in {n \in report.told : n.child = c}}

\* How a child that ended with an outcome looks in the table.
EndOf(outcome) ==
    CASE outcome = "complete" -> "completed"
      [] outcome = "cancelled" -> "cancelled"
      [] OTHER -> "dead"

\* Another handler of the aggregator has emptied the inbox, and its report was never stored.
InboxSpent == \E claim_ \in 1..MaxStarted : claim_ # report.claim /\ hand[claim_].phase \in {"read", "over"}

\* A stored report tells the truth about every child it lists: one outcome and the one the child
\* ended with.  "no child_done message observed" is said only of a child whose end was not
\* announced, or after another handler of this job had read the inbox.
ReportTrue ==
    \A c \in Range(report.ids) :
        /\ Heard(c) = {} => Unannounced(c) \/ InboxSpent
        /\ \A outcome \in Heard(c) : Heard(c) = {outcome} /\ job[c].status = EndOf(outcome)

\* What the aggregator's header says: "When we claim, all N child_done messages are already in
\* minion_inbox", so that its report has all the children.
ReportCovers == report.claim # 0 => Range(cli.ids) \subseteq Range(report.ids)
================================================================================
