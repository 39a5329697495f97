------------------------------- MODULE Synthesize -------------------------------
(***************************************************************************)
(* The synthesize phase of a maintenance cycle (core/cycle/synthesize.ts): *)
(* a subagent per transcript that is worth it, a wait for each in turn     *)
(* (core/minions/wait-for-completion.ts), the pages that they wrote copied *)
(* from the database to files.  When the cycle is a job of the queue       *)
(* (commands/autopilot.ts, commands/jobs.ts) it sits on a slot of the      *)
(* worker that its subagents need, until its job times out: the worker     *)
(* then takes the slot back, and the phase waits on.                       *)
(*                                                                         *)
(* A child's row stands for its job and its ledger; the queue's own rules  *)
(* are MinionQueue's.                                                      *)
(***************************************************************************)
EXTENDS Naturals, FiniteSets

CONSTANTS
    Transcript,     \* files of the corpus, numbered in the order in which they are listed
    Slots,          \* handlers that the workers run at a time
    MaxMishaps      \* bound: failures of a phase, retries and prunings of a child

ASSUME SynthesizeAssumption == Transcript \subseteq Nat /\ Slots \in Nat \ {0} /\ MaxMishaps \in Nat

VARIABLES
    verdict,        \* dream_verdicts
    child,          \* by transcript: the status of the job with its idempotency key
    ledger,         \* transcripts whose child has a put_page that is complete
    page,           \* those whose page is in the database
    onDisk,         \* those whose page has a file
    cooling,        \* last_completion_ts is recent
    phase,          \* where the phase is, whether on a slot, and the transcripts it has before it
    mishaps

synthesizeVars == <<verdict, child, ledger, page, onDisk, cooling, phase, mishaps>>

NoPhase == [pc |-> "idle", slot |-> FALSE, todo |-> {}, worth |-> {}]
Terminal == {"completed", "dead"}

SynthesizeInit ==
    /\ verdict = [t \in Transcript |-> "none"] /\ child = [t \in Transcript |-> "none"]
    /\ ledger = {} /\ page = {} /\ onDisk = {} /\ cooling = FALSE
    /\ phase = NoPhase /\ mishaps = 0

Busy == Cardinality({t \in Transcript : child[t] = "active"}) + (IF phase.slot THEN 1 ELSE 0)
IsNext(t) == t \in phase.todo /\ \A u \in phase.todo : t <= u
Mishap == mishaps < MaxMishaps /\ mishaps' = mishaps + 1

-----------------------------------------------------------------------------
(* The phase.                                                              *)

\* By a worker, or by gbrain dream and an autopilot without workers.
StartPhase(slot) ==
    /\ phase.pc = "idle" /\ ~cooling
    /\ slot => Busy < Slots
    /\ phase' = [NoPhase EXCEPT !.pc = "judge", !.slot = slot, !.todo = Transcript]
    /\ UNCHANGED <<verdict, child, ledger, page, onDisk, cooling, mishaps>>

\* The verdict of an earlier run stands; without an API key there is none, and the transcript is left out.
judgeSignificance(t) ==
    /\ phase.pc = "judge" /\ IsNext(t)
    /\ \E v \in IF verdict[t] = "none" THEN {"none", "worth", "skip"} ELSE {verdict[t]} :
         /\ verdict' = [verdict EXCEPT ![t] = v]
         /\ phase' = [phase EXCEPT !.todo = @ \ {t}, !.worth = IF v = "worth" THEN @ \union {t} ELSE @]
    /\ UNCHANGED <<child, ledger, page, onDisk, cooling, mishaps>>

Judged ==
    /\ phase.pc = "judge" /\ phase.todo = {}
    /\ phase' = IF phase.worth = {} THEN NoPhase
                ELSE [phase EXCEPT !.pc = "submit", !.todo = phase.worth]
    /\ UNCHANGED <<verdict, child, ledger, page, onDisk, cooling, mishaps>>

\* queue.add: the key gives the job of an earlier run, whatever has become of it.
Submit(t) ==
    /\ phase.pc = "submit" /\ IsNext(t)
    /\ child' = [child EXCEPT ![t] = IF @ = "none" THEN "waiting" ELSE @]
    /\ phase' = [phase EXCEPT !.todo = @ \ {t}]
    /\ UNCHANGED <<verdict, ledger, page, onDisk, cooling, mishaps>>

Submitted ==
    /\ phase.pc = "submit" /\ phase.todo = {}
    /\ phase' = [phase EXCEPT !.pc = "wait", !.todo = phase.worth]
    /\ UNCHANGED <<verdict, child, ledger, page, onDisk, cooling, mishaps>>

\* The poll finds a terminal status, or 35 minutes are over.
WaitedFor(t, timedOut) ==
    /\ phase.pc = "wait" /\ IsNext(t)
    /\ child[t] \in (IF timedOut THEN {"waiting", "active"} ELSE Terminal)
    /\ phase' = [phase EXCEPT !.todo = @ \ {t}]
    /\ UNCHANGED <<verdict, child, ledger, page, onDisk, cooling, mishaps>>

\* The job has been pruned under the poll, which throws.
Disappeared(t) ==
    /\ phase.pc = "wait" /\ IsNext(t) /\ child[t] = "none"
    /\ phase' = NoPhase
    /\ UNCHANGED <<verdict, child, ledger, page, onDisk, cooling, mishaps>>

\* Mutant of collectChildPutPageSlugs: only of the children that completed.
collectOfCompleted ==
    /\ phase.pc = "wait" /\ phase.todo = {}
    /\ phase' = [phase EXCEPT !.pc = "write", !.todo = {t \in phase.worth \intersect ledger : child[t] = "completed"}]
    /\ UNCHANGED <<verdict, child, ledger, page, onDisk, cooling, mishaps>>

\* put_page calls that are complete, whatever became of the child.
collectChildPutPageSlugs ==
    /\ phase.pc = "wait" /\ phase.todo = {}
    /\ phase' = [phase EXCEPT !.pc = "write", !.todo = phase.worth \intersect ledger]
    /\ UNCHANGED <<verdict, child, ledger, page, onDisk, cooling, mishaps>>

\* A page that is gone is skipped, and one that cannot be written is too.
reverseWriteSlugs(t, fails) ==
    /\ phase.pc = "write" /\ IsNext(t)
    /\ onDisk' = IF t \in page /\ ~fails THEN onDisk \union {t} ELSE onDisk
    /\ phase' = [phase EXCEPT !.todo = @ \ {t}]
    /\ IF fails THEN Mishap ELSE UNCHANGED mishaps
    /\ UNCHANGED <<verdict, child, ledger, page, cooling>>

\* The summary, and the timestamp, whatever became of the children.
Complete ==
    /\ phase.pc = "write" /\ phase.todo = {}
    /\ phase' = NoPhase /\ cooling' = TRUE
    /\ UNCHANGED <<verdict, child, ledger, page, onDisk, mishaps>>

\* A statement throws, or the process dies.
PhaseFails ==
    /\ phase.pc # "idle" /\ Mishap
    /\ phase' = NoPhase
    /\ UNCHANGED <<verdict, child, ledger, page, onDisk, cooling>>

\* The job of the cycle has timed out and its handler does not end: the worker takes its slot back.
EvictCycle ==
    /\ phase.slot /\ phase' = [phase EXCEPT !.slot = FALSE]
    /\ UNCHANGED <<verdict, child, ledger, page, onDisk, cooling, mishaps>>

CooldownEnds ==
    /\ cooling /\ cooling' = FALSE
    /\ UNCHANGED <<verdict, child, ledger, page, onDisk, phase, mishaps>>

-----------------------------------------------------------------------------
(* The subagents, the queue's owner and the brain's.                       *)

ChildBecomes(t, from, to) == child[t] \in from /\ child' = [child EXCEPT ![t] = to]
ChildOnly == UNCHANGED <<verdict, ledger, page, onDisk, cooling, phase>>

ClaimChild(t) == ChildBecomes(t, {"waiting"}, "active") /\ Busy < Slots /\ ChildOnly /\ UNCHANGED mishaps
EndChild(t) == (\E s \in Terminal : ChildBecomes(t, {"active"}, s)) /\ ChildOnly /\ UNCHANGED mishaps
RetryChild(t) == ChildBecomes(t, {"active"}, "waiting") /\ Mishap /\ ChildOnly

PutPage(t) ==
    /\ child[t] = "active"
    /\ ledger' = ledger \union {t} /\ page' = page \union {t}
    /\ UNCHANGED <<verdict, child, onDisk, cooling, phase, mishaps>>

\* gbrain jobs prune: the row, its key and its ledger go.
Prune(t) ==
    /\ ChildBecomes(t, Terminal, "none") /\ Mishap
    /\ ledger' = ledger \ {t}
    /\ UNCHANGED <<verdict, page, onDisk, cooling, phase>>

SynthesizeNext ==
    \/ \E slot \in BOOLEAN : StartPhase(slot)
    \/ Judged \/ Submitted \/ collectChildPutPageSlugs \/ Complete
    \/ PhaseFails \/ EvictCycle \/ CooldownEnds
    \/ \E t \in Transcript :
         \/ judgeSignificance(t) \/ Submit(t) \/ Disappeared(t) \/ ClaimChild(t) \/ EndChild(t) \/ RetryChild(t) \/ PutPage(t) \/ Prune(t)
         \/ \E b \in BOOLEAN : WaitedFor(t, b) \/ reverseWriteSlugs(t, b)

\* What a phase does unless it fails.
PhaseRuns ==
    \/ Judged \/ Submitted \/ collectChildPutPageSlugs \/ Complete
    \/ \E t \in Transcript :
         \/ judgeSignificance(t) \/ Submit(t) \/ Disappeared(t) \/ reverseWriteSlugs(t, FALSE)
         \/ \E b \in BOOLEAN : WaitedFor(t, b)

-----------------------------------------------------------------------------
(* Properties.                                                             *)

\* What a subagent wrote reaches the disk, in its own cycle or in a later one: though the phase gave
\* up waiting, died, or sat on the slot the subagent needed, and though the child failed afterwards.
\* The exception is a child whose row is pruned first.
ReachesDisk == \A t \in Transcript : t \in ledger ~> t \in onDisk \/ t \notin ledger
================================================================================
