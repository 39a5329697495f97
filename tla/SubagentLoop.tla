------------------------------ MODULE SubagentLoop -----------------------------
(***************************************************************************)
(* The subagent handler (gbrain/src/core/minions/handlers/subagent.ts):    *)
(* one conversation with a model, turn by turn, that a worker's death may  *)
(* cut off after any statement and that the next claim of the job resumes  *)
(* from two tables, subagent_messages and subagent_tool_executions.  Every *)
(* model call holds a lease of RateLeases.                                 *)
(*                                                                         *)
(* The queue is reduced to what the handler meets of it: a job is waiting, *)
(* held by its newest claim, or ended; an answer counts only if it comes   *)
(* from that claim (the lock token, MinionQueue's Fenced).  Text, tokens   *)
(* and tool input are left out; a reply is the kinds of tool it asks for.  *)
(***************************************************************************)
EXTENDS RateLeases, Sequences

CONSTANTS
    Job,
    MaxTurns,       \* data.max_turns
    MaxAttempts,    \* minion_jobs.max_attempts
    Responses,      \* what the model may answer: sequences of kinds of tool
    MaxClaims,      \* bound: how often a job is claimed
    Overlap         \* may a job be claimed while an older handler still runs?

Tool == {"idempotent", "once", "unknown"}   \* "unknown" is not in the registry

ASSUME LoopAssumption ==
    /\ IsFiniteSet(Job)
    /\ MaxTurns \in Nat \ {0}
    /\ MaxAttempts \in Nat \ {0}
    /\ Responses \subseteq Seq(Tool)
    /\ MaxClaims \in Nat
    /\ Overlap \in BOOLEAN

VARIABLES
    job,        \* the row in minion_jobs
    messages,   \* subagent_messages of each job, by message_idx
    tools,      \* subagent_tool_executions of each job, by tool_use_id
    handler,    \* the run of the handler for each claim of each job
    effects     \* history: which claims ran the tool behind which tool use

vars == <<job, messages, tools, handler, leases, effects>>

Claim == Job \X (1..MaxClaims)

\* A handler takes at most one lease per turn (turnIdx).
ASSUME LeasePerTurn == Lease = Claim \X (0..MaxTurns)

\* A tool_use block; its id is unique to the call that answered with it.
Use == [by : 1..MaxClaims, at : Nat, block : Nat, tool : Tool]

Outcome == {"complete", "failed"}
Result  == [use : Use, outcome : Outcome]
Message == [role : {"user", "assistant"}, uses : Seq(Use), results : Seq(Result)]

User(results)   == [role |-> "user", uses |-> <<>>, results |-> results]
Assistant(uses) == [role |-> "assistant", uses |-> uses, results |-> <<>>]

\* assistantTurns, in the table as in the array sent to the model.
Turns(conv) == Cardinality({i \in DOMAIN conv : conv[i].role = "assistant"})

Final(conv) == conv[Len(conv)]

\* What a handler keeps in memory: the array it sends, the tool rows it found
\* at the start, the tool uses of the last answer and the results it has so far.
Idle == [pc |-> "gone", conv |-> <<>>, prior |-> <<>>,
         reply |-> <<>>, results |-> <<>>]

Init ==
    /\ job = [j \in Job |-> [status |-> "waiting", claims |-> 0, attempts |-> 0]]
    /\ messages = [j \in Job |-> <<>>]
    /\ tools = [j \in Job |-> <<>>]
    /\ handler = [c \in Claim |-> Idle]
    /\ LeaseInit
    /\ effects = {}

Running(c) == handler[c].pc # "gone"

\* Does the row still carry this claim's lock token?
Owns(c) == job[c[1]].status = "active" /\ job[c[1]].claims = c[2]

\* ON CONFLICT (job_id, message_idx) DO NOTHING: the handler of claim c writes
\* at the index after the messages it knows of.
PersistMessage(c, m) ==
    messages' = [messages EXCEPT ![c[1]] =
        IF Len(@) = Len(handler[c].conv) THEN Append(@, m) ELSE @]

\* The ledger once the row of tool use u has this status.
Put(f, u, status) == [v \in DOMAIN f \cup {u} |-> IF v = u THEN status ELSE f[v]]

\* The handler returns, or its process dies: nothing of it is kept.
Gone(c) == handler' = [handler EXCEPT ![c] = Idle]

(***************************************************************************)
(* Claims, and what the queue does without the handler                     *)
(***************************************************************************)
Start(j) ==
    LET n == job[j].claims + 1
    IN  /\ job[j].status = "waiting" /\ n <= MaxClaims
        /\ Overlap \/ \A m \in 1..job[j].claims : ~Running(<<j, m>>)
        /\ job' = [job EXCEPT ![j].status = "active", ![j].claims = n]
        /\ handler' = [handler EXCEPT ![<<j, n>>].pc = "messages"]
        /\ UNCHANGED <<messages, tools, leases, effects>>

\* A sweep or a command takes the row from its worker, which may not know.
TakenAway(j) ==
    /\ job[j].status = "active"
    /\ \E s \in {"waiting", "ended"} : job' = [job EXCEPT ![j].status = s]
    /\ UNCHANGED <<messages, tools, handler, leases, effects>>

\* The worker process dies: rows and leases stay as they are.
Crash(c) ==
    /\ Running(c)
    /\ Gone(c)
    /\ UNCHANGED <<job, messages, tools, leases, effects>>

\* executeJob's catch: the attempt counts, whatever was thrown.
FailJob(c) ==
    LET made == job[c[1]].attempts + 1
    IN  IF Owns(c)
        THEN job' = [job EXCEPT
                ![c[1]].attempts = made,
                ![c[1]].status = IF made >= MaxAttempts THEN "ended" ELSE "waiting"]
        ELSE UNCHANGED job

Throw(c) == Gone(c) /\ FailJob(c)

(***************************************************************************)
(* Replay                                                                  *)
(***************************************************************************)
LoadPriorMessages(c) ==
    /\ handler[c].pc = "messages"
    /\ handler' = [handler EXCEPT ![c].pc = "tools", ![c].conv = messages[c[1]]]
    /\ UNCHANGED <<job, messages, tools, leases, effects>>

\* Mutant of LoadPriorTools: tool uses left open are not finished first.
LoadPriorToolsNoReplay(c) ==
    /\ handler[c].pc = "tools"
    /\ handler' = [handler EXCEPT
            ![c].prior = tools[c[1]],
            ![c].pc = IF handler[c].conv = <<>> THEN "seed" ELSE "turn"]
    /\ UNCHANGED <<job, messages, tools, leases, effects>>

\* A conversation that stops at an answer with tool uses goes on with them.
LoadPriorTools(c) ==
    LET conv == handler[c].conv
    IN  /\ handler[c].pc = "tools"
        /\ handler' = [handler EXCEPT
                ![c].prior = tools[c[1]],
                ![c].reply = IF conv = <<>> THEN <<>> ELSE Final(conv).uses,
                ![c].pc = IF conv = <<>> THEN "seed"
                          ELSE IF Final(conv).uses = <<>> THEN "turn" ELSE "dispatch"]
        /\ UNCHANGED <<job, messages, tools, leases, effects>>

PersistPrompt(c) ==
    /\ handler[c].pc = "seed"
    /\ PersistMessage(c, User(<<>>))
    /\ handler' = [handler EXCEPT ![c].pc = "turn", ![c].conv = <<User(<<>>)>>]
    /\ UNCHANGED <<job, tools, leases, effects>>

(***************************************************************************)
(* One turn: lease, call, answer                                           *)
(***************************************************************************)
LeaseOf(c) == <<c, Turns(handler[c].conv)>>

\* Mutant of AtTurn: one turn more than max_turns.
AtTurnOffByOne(c) == handler[c].pc = "turn" /\ Turns(handler[c].conv) <= MaxTurns

\* The head of the loop, where the loop goes on.
AtTurn(c) == handler[c].pc = "turn" /\ Turns(handler[c].conv) < MaxTurns

StopAtMaxTurns(c) ==
    /\ handler[c].pc = "turn" /\ ~AtTurn(c)
    /\ handler' = [handler EXCEPT ![c].pc = "done"]
    /\ UNCHANGED <<job, messages, tools, leases, effects>>

\* Mutant of CallModel: the count is not checked in the inserting transaction.
CallModelUnchecked(c) ==
    /\ AtTurn(c)
    /\ leases' = [Pruned EXCEPT ![LeaseOf(c)] = "live"]
    /\ handler' = [handler EXCEPT ![c].pc = "call"]
    /\ UNCHANGED <<job, messages, tools, effects>>

CallModel(c) ==
    /\ AtTurn(c)
    /\ AcquireLease(LeaseOf(c))
    /\ handler' = [handler EXCEPT ![c].pc = "call"]
    /\ UNCHANGED <<job, messages, tools, effects>>

\* RateLeaseUnavailableError
RefusedLease(c) ==
    /\ AtTurn(c)
    /\ RefuseLease
    /\ Throw(c)
    /\ UNCHANGED <<messages, tools, effects>>

\* releaseLease(..).catch(() => {}): a failed DELETE is ignored.
ReleaseOrLeave(c) == ReleaseLease(LeaseOf(c)) \/ UNCHANGED leases

Answer(c) ==
    /\ handler[c].pc = "call"
    /\ ReleaseOrLeave(c)
    /\ \E r \in Responses :
         handler' = [handler EXCEPT ![c].pc = "answered",
             ![c].reply = [k \in DOMAIN r |->
                 [by |-> c[2], at |-> Len(handler[c].conv), block |-> k, tool |-> r[k]]]]
    /\ UNCHANGED <<job, messages, tools, effects>>

\* The call fails, or is aborted.
CallFails(c) ==
    /\ handler[c].pc = "call"
    /\ ReleaseOrLeave(c)
    /\ Throw(c)
    /\ UNCHANGED <<messages, tools, effects>>

PersistReply(c) ==
    LET reply == handler[c].reply
    IN  /\ handler[c].pc = "answered"
        /\ PersistMessage(c, Assistant(reply))
        /\ handler' = [handler EXCEPT
                ![c].conv = Append(@, Assistant(reply)),
                ![c].pc = IF reply = <<>> THEN "done" ELSE "dispatch"]
        /\ UNCHANGED <<job, tools, leases, effects>>

(***************************************************************************)
(* The tools of an answer, one after the other                             *)
(***************************************************************************)
ToolsLeft(c) == handler[c].pc = "dispatch"
                /\ Len(handler[c].results) < Len(handler[c].reply)

\* The tool_use block to deal with, or being dealt with.
Current(c) == handler[c].reply[Len(handler[c].results) + 1]

Prior(c) == IF Current(c) \in DOMAIN handler[c].prior
            THEN handler[c].prior[Current(c)] ELSE "none"

AddResult(c, outcome) ==
    handler' = [handler EXCEPT
        ![c].pc = "dispatch",
        ![c].results = Append(@, [use |-> Current(c), outcome |-> outcome])]

UnknownTool(c) ==
    /\ ToolsLeft(c) /\ Current(c).tool = "unknown"
    /\ tools' = [tools EXCEPT ![c[1]] = Put(@, Current(c), "failed")]
    /\ AddResult(c, "failed")
    /\ UNCHANGED <<job, messages, leases, effects>>

\* Mutant of TrustPrior: a pending row is taken for an outcome.
TrustPriorPending(c) ==
    /\ ToolsLeft(c) /\ Current(c).tool # "unknown"
    /\ Prior(c) # "none"
    /\ AddResult(c, Prior(c))
    /\ UNCHANGED <<job, messages, tools, leases, effects>>

\* Mutant of TrustPrior: a failed execution is replayed as a success.
TrustPriorFailed(c) ==
    /\ ToolsLeft(c) /\ Current(c).tool # "unknown"
    /\ Prior(c) \in Outcome
    /\ AddResult(c, "complete")
    /\ UNCHANGED <<job, messages, tools, leases, effects>>

TrustPrior(c) ==
    /\ ToolsLeft(c) /\ Current(c).tool # "unknown"
    /\ Prior(c) \in Outcome
    /\ AddResult(c, Prior(c))
    /\ UNCHANGED <<job, messages, tools, leases, effects>>

RefuseRerun(c) ==
    /\ ToolsLeft(c) /\ Current(c).tool = "once"
    /\ Prior(c) = "pending"
    /\ Throw(c)
    /\ UNCHANGED <<messages, tools, leases, effects>>

\* Mutant of PersistToolPending: any pending tool is run again.
PersistToolPendingRerun(c) ==
    /\ ToolsLeft(c) /\ Current(c).tool # "unknown" /\ Prior(c) \notin Outcome
    /\ tools' = [tools EXCEPT ![c[1]] =
            IF Current(c) \in DOMAIN @ THEN @ ELSE Put(@, Current(c), "pending")]
    /\ handler' = [handler EXCEPT ![c].pc = "execute"]
    /\ UNCHANGED <<job, messages, leases, effects>>

\* ON CONFLICT (job_id, tool_use_id) DO NOTHING
PersistToolPending(c) ==
    /\ ToolsLeft(c)
    /\ \/ Current(c).tool = "idempotent" /\ Prior(c) \notin Outcome
       \/ Current(c).tool = "once" /\ Prior(c) = "none"
    /\ tools' = [tools EXCEPT ![c[1]] =
            IF Current(c) \in DOMAIN @ THEN @ ELSE Put(@, Current(c), "pending")]
    /\ handler' = [handler EXCEPT ![c].pc = "execute"]
    /\ UNCHANGED <<job, messages, leases, effects>>

\* The tool runs, returns or throws.
ExecuteTool(c) ==
    /\ handler[c].pc = "execute"
    /\ \E o \in Outcome : handler' = [handler EXCEPT ![c].pc = o]
    /\ effects' = effects \cup {<<c, Current(c)>>}
    /\ UNCHANGED <<job, messages, tools, leases>>

\* persistToolExecComplete or persistToolExecFailed.  An error while the first
\* is written is caught with the tool's own, and written as failed.
PersistToolOutcome(c) ==
    /\ handler[c].pc \in Outcome
    /\ \E o \in {handler[c].pc, "failed"} :
         /\ tools' = [tools EXCEPT ![c[1]] = Put(@, Current(c), o)]
         /\ AddResult(c, o)
    /\ UNCHANGED <<job, messages, leases, effects>>

\* Mutant of PersistResults: the results go to the model but not to the table.
PersistResultsInMemory(c) ==
    /\ handler[c].pc = "dispatch" /\ ~ToolsLeft(c)
    /\ handler' = [handler EXCEPT
            ![c].conv = Append(@, User(handler[c].results)), ![c].pc = "turn",
            ![c].reply = <<>>, ![c].results = <<>>]
    /\ UNCHANGED <<job, messages, tools, leases, effects>>

PersistResults(c) ==
    LET results == handler[c].results
    IN  /\ handler[c].pc = "dispatch" /\ ~ToolsLeft(c)
        /\ PersistMessage(c, User(results))
        /\ handler' = [handler EXCEPT
                ![c].conv = Append(@, User(results)), ![c].pc = "turn",
                ![c].reply = <<>>, ![c].results = <<>>]
        /\ UNCHANGED <<job, tools, leases, effects>>

(***************************************************************************)
(* The end of a claim                                                      *)
(***************************************************************************)
\* completeJob, dropped if the token does not match.
Complete(c) ==
    /\ handler[c].pc = "done"
    /\ Gone(c)
    /\ job' = IF Owns(c) THEN [job EXCEPT ![c[1]].status = "ended"] ELSE job
    /\ UNCHANGED <<messages, tools, leases, effects>>

\* An abort signal seen before a turn or a tool, or a statement that fails.
\* (CallFails is the same during the call, ExecuteTool catches what a tool throws.)
Fails(c) ==
    /\ Running(c) /\ handler[c].pc \notin {"call", "execute"}
    /\ Throw(c)
    /\ UNCHANGED <<messages, tools, leases, effects>>

Expire(l) ==
    /\ ExpireLease(l)
    /\ UNCHANGED <<job, messages, tools, handler, effects>>

HandlerStep(c) ==
    \/ LoadPriorMessages(c) \/ LoadPriorTools(c) \/ PersistPrompt(c)
    \/ StopAtMaxTurns(c) \/ CallModel(c) \/ RefusedLease(c) \/ Answer(c)
    \/ CallFails(c) \/ PersistReply(c)
    \/ UnknownTool(c) \/ TrustPrior(c) \/ RefuseRerun(c) \/ PersistToolPending(c)
    \/ ExecuteTool(c) \/ PersistToolOutcome(c) \/ PersistResults(c)
    \/ Complete(c) \/ Fails(c) \/ Crash(c)

Next ==
    \/ \E j \in Job : Start(j) \/ TakenAway(j)
    \/ \E c \in Claim : HandlerStep(c)
    \/ \E l \in Lease : Expire(l)

Spec == Init /\ [][Next]_vars

(***************************************************************************)
(* Properties                                                              *)
(***************************************************************************)
PC == {"gone", "messages", "tools", "seed", "turn", "call", "answered", "dispatch",
       "execute", "done"} \cup Outcome

LedgerStatus == Outcome \cup {"pending"}

Ledger(f) == DOMAIN f \subseteq Use /\ \A u \in DOMAIN f : f[u] \in LedgerStatus

HandlerOK(h) ==
    /\ h \in [pc : PC, conv : Seq(Message), prior : {h.prior},
              reply : Seq(Use), results : Seq(Result)]
    /\ Ledger(h.prior)
    /\ h.pc \in {"execute"} \cup Outcome => Len(h.results) < Len(h.reply)

\* The columns the handler writes, and its memory, hold what it reads back.
TypeOK ==
    /\ job \in [Job -> [status : {"waiting", "active", "ended"},
                        claims : 0..MaxClaims, attempts : Nat]]
    /\ messages \in [Job -> Seq(Message)]
    /\ tools = [j \in Job |-> tools[j]] /\ \A j \in Job : Ledger(tools[j])
    /\ handler = [c \in Claim |-> handler[c]] /\ \A c \in Claim : HandlerOK(handler[c])
    /\ LeaseTypeOK
    /\ effects \subseteq Claim \X Use

\* A tool that must not run twice is run by at most one claim, however often
\* the job is resumed (subagent.ts:262, "cannot safely re-run").
OncePerUse ==
    \A e1, e2 \in effects :
        e1[1][1] = e2[1][1] /\ e1[2] = e2[2] /\ e1[2].tool = "once" => e1 = e2

UsesOf(results) == [k \in DOMAIN results |-> results[k].use]

\* Every answer with tool uses that anything follows is followed by the results
\* of exactly those uses, in their order.
Sendable(conv) ==
    \A i \in 1..(Len(conv) - 1) : conv[i].uses = UsesOf(conv[i + 1].results)

\* What the tables hold is a conversation the model can be sent again
\* (subagent.ts:217-220, "so the next LLM call sees a consistent conversation").
ToolsAnswered == \A j \in Job : Sendable(messages[j])

\* A result the model was told is the outcome in the ledger, for good.
LedgerAgrees ==
    \A j \in Job : \A i \in DOMAIN messages[j] :
        \A k \in DOMAIN messages[j][i].results :
            LET r == messages[j][i].results[k]
            IN  r.use \in DOMAIN tools[j] /\ tools[j][r.use] = r.outcome

\* The model is called with what the tables hold and nothing else, so that the
\* next claim of the job would go on from the same words.
CallSeesTables ==
    \A c \in Claim : handler[c].pc = "call" => handler[c].conv = messages[c[1]]

\* max_turns counts the turns of all claims together.
TurnsBounded == \A j \in Job : Turns(messages[j]) <= MaxTurns

\* The loop implements RateLeases (LeaseSpec): whatever a handler, its death or
\* the clock does to the table is an acquisition, a refusal, a release or an
\* expiry, each as its transaction has it.
LeaseProtocol == LeaseSpec

\* RateLeaseUnavailableError is said to put the job back, "no terminal fail"
\* (subagent.ts:694-698).
RefusalNotTerminal ==
    [][\A c \in Claim : RefusedLease(c) => job'[c[1]].status # "ended" \/ ~Owns(c)]_vars

\* A resumed job "picks up from exactly the last committed turn"
\* (CHANGELOG.md:4997): once the answer without tool uses is committed, no
\* other turn follows.
AnswerIsLast ==
    \A j \in Job : \A i \in DOMAIN messages[j] :
        messages[j][i].role = "assistant" /\ messages[j][i].uses = <<>>
            => i = Len(messages[j])
================================================================================
