-------------------------- MODULE SubagentLoopProofs ---------------------------
(***************************************************************************)
(* What holds of RateLeases for any cap and any finite number of           *)
(* acquisitions, and of SubagentLoop for any number of jobs, claims, turns *)
(* and any answers of the model: the types, the lease table's protocol,    *)
(* and, when a job is claimed only after its old handler is gone, that a   *)
(* tool which must not run twice does not, that the stored conversation    *)
(* can be sent again, that its turns are bounded, and that it and the      *)
(* ledger of tools say the same.                                           *)
(***************************************************************************)
EXTENDS SubagentLoop, FiniteSetTheorems, SequenceTheorems, TLAPS

(***************************************************************************)
(* The lease table of one rate key never exceeds its cap.                  *)
(***************************************************************************)

\* Rows that were pruned or released only shrink the table.
LEMMA FewerRows ==
    ASSUME NEW S \in SUBSET Lease, NEW T \in SUBSET S
    PROVE  /\ Cardinality(T) \in Nat /\ Cardinality(S) \in Nat
           /\ Cardinality(T) <= Cardinality(S)
  <1>1. IsFiniteSet(Lease)  BY LeaseAssumption
  <1>2. IsFiniteSet(S)      BY <1>1, FS_Subset
  <1>3. IsFiniteSet(T)      BY <1>2, FS_Subset
  <1> QED  BY <1>2, <1>3, FS_Subset, FS_CardinalityType

\* acquireLease leaves at most one row more than were live.
LEMMA AcquireLeaseCapped ==
    ASSUME LeaseTypeOK, NEW l \in Lease, AcquireLease(l)
    PROVE  LeasesCapped'
  <1>1. Rows' \subseteq Live \cup {l}
    BY DEF LeaseTypeOK, LeaseState, AcquireLease, Pruned, Rows, Live
  <1>2. l \notin Live
    BY DEF AcquireLease, Live
  <1>3. /\ IsFiniteSet(Live) /\ Cardinality(Live) \in Nat
        /\ Cardinality(Live \cup {l}) = Cardinality(Live) + 1
    <2>1. IsFiniteSet(Live)  BY LeaseAssumption, FS_Subset DEF Live
    <2> QED  BY <2>1, <1>2, FS_AddElement, FS_CardinalityType
  <1>4. /\ Cardinality(Rows') <= Cardinality(Live \cup {l})
        /\ Cardinality(Rows') \in Nat
    BY <1>1, FewerRows DEF Live
  <1>5. Cardinality(Live) < MaxConcurrent
    BY DEF AcquireLease
  <1> QED  BY <1>3, <1>4, <1>5, LeaseAssumption DEF LeasesCapped

\* For every cap and every finite set of lease ids: each row is absent, live or
\* past its expiry.
THEOREM LeaseTypeCorrect == LeaseSpec => []LeaseTypeOK
  <1>1. LeaseInit => LeaseTypeOK
    BY DEF LeaseInit, LeaseTypeOK, LeaseState
  <1>2. LeaseTypeOK /\ [LeaseNext]_leases => LeaseTypeOK'
    BY DEF LeaseTypeOK, LeaseState, LeaseNext, AcquireLease, RefuseLease,
           ReleaseLease, ExpireLease, Pruned
  <1> QED  BY <1>1, <1>2, PTL DEF LeaseSpec

\* For every cap and every finite set of lease ids: the table holds at most
\* maxConcurrent rows.
THEOREM LeasesCappedHolds == LeaseSpec => []LeasesCapped
  <1>1. LeaseInit => LeasesCapped
    <2> SUFFICES ASSUME LeaseInit PROVE LeasesCapped  OBVIOUS
    <2>1. Rows = {}  BY DEF LeaseInit, Rows
    <2> QED  BY <2>1, FS_EmptySet, LeaseAssumption DEF LeasesCapped
  <1>2. LeaseTypeOK /\ LeasesCapped /\ [LeaseNext]_leases => LeasesCapped'
    <2> SUFFICES ASSUME LeaseTypeOK, LeasesCapped, [LeaseNext]_leases
                 PROVE  LeasesCapped'
      OBVIOUS
    <2>1. ASSUME NEW l \in Lease, AcquireLease(l)  PROVE LeasesCapped'
      BY <2>1, AcquireLeaseCapped
    <2>2. CASE Rows' \subseteq Rows
      <3>1. /\ Cardinality(Rows') <= Cardinality(Rows)
            /\ Cardinality(Rows') \in Nat /\ Cardinality(Rows) \in Nat
        BY <2>2, FewerRows DEF Rows
      <3> QED  BY <3>1, LeaseAssumption DEF LeasesCapped
    <2>3. ASSUME NEW l \in Lease, ReleaseLease(l) \/ ExpireLease(l)
          PROVE  Rows' \subseteq Rows
      BY <2>3 DEF LeaseTypeOK, LeaseState, ReleaseLease, ExpireLease, Rows
    <2>4. ASSUME RefuseLease  PROVE Rows' \subseteq Rows
      BY <2>4 DEF RefuseLease, Pruned, Rows
    <2>5. ASSUME UNCHANGED leases  PROVE Rows' \subseteq Rows
      BY <2>5 DEF Rows
    <2> QED  BY <2>1, <2>2, <2>3, <2>4, <2>5 DEF LeaseNext
  <1> QED  BY <1>1, <1>2, LeaseTypeCorrect, PTL DEF LeaseSpec

-----------------------------------------------------------------------------
HandlersOK == /\ handler = [c \in Claim |-> handler[c]]
              /\ \A c \in Claim : HandlerOK(handler[c])

(***************************************************************************)
(* Types                                                                   *)
(***************************************************************************)
LEMMA ClaimParts == ASSUME NEW c \in Claim
                    PROVE  c[1] \in Job /\ c[2] \in 1..MaxClaims /\ c = <<c[1], c[2]>>
  BY DEF Claim

\* A handler that is gone has the types of one that never ran.
LEMMA GoneType == ASSUME HandlersOK, NEW c \in Claim, Gone(c)
                  PROVE  HandlersOK'
  <1>1. HandlerOK(Idle)
    BY DEF HandlerOK, Idle, PC, Ledger, Outcome
  <1>2. \A d \in Claim : handler'[d] = IF d = c THEN Idle ELSE handler[d]
    BY DEF HandlersOK, Gone
  <1>3. handler' = [d \in Claim |-> handler'[d]]
    BY DEF HandlersOK, Gone
  <1> QED  BY <1>1, <1>2, <1>3 DEF HandlersOK

\* The same for a handler that goes on.
LEMMA StepType ==
    ASSUME HandlersOK, NEW c \in Claim, NEW h, HandlerOK(h),
           handler' = [handler EXCEPT ![c] = h]
    PROVE  HandlersOK'
  <1>1. \A d \in Claim : handler'[d] = IF d = c THEN h ELSE handler[d]
    BY DEF HandlersOK
  <1>2. handler' = [d \in Claim |-> handler'[d]]
    BY DEF HandlersOK
  <1> QED  BY <1>1, <1>2 DEF HandlersOK

\* An attempt that failed leaves a job row.
LEMMA FailJobType ==
    ASSUME TypeOK, NEW c \in Claim, FailJob(c)
    PROVE  job' \in [Job -> [status : {"waiting", "active", "ended"},
                             claims : 0..MaxClaims, attempts : Nat]]
  <1>1. c[1] \in Job  BY ClaimParts
  <1>2. /\ job[c[1]].attempts + 1 \in Nat
        /\ job \in [Job -> [status : {"waiting", "active", "ended"},
                           claims : 0..MaxClaims, attempts : Nat]]
    BY <1>1 DEF TypeOK
  <1>3. CASE Owns(c)
    BY <1>1, <1>2, <1>3 DEF FailJob
  <1> QED  BY <1>2, <1>3 DEF FailJob

\* A message is stored where the handler thinks the table ends, or not at all.
LEMMA PersistType ==
    ASSUME TypeOK, NEW c \in Claim, NEW m \in Message, PersistMessage(c, m)
    PROVE  messages' \in [Job -> Seq(Message)]
  <1>1. c[1] \in Job  BY ClaimParts
  <1>2. Append(messages[c[1]], m) \in Seq(Message)
    BY <1>1 DEF TypeOK
  <1> QED  BY <1>1, <1>2 DEF TypeOK, PersistMessage

\* The tool use being dealt with has a type, and so has its row.
LEMMA CurrentType ==
    ASSUME HandlersOK, NEW c \in Claim,
           Len(handler[c].results) < Len(handler[c].reply)
    PROVE  Current(c) \in Use
  <1>1. handler[c].results \in Seq(Result) /\ handler[c].reply \in Seq(Use)
    BY DEF HandlersOK, HandlerOK
  <1>2. Len(handler[c].results) + 1 \in 1..Len(handler[c].reply)
    BY <1>1
  <1> QED  BY <1>1, <1>2 DEF Current

\* The messages a handler writes are messages.
LEMMA MessageTypes ==
    /\ \A r \in Seq(Result) : User(r) \in Message
    /\ \A u \in Seq(Use) : Assistant(u) \in Message
  BY DEF User, Assistant, Message

\* Each statement of the replay leaves the handler with its types.
LEMMA ReplayType ==
    ASSUME TypeOK, NEW c \in Claim,
           LoadPriorMessages(c) \/ LoadPriorTools(c) \/ PersistPrompt(c)
    PROVE  HandlersOK'
  <1>0. HandlersOK /\ HandlerOK(handler[c]) /\ c[1] \in Job
    BY ClaimParts DEF TypeOK, HandlersOK
  <1>1. CASE LoadPriorMessages(c)
    <2> DEFINE h == [handler[c] EXCEPT !.pc = "tools", !.conv = messages[c[1]]]
    <2>1. handler' = [handler EXCEPT ![c] = h]
      BY <1>0, <1>1 DEF LoadPriorMessages, HandlersOK
    <2>2. messages[c[1]] \in Seq(Message)  BY <1>0 DEF TypeOK
    <2>3. HandlerOK(h)  BY <1>0, <2>2 DEF HandlerOK, PC, Outcome
    <2> HIDE DEF h
    <2> QED  BY <2>1, <2>3, <1>0, StepType
  <1>2. CASE LoadPriorTools(c)
    <2> DEFINE conv  == handler[c].conv
               reply == IF conv = <<>> THEN <<>> ELSE Final(conv).uses
               pc    == IF conv = <<>> THEN "seed"
                        ELSE IF Final(conv).uses = <<>> THEN "turn" ELSE "dispatch"
               h     == [handler[c] EXCEPT !.prior = tools[c[1]], !.reply = reply,
                                           !.pc = pc]
    <2>1. handler' = [handler EXCEPT ![c] = h]
      BY <1>0, <1>2 DEF LoadPriorTools, HandlersOK
    <2>2. reply \in Seq(Use)
      <3>1. CASE conv # <<>>
        <4>1. conv \in Seq(Message) /\ Len(conv) \in 1..Len(conv)
          BY <1>0, <3>1 DEF HandlerOK
        <4>2. Final(conv) \in Message  BY <4>1 DEF Final
        <4> QED  BY <3>1, <4>2 DEF Message
      <3> QED  BY <3>1
    <2>3. Ledger(tools[c[1]])  BY <1>0 DEF TypeOK
    <2>4. pc \in PC /\ pc \notin {"execute"} \cup Outcome  BY DEF PC, Outcome
    <2>5. HandlerOK(h)
      <3> HIDE DEF reply, pc, conv
      <3> QED  BY <1>0, <2>2, <2>3, <2>4 DEF HandlerOK
    <2> HIDE DEF h
    <2> QED  BY <2>1, <2>5, <1>0, StepType
  <1>3. CASE PersistPrompt(c)
    <2> DEFINE h == [handler[c] EXCEPT !.pc = "turn", !.conv = <<User(<<>>)>>]
    <2>1. handler' = [handler EXCEPT ![c] = h]
      BY <1>0, <1>3 DEF PersistPrompt, HandlersOK
    <2>2. <<User(<<>>)>> \in Seq(Message)
      <3>1. <<>> \in Seq(Result)      OBVIOUS
      <3>2. User(<<>>) \in Message    BY <3>1, MessageTypes
      <3> QED  BY <3>2
    <2>3. HandlerOK(h)  BY <1>0, <2>2 DEF HandlerOK, PC, Outcome
    <2> HIDE DEF h
    <2> QED  BY <2>1, <2>3, <1>0, StepType
  <1> QED  BY <1>1, <1>2, <1>3

\* So does each statement of a turn.
LEMMA TurnType ==
    ASSUME TypeOK, NEW c \in Claim,
           \/ StopAtMaxTurns(c) \/ CallModel(c) \/ Answer(c) \/ PersistReply(c)
    PROVE  HandlersOK'
  <1>0. /\ HandlersOK /\ HandlerOK(handler[c]) /\ handler[c].conv \in Seq(Message)
        /\ handler[c].reply \in Seq(Use) /\ c[1] \in Job /\ c[2] \in 1..MaxClaims
    BY ClaimParts DEF TypeOK, HandlersOK, HandlerOK
  <1>1. ASSUME NEW pc \in PC, handler' = [handler EXCEPT ![c].pc = pc],
               pc \in {"execute"} \cup Outcome
                   => Len(handler[c].results) < Len(handler[c].reply)
        PROVE  HandlersOK'
    <2> DEFINE h == [handler[c] EXCEPT !.pc = pc]
    <2>1. handler' = [handler EXCEPT ![c] = h]  BY <1>0, <1>1 DEF HandlersOK
    <2>2. HandlerOK(h)  BY <1>0, <1>1 DEF HandlerOK
    <2> HIDE DEF h
    <2> QED  BY <2>1, <2>2, <1>0, StepType
  <1>2. CASE StopAtMaxTurns(c) \/ CallModel(c)
    BY <1>1, <1>2 DEF StopAtMaxTurns, CallModel, PC, Outcome
  <1>3. CASE Answer(c)
    <2>1. PICK r \in Responses :
             handler' = [handler EXCEPT ![c].pc = "answered",
               ![c].reply = [k \in DOMAIN r |->
                 [by |-> c[2], at |-> Len(handler[c].conv), block |-> k, tool |-> r[k]]]]
      BY <1>3 DEF Answer
    <2> DEFINE reply == [k \in DOMAIN r |->
                 [by |-> c[2], at |-> Len(handler[c].conv), block |-> k, tool |-> r[k]]]
               h == [handler[c] EXCEPT !.pc = "answered", !.reply = reply]
    <2>2. reply \in Seq(Use)
      <3>1. r \in Seq(Tool) /\ DOMAIN r = 1..Len(r) /\ Len(r) \in Nat
        BY LoopAssumption
      <3>2. \A k \in 1..Len(r) : reply[k] \in Use
        BY <1>0, <3>1 DEF Use
      <3> QED  BY <3>1, <3>2
    <2>3. handler' = [handler EXCEPT ![c] = h]  BY <1>0, <2>1 DEF HandlersOK
    <2>4. HandlerOK(h)
      <3> HIDE DEF reply
      <3> QED  BY <1>0, <2>2 DEF HandlerOK, PC, Outcome
    <2> HIDE DEF h
    <2> QED  BY <2>3, <2>4, <1>0, StepType
  <1>4. CASE PersistReply(c)
    <2> DEFINE reply == handler[c].reply
               conv  == Append(handler[c].conv, Assistant(reply))
               pc    == IF reply = <<>> THEN "done" ELSE "dispatch"
               h     == [handler[c] EXCEPT !.conv = conv, !.pc = pc]
    <2>1. handler' = [handler EXCEPT ![c] = h]
      BY <1>0, <1>4 DEF PersistReply, HandlersOK
    <2>2. conv \in Seq(Message)  BY <1>0, MessageTypes
    <2>3. HandlerOK(h)
      <3>1. pc \in PC /\ pc \notin {"execute"} \cup Outcome  BY DEF PC, Outcome
      <3> HIDE DEF conv, pc
      <3> QED  BY <1>0, <2>2, <3>1 DEF HandlerOK
    <2> HIDE DEF h
    <2> QED  BY <2>1, <2>3, <1>0, StepType
  <1> QED  BY <1>2, <1>3, <1>4

\* A row of the ledger is written with one of its statuses.
LEMMA LedgerPut ==
    ASSUME NEW f, Ledger(f), NEW u \in Use, NEW s \in LedgerStatus
    PROVE  Ledger(Put(f, u, s)) /\ Ledger(IF u \in DOMAIN f THEN f ELSE Put(f, u, s))
  BY DEF Ledger, Put

\* A result is added to those the handler has.
LEMMA AddResultType ==
    ASSUME HandlersOK, NEW c \in Claim, NEW o \in Outcome, AddResult(c, o),
           Current(c) \in Use
    PROVE  HandlersOK'
  <1> DEFINE results == Append(handler[c].results, [use |-> Current(c), outcome |-> o])
             h == [handler[c] EXCEPT !.pc = "dispatch", !.results = results]
  <1>0. HandlerOK(handler[c]) /\ handler[c].results \in Seq(Result)
    BY DEF HandlersOK, HandlerOK
  <1>1. handler' = [handler EXCEPT ![c] = h]
    BY <1>0 DEF AddResult, HandlersOK
  <1>2. results \in Seq(Result)
    <2>1. [use |-> Current(c), outcome |-> o] \in Result  BY DEF Result
    <2> QED  BY <1>0, <2>1
  <1>3. HandlerOK(h)
    <2> HIDE DEF results
    <2> QED  BY <1>0, <1>2 DEF HandlerOK, PC, Outcome
  <1> HIDE DEF h
  <1> QED  BY <1>1, <1>3, StepType

\* The ledger of one job is rewritten.
LEMMA ToolsType ==
    ASSUME TypeOK, NEW j \in Job, NEW f, Ledger(f), tools' = [tools EXCEPT ![j] = f]
    PROVE  tools' = [i \in Job |-> tools'[i]] /\ \A i \in Job : Ledger(tools'[i])
  BY DEF TypeOK

\* The steps that deal with the tool uses of an answer keep the types.
LEMMA ToolStepsType ==
    ASSUME TypeOK, NEW c \in Claim,
           \/ UnknownTool(c) \/ TrustPrior(c) \/ PersistToolPending(c)
           \/ ExecuteTool(c) \/ PersistToolOutcome(c)
    PROVE  /\ HandlersOK' /\ effects' \subseteq Claim \X Use
           /\ tools' = [i \in Job |-> tools'[i]] /\ \A i \in Job : Ledger(tools'[i])
  <1>0. /\ HandlersOK /\ HandlerOK(handler[c]) /\ c[1] \in Job
        /\ Ledger(tools[c[1]]) /\ effects \subseteq Claim \X Use
        /\ tools = [i \in Job |-> tools[i]] /\ \A i \in Job : Ledger(tools[i])
    BY ClaimParts DEF TypeOK, HandlersOK
  <1>1. ASSUME NEW pc \in PC, handler' = [handler EXCEPT ![c].pc = pc],
               pc \in {"execute"} \cup Outcome
                   => Len(handler[c].results) < Len(handler[c].reply)
        PROVE  HandlersOK'
    <2> DEFINE h == [handler[c] EXCEPT !.pc = pc]
    <2>1. handler' = [handler EXCEPT ![c] = h]  BY <1>0, <1>1 DEF HandlersOK
    <2>2. HandlerOK(h)  BY <1>0, <1>1 DEF HandlerOK
    <2> HIDE DEF h
    <2> QED  BY <2>1, <2>2, <1>0, StepType
  <1>2. ASSUME NEW s \in LedgerStatus, Current(c) \in Use,
               \/ tools' = [tools EXCEPT ![c[1]] = Put(@, Current(c), s)]
               \/ tools' = [tools EXCEPT ![c[1]] =
                      IF Current(c) \in DOMAIN @ THEN @ ELSE Put(@, Current(c), s)]
        PROVE  tools' = [i \in Job |-> tools'[i]] /\ \A i \in Job : Ledger(tools'[i])
    <2>1. \E f : Ledger(f) /\ tools' = [tools EXCEPT ![c[1]] = f]
      BY <1>0, <1>2, LedgerPut
    <2> QED  BY <2>1, <1>0, ToolsType
  <1>3. CASE UnknownTool(c)
    BY <1>0, <1>2, <1>3, CurrentType, AddResultType
       DEF UnknownTool, ToolsLeft, LedgerStatus, Outcome
  <1>4. CASE TrustPrior(c)
    BY <1>0, <1>4, CurrentType, AddResultType DEF TrustPrior, ToolsLeft
  <1>5. CASE PersistToolPending(c)
    BY <1>0, <1>1, <1>2, <1>5, CurrentType DEF PersistToolPending, ToolsLeft, LedgerStatus, PC, Outcome
  <1>6. CASE ExecuteTool(c)
    <2>1. Len(handler[c].results) < Len(handler[c].reply) /\ Current(c) \in Use
      BY <1>0, <1>6, CurrentType DEF ExecuteTool, HandlerOK
    <2>2. PICK o \in Outcome : handler' = [handler EXCEPT ![c].pc = o]
      BY <1>6 DEF ExecuteTool
    <2>3. HandlersOK'  BY <1>1, <2>1, <2>2 DEF PC
    <2> QED  BY <1>0, <1>6, <2>1, <2>3 DEF ExecuteTool
  <1>7. CASE PersistToolOutcome(c)
    <2>1. Current(c) \in Use
      BY <1>0, <1>7, CurrentType DEF PersistToolOutcome, HandlerOK
    <2>2. PICK o \in {handler[c].pc, "failed"} :
             /\ tools' = [tools EXCEPT ![c[1]] = Put(@, Current(c), o)]
             /\ AddResult(c, o)
      BY <1>7 DEF PersistToolOutcome
    <2>3. o \in Outcome /\ o \in LedgerStatus
      BY <1>7 DEF PersistToolOutcome, Outcome, LedgerStatus
    <2>4. HandlersOK'  BY <1>0, <2>1, <2>2, <2>3, AddResultType
    <2> QED  BY <1>0, <1>2, <1>7, <2>1, <2>2, <2>3, <2>4 DEF PersistToolOutcome
  <1> QED  BY <1>3, <1>4, <1>5, <1>6, <1>7

\* The results of an answer become a message.
LEMMA PersistResultsType ==
    ASSUME TypeOK, NEW c \in Claim, PersistResults(c)
    PROVE  HandlersOK'
  <1> DEFINE conv == Append(handler[c].conv, User(handler[c].results))
             h == [handler[c] EXCEPT !.conv = conv, !.pc = "turn", !.reply = <<>>,
                                     !.results = <<>>]
  <1>0. HandlersOK /\ HandlerOK(handler[c])  BY DEF TypeOK, HandlersOK
  <1>1. handler' = [handler EXCEPT ![c] = h]
    BY <1>0 DEF PersistResults, HandlersOK
  <1>2. conv \in Seq(Message)  BY <1>0, MessageTypes DEF HandlerOK
  <1>3. HandlerOK(h)
    <2>1. <<>> \in Seq(Use) /\ <<>> \in Seq(Result)  OBVIOUS
    <2> HIDE DEF conv
    <2> QED  BY <1>0, <1>2, <2>1 DEF HandlerOK, PC, Outcome
  <1> HIDE DEF h
  <1> QED  BY <1>0, <1>1, <1>3, StepType

\* The queue starts a handler for a claim.
LEMMA StartType ==
    ASSUME TypeOK, NEW j \in Job, Start(j)
    PROVE  /\ HandlersOK'
           /\ job' \in [Job -> [status : {"waiting", "active", "ended"},
                                claims : 0..MaxClaims, attempts : Nat]]
  <1> DEFINE n == job[j].claims + 1
             c == <<j, n>>
             h == [handler[c] EXCEPT !.pc = "messages"]
  <1>0. /\ HandlersOK /\ n \in 1..MaxClaims /\ c \in Claim
        /\ job \in [Job -> [status : {"waiting", "active", "ended"},
                            claims : 0..MaxClaims, attempts : Nat]]
    BY LoopAssumption DEF TypeOK, HandlersOK, Start, Claim
  <1>1. handler' = [handler EXCEPT ![c] = h] /\ HandlerOK(handler[c])
    BY <1>0 DEF Start, HandlersOK
  <1>2. HandlerOK(h)  BY <1>1 DEF HandlerOK, PC, Outcome
  <1>3. HandlersOK'
    <2> HIDE DEF h, c
    <2> QED  BY <1>0, <1>1, <1>2, StepType
  <1>4. n \in 0..MaxClaims /\ job' = [job EXCEPT ![j].status = "active", ![j].claims = n]
    BY <1>0 DEF Start
  <1> QED  BY <1>0, <1>3, <1>4

(***************************************************************************)
(* The lease table                                                         *)
(***************************************************************************)
\* A handler before its last turn asks for a lease that exists.
LEMMA LeaseOfType ==
    ASSUME TypeOK, NEW c \in Claim, AtTurn(c)
    PROVE  LeaseOf(c) \in Lease
  <1> DEFINE conv  == handler[c].conv
             turns == {i \in DOMAIN conv : conv[i].role = "assistant"}
  <1>1. conv \in Seq(Message) /\ DOMAIN conv = 1..Len(conv) /\ Len(conv) \in Nat
    BY DEF TypeOK, HandlerOK
  <1>2. IsFiniteSet(1..Len(conv))  BY <1>1, FS_Interval
  <1>3. IsFiniteSet(turns)         BY <1>1, <1>2, FS_Subset
  <1>4. Cardinality(turns) \in Nat  BY <1>3, FS_CardinalityType
  <1>5. Cardinality(turns) < MaxTurns  BY DEF AtTurn, Turns
  <1> QED  BY <1>4, <1>5, LoopAssumption, LeasePerTurn DEF LeaseOf, Turns

\* A release, whether it succeeds or not.
LEMMA ReleaseStep ==
    ASSUME TypeOK, NEW c \in Claim, ReleaseOrLeave(c)
    PROVE  [LeaseNext]_leases
  <1>1. CASE LeaseOf(c) \in Lease
    BY <1>1 DEF ReleaseOrLeave, LeaseNext
  <1>2. CASE LeaseOf(c) \notin Lease
    BY <1>2 DEF ReleaseOrLeave, ReleaseLease, TypeOK, LeaseTypeOK
  <1> QED  BY <1>1, <1>2

\* Every step of the system is a step of the lease table, or leaves it alone.
LEMMA LeaseStep ==
    ASSUME TypeOK, [Next]_vars
    PROVE  [LeaseNext]_leases
  <1>1. ASSUME NEW c \in Claim, CallModel(c)  PROVE [LeaseNext]_leases
    BY <1>1, LeaseOfType DEF CallModel, LeaseNext
  <1>2. ASSUME NEW c \in Claim, RefusedLease(c)  PROVE [LeaseNext]_leases
    BY <1>2 DEF RefusedLease, LeaseNext
  <1>3. ASSUME NEW c \in Claim, Answer(c) \/ CallFails(c)  PROVE [LeaseNext]_leases
    BY <1>3, ReleaseStep DEF Answer, CallFails
  <1>4. ASSUME NEW l \in Lease, Expire(l)  PROVE [LeaseNext]_leases
    BY <1>4 DEF Expire, LeaseNext
  <1>5. ASSUME NEW j \in Job, Start(j) \/ TakenAway(j)  PROVE UNCHANGED leases
    BY <1>5 DEF Start, TakenAway
  <1>6. ASSUME NEW c \in Claim, HandlerStep(c), ~CallModel(c), ~RefusedLease(c),
               ~Answer(c), ~CallFails(c)
        PROVE  UNCHANGED leases
    BY <1>6 DEF HandlerStep, LoadPriorMessages, LoadPriorTools, PersistPrompt,
        StopAtMaxTurns, PersistReply, UnknownTool, TrustPrior, RefuseRerun,
        PersistToolPending, ExecuteTool, PersistToolOutcome, PersistResults, Complete,
        Fails, Crash
  <1> QED  BY <1>1, <1>2, <1>3, <1>4, <1>5, <1>6 DEF Next, vars

LEMMA LeaseTypeStep ==
    ASSUME LeaseTypeOK, [LeaseNext]_leases
    PROVE  LeaseTypeOK'
  BY DEF LeaseTypeOK, LeaseState, LeaseNext, AcquireLease, RefuseLease,
         ReleaseLease, ExpireLease, Pruned

(***************************************************************************)
(* Every step keeps the types                                              *)
(***************************************************************************)
JobsOK == job \in [Job -> [status : {"waiting", "active", "ended"},
                           claims : 0..MaxClaims, attempts : Nat]]

LEMMA JobsStep == ASSUME TypeOK, [Next]_vars PROVE JobsOK'
  <1>0. JobsOK  BY DEF TypeOK, JobsOK
  <1>1. ASSUME NEW j \in Job, Start(j)  PROVE JobsOK'
    BY <1>1, StartType DEF JobsOK
  <1>2. ASSUME NEW j \in Job, TakenAway(j)  PROVE JobsOK'
    BY <1>0, <1>2 DEF TakenAway, JobsOK
  <1>3. ASSUME NEW c \in Claim, FailJob(c)  PROVE JobsOK'
    BY <1>3, FailJobType DEF JobsOK
  <1>4. ASSUME NEW c \in Claim, Complete(c)  PROVE JobsOK'
    BY <1>0, <1>4, ClaimParts DEF Complete, JobsOK
  <1>5. ASSUME NEW c \in Claim, HandlerStep(c), ~FailJob(c), ~Complete(c)
        PROVE  UNCHANGED job
    BY <1>5 DEF HandlerStep, LoadPriorMessages, LoadPriorTools, PersistPrompt,
        StopAtMaxTurns, CallModel, RefusedLease, Answer, CallFails, PersistReply,
        UnknownTool, TrustPrior, RefuseRerun, PersistToolPending, ExecuteTool,
        PersistToolOutcome, PersistResults, Fails, Crash, Throw
  <1>6. ASSUME UNCHANGED job  PROVE JobsOK'
    BY <1>0, <1>6 DEF JobsOK
  <1>7. ASSUME NEW l \in Lease, Expire(l)  PROVE UNCHANGED job
    BY <1>7 DEF Expire
  <1> QED  BY <1>1, <1>2, <1>3, <1>4, <1>5, <1>6, <1>7 DEF Next, vars

LEMMA MessagesStep == ASSUME TypeOK, [Next]_vars PROVE messages' \in [Job -> Seq(Message)]
  <1>1. ASSUME NEW c \in Claim, PersistPrompt(c)
        PROVE  \E m \in Message : PersistMessage(c, m)
    <2>1. <<>> \in Seq(Result)  OBVIOUS
    <2> QED  BY <1>1, <2>1, MessageTypes DEF PersistPrompt
  <1>2. ASSUME NEW c \in Claim, PersistReply(c)
        PROVE  \E m \in Message : PersistMessage(c, m)
    <2>1. handler[c].reply \in Seq(Use)  BY DEF TypeOK, HandlerOK
    <2> QED  BY <1>2, <2>1, MessageTypes DEF PersistReply
  <1>3. ASSUME NEW c \in Claim, PersistResults(c)
        PROVE  \E m \in Message : PersistMessage(c, m)
    <2>1. handler[c].results \in Seq(Result)  BY DEF TypeOK, HandlerOK
    <2> QED  BY <1>3, <2>1, MessageTypes DEF PersistResults
  <1>4. ASSUME NEW c \in Claim, HandlerStep(c), ~PersistPrompt(c), ~PersistReply(c),
               ~PersistResults(c)
        PROVE  UNCHANGED messages
    BY <1>4 DEF HandlerStep, LoadPriorMessages, LoadPriorTools, StopAtMaxTurns,
        CallModel, RefusedLease, Answer, CallFails, UnknownTool, TrustPrior,
        RefuseRerun, PersistToolPending, ExecuteTool, PersistToolOutcome, Complete,
        Fails, Crash
  <1>5. ASSUME NEW j \in Job, Start(j) \/ TakenAway(j)  PROVE UNCHANGED messages
    BY <1>5 DEF Start, TakenAway
  <1>6. ASSUME NEW l \in Lease, Expire(l)  PROVE UNCHANGED messages
    BY <1>6 DEF Expire
  <1>7. ASSUME UNCHANGED messages  PROVE messages' \in [Job -> Seq(Message)]
    BY <1>7 DEF TypeOK
  <1> QED  BY <1>1, <1>2, <1>3, <1>4, <1>5, <1>6, <1>7, PersistType DEF Next, vars

\* The handler's memory, the ledger and the history, together.
LedgersOK == /\ HandlersOK /\ effects \subseteq Claim \X Use
             /\ tools = [j \in Job |-> tools[j]] /\ \A j \in Job : Ledger(tools[j])

LEMMA LedgersStep == ASSUME TypeOK, [Next]_vars PROVE LedgersOK'
  <1>0. LedgersOK  BY DEF TypeOK, LedgersOK, HandlersOK
  <1>1. ASSUME NEW j \in Job, Start(j)  PROVE LedgersOK'
    BY <1>0, <1>1, StartType DEF Start, LedgersOK
  <1>2. ASSUME NEW c \in Claim,
               LoadPriorMessages(c) \/ LoadPriorTools(c) \/ PersistPrompt(c)
        PROVE  LedgersOK'
    BY <1>0, <1>2, ReplayType
       DEF LoadPriorMessages, LoadPriorTools, PersistPrompt, LedgersOK
  <1>3. ASSUME NEW c \in Claim,
               StopAtMaxTurns(c) \/ CallModel(c) \/ Answer(c) \/ PersistReply(c)
        PROVE  LedgersOK'
    BY <1>0, <1>3, TurnType DEF StopAtMaxTurns, CallModel, Answer, PersistReply, LedgersOK
  <1>4. ASSUME NEW c \in Claim,
               \/ UnknownTool(c) \/ TrustPrior(c) \/ PersistToolPending(c)
               \/ ExecuteTool(c) \/ PersistToolOutcome(c)
        PROVE  LedgersOK'
    BY <1>4, ToolStepsType DEF LedgersOK
  <1>5. ASSUME NEW c \in Claim, PersistResults(c)  PROVE LedgersOK'
    BY <1>0, <1>5, PersistResultsType DEF PersistResults, LedgersOK
  <1>6. ASSUME NEW c \in Claim, Gone(c), UNCHANGED <<tools, effects>>
        PROVE  LedgersOK'
    BY <1>0, <1>6, GoneType DEF LedgersOK
  <1>7. ASSUME NEW c \in Claim,
               \/ RefusedLease(c) \/ CallFails(c) \/ RefuseRerun(c) \/ Complete(c)
               \/ Fails(c) \/ Crash(c)
        PROVE  Gone(c) /\ UNCHANGED <<tools, effects>>
    BY <1>7 DEF RefusedLease, CallFails, RefuseRerun, Complete, Fails, Crash, Throw
  <1>8. ASSUME UNCHANGED <<tools, handler, effects>>  PROVE LedgersOK'
    BY <1>0, <1>8 DEF LedgersOK, HandlersOK
  <1>9. ASSUME NEW j \in Job, TakenAway(j)  PROVE LedgersOK'
    BY <1>8, <1>9 DEF TakenAway
  <1>10. ASSUME NEW l \in Lease, Expire(l)  PROVE LedgersOK'
    BY <1>8, <1>10 DEF Expire
  <1>11. ASSUME NEW c \in Claim, HandlerStep(c)  PROVE LedgersOK'
    BY <1>2, <1>3, <1>4, <1>5, <1>6, <1>7, <1>11 DEF HandlerStep
  <1> QED  BY <1>1, <1>8, <1>9, <1>10, <1>11 DEF Next, vars

LEMMA TypeInit == Init => TypeOK
  <1> SUFFICES ASSUME Init PROVE TypeOK  OBVIOUS
  <1>1. HandlerOK(Idle)  BY DEF HandlerOK, Idle, PC, Ledger, Outcome
  <1>2. /\ handler = [c \in Claim |-> handler[c]]
        /\ \A c \in Claim : HandlerOK(handler[c])
    BY <1>1 DEF Init
  <1>3. tools = [j \in Job |-> tools[j]] /\ \A j \in Job : Ledger(tools[j])
    BY DEF Init, Ledger
  <1>4. LeaseTypeOK  BY DEF Init, LeaseInit, LeaseTypeOK, LeaseState
  <1>5. JobsOK /\ messages \in [Job -> Seq(Message)] /\ effects \subseteq Claim \X Use
    BY LoopAssumption DEF Init, JobsOK
  <1> QED  BY <1>2, <1>3, <1>4, <1>5 DEF TypeOK, JobsOK

LEMMA TypeStep == TypeOK /\ [Next]_vars => TypeOK'
  <1> SUFFICES ASSUME TypeOK, [Next]_vars PROVE TypeOK'  OBVIOUS
  <1>1. LeaseTypeOK'  BY LeaseStep, LeaseTypeStep DEF TypeOK
  <1> QED  BY <1>1, JobsStep, MessagesStep, LedgersStep
           DEF TypeOK, JobsOK, LedgersOK, HandlersOK

\* For any jobs, bounds and answers: the tables and the handlers' memory hold
\* what TypeOK says, with or without overlapping handlers.
THEOREM TypeCorrect == Spec => []TypeOK
  BY TypeInit, TypeStep, PTL DEF Spec

\* The loop uses the lease table only as RateLeases says, with or without
\* overlapping handlers.
THEOREM LeaseProtocolHolds == Spec => LeaseProtocol
  <1>1. Init => LeaseInit  BY DEF Init
  <1>2. TypeOK /\ [Next]_vars => [LeaseNext]_leases  BY LeaseStep
  <1> QED  BY <1>1, <1>2, TypeCorrect, PTL DEF Spec, LeaseProtocol, LeaseSpec

\* However often handlers die with their lease, the rate key never has more
\* rows than its cap: LeasesCappedHolds of RateLeases, through the refinement.
THEOREM LoopLeasesCapped == Spec => []LeasesCapped
  BY LeaseProtocolHolds, LeasesCappedHolds, PTL DEF LeaseProtocol

(***************************************************************************)
(* Tools that must not run twice                                           *)
(***************************************************************************)
\* Only the newest claim of a job still runs.
Alone == \A c \in Claim : Running(c) => c[2] = job[c[1]].claims

\* What was run is in the ledger.
Recorded == \A e \in effects : e[2] \in DOMAIN tools[e[1][1]]

\* A handler that has loaded the ledger knows what earlier claims have run.
Knows(c) == handler[c].pc \notin {"gone", "messages", "tools"} =>
    \A e \in effects : e[1][1] = c[1] /\ e[1] # c => e[2] \in DOMAIN handler[c].prior

Remembered == \A c \in Claim : Knows(c)

\* A tool about to run is in the ledger, and was not when the handler loaded it
\* if the tool must not run twice.
Announces(c) == handler[c].pc = "execute" =>
    /\ Current(c) \in DOMAIN tools[c[1]]
    /\ Current(c).tool = "once" => Current(c) \notin DOMAIN handler[c].prior

Announced == \A c \in Claim : Announces(c)

OnceInv == TypeOK /\ Alone /\ Recorded /\ Remembered /\ Announced /\ OncePerUse

\* What a handler's step leaves of the others, of the ledger and of the claims.
LEMMA StepFrame ==
    ASSUME TypeOK, NEW c \in Claim, HandlerStep(c)
    PROVE  /\ \A d \in Claim \ {c} : handler'[d] = handler[d]
           /\ \A j \in Job : DOMAIN tools[j] \subseteq DOMAIN tools'[j]
           /\ \A j \in Job : job'[j].claims = job[j].claims
           /\ Running(c)
           /\ ExecuteTool(c) \/ UNCHANGED effects
  <1>0. handler = [d \in Claim |-> handler[d]] /\ c[1] \in Job
    BY ClaimParts DEF TypeOK
  <1>1. \A d \in Claim \ {c} : handler'[d] = handler[d]
    BY <1>0 DEF HandlerStep, LoadPriorMessages, LoadPriorTools, PersistPrompt,
        StopAtMaxTurns, CallModel, RefusedLease, Answer, CallFails, PersistReply,
        UnknownTool, TrustPrior, RefuseRerun, PersistToolPending, ExecuteTool,
        PersistToolOutcome, PersistResults, Complete, Fails, Crash, Throw, Gone, AddResult
  <1>2. \A j \in Job : DOMAIN tools[j] \subseteq DOMAIN tools'[j]
    <2>0. tools = [j \in Job |-> tools[j]]  BY DEF TypeOK
    <2>1. CASE UnknownTool(c) \/ PersistToolPending(c) \/ PersistToolOutcome(c)
      BY <1>0, <2>0, <2>1 DEF UnknownTool, PersistToolPending, PersistToolOutcome, Put
    <2>2. CASE ~(UnknownTool(c) \/ PersistToolPending(c) \/ PersistToolOutcome(c))
      BY <2>2 DEF HandlerStep, LoadPriorMessages, LoadPriorTools, PersistPrompt,
        StopAtMaxTurns, CallModel, RefusedLease, Answer, CallFails, PersistReply,
        TrustPrior, RefuseRerun, ExecuteTool, PersistResults, Complete, Fails, Crash
    <2> QED  BY <2>1, <2>2
  <1>3. \A j \in Job : job'[j].claims = job[j].claims
    <2>0. job \in [Job -> [status : {"waiting", "active", "ended"},
                           claims : 0..MaxClaims, attempts : Nat]]
      BY DEF TypeOK
    <2>1. CASE FailJob(c) \/ Complete(c)
      BY <1>0, <2>0, <2>1 DEF FailJob, Complete
    <2>2. CASE ~(FailJob(c) \/ Complete(c))
      BY <2>2 DEF HandlerStep, LoadPriorMessages, LoadPriorTools, PersistPrompt,
        StopAtMaxTurns, CallModel, RefusedLease, Answer, CallFails, PersistReply,
        UnknownTool, TrustPrior, RefuseRerun, PersistToolPending, ExecuteTool,
        PersistToolOutcome, PersistResults, Fails, Crash, Throw
    <2> QED  BY <2>1, <2>2
  <1>4. Running(c)
    BY DEF HandlerStep, LoadPriorMessages, LoadPriorTools, PersistPrompt,
        StopAtMaxTurns, CallModel, RefusedLease, Answer, CallFails, PersistReply,
        UnknownTool, TrustPrior, RefuseRerun, PersistToolPending, ExecuteTool,
        PersistToolOutcome, PersistResults, Complete, Fails, Crash, Running, AtTurn,
        ToolsLeft, Outcome
  <1>5. ExecuteTool(c) \/ UNCHANGED effects
    BY DEF HandlerStep, LoadPriorMessages, LoadPriorTools, PersistPrompt,
        StopAtMaxTurns, CallModel, RefusedLease, Answer, CallFails, PersistReply,
        UnknownTool, TrustPrior, RefuseRerun, PersistToolPending,
        PersistToolOutcome, PersistResults, Complete, Fails, Crash
  <1> QED  BY <1>1, <1>2, <1>3, <1>4, <1>5

\* What the step leaves of the handler's own memory.
LEMMA StepMemory ==
    ASSUME TypeOK, NEW c \in Claim, HandlerStep(c)
    PROVE  \/ handler'[c].pc \in {"gone", "tools"}
           \/ /\ handler[c].pc = "tools" /\ handler'[c].pc # "execute"
              /\ handler'[c].prior = tools[c[1]]
           \/ /\ handler[c].pc \notin {"gone", "messages", "tools"}
              /\ handler'[c].prior = handler[c].prior
              /\ PersistToolPending(c) \/ handler'[c].pc # "execute"
  <1>0. /\ handler = [d \in Claim |-> handler[d]] /\ HandlerOK(handler[c])
        /\ c[1] \in Job
    BY ClaimParts DEF TypeOK
  <1>1. CASE LoadPriorMessages(c)
    BY <1>0, <1>1 DEF LoadPriorMessages, HandlerOK
  <1>2. CASE LoadPriorTools(c)
    BY <1>0, <1>2 DEF LoadPriorTools, HandlerOK
  <1>3. CASE PersistPrompt(c) \/ StopAtMaxTurns(c) \/ CallModel(c) \/ PersistReply(c)
    BY <1>0, <1>3 DEF PersistPrompt, StopAtMaxTurns, CallModel, PersistReply,
        AtTurn, HandlerOK
  <1>8. CASE Answer(c)
    <2>1. PICK reply : handler' = [handler EXCEPT ![c].pc = "answered", ![c].reply = reply]
      BY <1>8 DEF Answer
    <2> QED  BY <1>0, <1>8, <2>1 DEF Answer, HandlerOK
  <1>4. CASE UnknownTool(c) \/ TrustPrior(c) \/ PersistToolPending(c) \/ PersistResults(c)
    BY <1>0, <1>4 DEF UnknownTool, TrustPrior, PersistToolPending, PersistResults,
        AddResult, ToolsLeft, HandlerOK
  <1>5. CASE ExecuteTool(c) \/ PersistToolOutcome(c)
    BY <1>0, <1>5 DEF ExecuteTool, PersistToolOutcome, AddResult, Outcome, HandlerOK
  <1>6. ASSUME Gone(c)  PROVE handler'[c].pc = "gone"
    BY <1>0, <1>6 DEF Gone, Idle
  <1>7. CASE \/ RefusedLease(c) \/ CallFails(c) \/ RefuseRerun(c) \/ Complete(c)
             \/ Fails(c) \/ Crash(c)
    BY <1>6, <1>7 DEF RefusedLease, CallFails, RefuseRerun, Complete, Fails, Crash, Throw
  <1> QED  BY <1>1, <1>2, <1>3, <1>4, <1>5, <1>7, <1>8 DEF HandlerStep

\* Every step but a claim keeps the invariant about claims and ledgers.
LEMMA OnceHandlerStep ==
    ASSUME OnceInv, TypeOK', NEW c \in Claim, HandlerStep(c)
    PROVE  Alone' /\ Recorded' /\ Remembered' /\ Announced' /\ OncePerUse'
  <1> USE DEF OnceInv
  <1>1. Alone'
    BY StepFrame, ClaimParts DEF Alone, Running
  <1>2. ASSUME ExecuteTool(c)
        PROVE  /\ effects' = effects \cup {<<c, Current(c)>>}
               /\ handler[c].pc = "execute" /\ c[1] \in Job
               /\ Current(c) \in DOMAIN tools[c[1]]
               /\ Current(c).tool = "once" => Current(c) \notin DOMAIN handler[c].prior
    BY <1>2, ClaimParts DEF ExecuteTool, Announced, Announces
  <1>3. effects \subseteq Claim \X Use /\ effects' \subseteq Claim \X Use
    BY DEF TypeOK
  <1>4. Recorded'
    BY <1>2, <1>3, StepFrame, ClaimParts DEF Recorded
  <1>5. \A e \in effects' \ effects : e[1] = c
    BY <1>2, StepFrame
  <1>6. ASSUME NEW d \in Claim PROVE Knows(d)'
    <2>1. CASE d # c
      <3>1. ASSUME handler[d].pc # "gone"  PROVE d[1] # c[1]
        BY <2>1, <3>1, StepFrame, ClaimParts DEF Alone, Running
      <3> QED  BY <2>1, <3>1, <1>5, StepFrame DEF Remembered, Knows
    <2>2. CASE d = c
      <3>1. \A e \in effects' : e[1] # c => e \in effects
        BY <1>5
      <3> QED  BY <2>2, <3>1, <1>3, StepMemory DEF Remembered, Knows, Recorded
    <2> QED  BY <2>1, <2>2
  <1>7. ASSUME NEW d \in Claim PROVE Announces(d)'
    <2>1. CASE d # c
      BY <2>1, StepFrame, ClaimParts DEF Announced, Announces, Current
    <2>2. CASE d = c /\ handler'[c].pc = "execute"
      <3>1. PersistToolPending(c) /\ handler'[c].prior = handler[c].prior
        BY <2>2, StepMemory
      <3>2. Current(c)' = Current(c)
        <4>1. handler = [e \in Claim |-> handler[e]] /\ HandlerOK(handler[c])
          BY DEF TypeOK
        <4>2. handler' = [handler EXCEPT ![c].pc = "execute"]
          BY <3>1 DEF PersistToolPending
        <4>3. /\ handler'[c].reply = handler[c].reply
              /\ handler'[c].results = handler[c].results
          BY <4>1, <4>2 DEF HandlerOK
        <4> QED  BY <4>3 DEF Current
      <3>3. Current(c) \in DOMAIN tools'[c[1]]
        BY <3>1, ClaimParts DEF PersistToolPending, Put, TypeOK
      <3>4. Current(c).tool = "once" => Current(c) \notin DOMAIN handler[c].prior
        <4>1. Prior(c) = "none" => Current(c) \notin DOMAIN handler[c].prior
          BY DEF Prior, TypeOK, HandlerOK, Ledger, LedgerStatus, Outcome
        <4> QED  BY <3>1, <4>1 DEF PersistToolPending
      <3> QED  BY <2>2, <3>1, <3>2, <3>3, <3>4 DEF Announces
    <2> QED  BY <2>1, <2>2 DEF Announces
  <1>8. OncePerUse'
    <2>1. CASE UNCHANGED effects
      BY <2>1 DEF OncePerUse
    <2>2. CASE ExecuteTool(c)
      <3>1. ASSUME NEW e \in effects, e[1][1] = c[1], e[2] = Current(c), e[2].tool = "once"
            PROVE  e = <<c, Current(c)>>
        <4>1. e = <<e[1], e[2]>>  BY <1>3
        <4>2. e[1] = c  BY <1>2, <2>2, <3>1 DEF Remembered, Knows
        <4> QED  BY <3>1, <4>1, <4>2
      <3> QED  BY <1>2, <2>2, <3>1 DEF OncePerUse
    <2> QED  BY <2>1, <2>2, StepFrame
  <1> QED  BY <1>1, <1>4, <1>6, <1>7, <1>8 DEF Remembered, Announced

\* A claim, made when no older handler of the job runs, leaves the others alone.
LEMMA StartAlone ==
    ASSUME ~Overlap, TypeOK, Alone, NEW j \in Job, Start(j)
    PROVE  LET c == <<j, job[j].claims + 1>>
           IN  /\ Alone' /\ c \in Claim /\ handler[c].pc = "gone"
               /\ handler'[c] = [handler[c] EXCEPT !.pc = "messages"]
               /\ \A d \in Claim \ {c} : handler'[d] = handler[d]
  <1> DEFINE n == job[j].claims + 1
             c == <<j, n>>
  <1>1. /\ c \in Claim /\ n \in Nat /\ job[j].claims \in Nat
        /\ handler = [d \in Claim |-> handler[d]] /\ HandlerOK(handler[c])
        /\ job \in [Job -> [status : {"waiting", "active", "ended"},
                            claims : 0..MaxClaims, attempts : Nat]]
    BY LoopAssumption DEF TypeOK, Start, Claim
  <1>2. /\ job' = [job EXCEPT ![j].status = "active", ![j].claims = n]
        /\ handler' = [handler EXCEPT ![c].pc = "messages"]
    BY DEF Start
  <1>3. /\ handler'[c] = [handler[c] EXCEPT !.pc = "messages"]
        /\ \A d \in Claim \ {c} : handler'[d] = handler[d]
    BY <1>1, <1>2
  <1>4. \A i \in Job : job'[i].claims = IF i = j THEN n ELSE job[i].claims
    BY <1>1, <1>2
  <1>5. Alone'
    <2> SUFFICES ASSUME NEW d \in Claim, handler'[d].pc # "gone"
                 PROVE  d[2] = job'[d[1]].claims
      BY DEF Alone, Running
    <2>1. CASE d = c  BY <2>1, <1>4
    <2>2. CASE d # c /\ d[1] # j
      BY <2>2, <1>3, <1>4, ClaimParts DEF Alone, Running
    <2>3. CASE d # c /\ d[1] = j
      <3>1. d[2] = job[j].claims /\ d = <<j, d[2]>> /\ Running(d) /\ d[2] \in 1..MaxClaims
        BY <2>3, <1>3, ClaimParts DEF Alone, Running
      <3>2. \A m \in 1..job[j].claims : ~Running(<<j, m>>)
        BY DEF Start
      <3> QED  BY <3>1, <3>2, <1>1
    <2> QED  BY <2>1, <2>2, <2>3
  <1>6. handler[c].pc = "gone"
    BY <1>1, ClaimParts DEF Alone, Running
  <1> QED  BY <1>1, <1>3, <1>5, <1>6

\* It keeps the invariant about claims and ledgers, too.
LEMMA OnceStart ==
    ASSUME ~Overlap, OnceInv, NEW j \in Job, Start(j)
    PROVE  Alone' /\ Recorded' /\ Remembered' /\ Announced' /\ OncePerUse'
  <1> DEFINE c == <<j, job[j].claims + 1>>
  <1>1. /\ Alone' /\ c \in Claim
        /\ handler'[c] = [handler[c] EXCEPT !.pc = "messages"]
        /\ \A d \in Claim \ {c} : handler'[d] = handler[d]
    BY StartAlone DEF OnceInv
  <1>2. HandlerOK(handler[c]) /\ handler'[c].pc = "messages"
    BY <1>1 DEF OnceInv, TypeOK, HandlerOK
  <1>3. UNCHANGED <<tools, effects>>  BY DEF Start
  <1> HIDE DEF c
  <1> QED  BY <1>1, <1>2, <1>3
           DEF OnceInv, Recorded, OncePerUse, Remembered, Knows, Announced, Announces,
               Current

\* For any number of jobs, claims, turns and any answers: if a job is claimed
\* only once its old handler is gone, a tool that must not run twice is run for
\* each tool use by at most one claim.
THEOREM OncePerUseHolds ==
    ASSUME ~Overlap
    PROVE  Spec => []OncePerUse
  <1>1. Init => OnceInv
    <2> SUFFICES ASSUME Init PROVE OnceInv  OBVIOUS
    <2>1. \A c \in Claim : handler[c].pc = "gone"  BY DEF Init, Idle
    <2>2. effects = {}  BY DEF Init
    <2> QED  BY <2>1, <2>2, TypeInit DEF OnceInv, Alone, Running, Recorded, Remembered,
             Knows, Announced, Announces, OncePerUse
  <1>2. OnceInv /\ [Next]_vars => OnceInv'
    <2> SUFFICES ASSUME OnceInv, [Next]_vars PROVE OnceInv'  OBVIOUS
    <2>1. TypeOK'  BY TypeStep DEF OnceInv
    <2>2. ASSUME NEW c \in Claim, HandlerStep(c)  PROVE OnceInv'
      BY <2>1, <2>2, OnceHandlerStep DEF OnceInv
    <2>3. ASSUME NEW j \in Job, Start(j)  PROVE OnceInv'
      BY <2>1, <2>3, OnceStart DEF OnceInv
    <2>4. ASSUME UNCHANGED <<tools, handler, effects>>,
                 \A j \in Job : job'[j].claims = job[j].claims
          PROVE  OnceInv'
      BY <2>1, <2>4, ClaimParts
         DEF OnceInv, Alone, Running, Recorded, Remembered, Knows, Announced, Announces,
             Current, OncePerUse
    <2>5. ASSUME NEW j \in Job, TakenAway(j)  PROVE OnceInv'
      <3>1. \A i \in Job : job'[i].claims = job[i].claims
        BY <2>5 DEF TakenAway, OnceInv, TypeOK
      <3> QED  BY <2>4, <2>5, <3>1 DEF TakenAway
    <2>6. ASSUME (\E l \in Lease : Expire(l)) \/ UNCHANGED vars  PROVE OnceInv'
      BY <2>4, <2>6 DEF Expire, vars
    <2> QED  BY <2>2, <2>3, <2>5, <2>6 DEF Next
  <1>3. OnceInv => OncePerUse  BY DEF OnceInv
  <1> QED  BY <1>1, <1>2, <1>3, PTL DEF Spec

(***************************************************************************)
(* A conversation that can be sent again                                   *)
(***************************************************************************)
\* A handler that has loaded the messages has all of them.
Synced(c) == handler[c].pc \notin {"gone", "messages"} => handler[c].conv = messages[c[1]]

ToolPC == {"dispatch", "execute"} \cup Outcome

\* Tool uses are dealt with when they end the conversation, in their order; a
\* turn begins when nothing is left open.
Answering(c) ==
    LET h == handler[c]
    IN  /\ h.pc \in ToolPC =>
             /\ h.conv # <<>> /\ Final(h.conv).uses = h.reply
             /\ Len(h.results) <= Len(h.reply)
             /\ \A k \in 1..Len(h.results) : h.results[k].use = h.reply[k]
        /\ h.pc \notin ToolPC => h.results = <<>>
        /\ h.pc \in {"turn", "call", "answered"} =>
             h.conv # <<>> /\ Final(h.conv).uses = <<>>
        /\ h.pc = "seed" => h.conv = <<>>

ConvInv == /\ TypeOK /\ Alone /\ ToolsAnswered
           /\ \A c \in Claim : Synced(c) /\ Answering(c)

\* A message that answers what is open extends a good conversation to another.
LEMMA Extends ==
    ASSUME NEW conv \in Seq(Message), NEW m \in Message, Sendable(conv),
           conv # <<>> => Final(conv).uses = UsesOf(m.results)
    PROVE  /\ Append(conv, m) # <<>> /\ Final(Append(conv, m)) = m
           /\ Sendable(Append(conv, m))
  <1> DEFINE more == Append(conv, m)
  <1>1. /\ Len(more) = Len(conv) + 1 /\ Len(conv) \in Nat
        /\ more[Len(conv) + 1] = m /\ \A i \in 1..Len(conv) : more[i] = conv[i]
    OBVIOUS
  <1>2. more # <<>> /\ Final(more) = m
    BY <1>1 DEF Final
  <1>3. ASSUME NEW i \in 1..(Len(more) - 1)
        PROVE  more[i].uses = UsesOf(more[i + 1].results)
    <2>1. CASE i = Len(conv)
      <3>1. conv # <<>>  BY <2>1, <1>3, <1>1
      <3>2. more[i] = Final(conv) /\ more[i + 1] = m
        BY <2>1, <1>1, <1>3 DEF Final
      <3> QED  BY <3>1, <3>2
    <2>2. CASE i # Len(conv)
      <3>1. i \in 1..(Len(conv) - 1) /\ more[i] = conv[i] /\ more[i + 1] = conv[i + 1]
        BY <2>2, <1>1, <1>3
      <3> QED  BY <3>1 DEF Sendable
    <2> QED  BY <2>1, <2>2
  <1> QED  BY <1>2, <1>3 DEF Sendable

\* The handler that writes a message has the whole conversation, so the row is
\* inserted and continues it.
LEMMA PersistExtends ==
    ASSUME ConvInv, NEW c \in Claim, handler[c].pc \notin {"gone", "messages"},
           NEW m \in Message, PersistMessage(c, m),
           handler[c].conv # <<>> => Final(handler[c].conv).uses = UsesOf(m.results)
    PROVE  /\ messages'[c[1]] = Append(handler[c].conv, m)
           /\ Final(messages'[c[1]]) = m /\ messages'[c[1]] # <<>>
           /\ \A j \in Job \ {c[1]} : messages'[j] = messages[j]
           /\ ToolsAnswered'
  <1>0. /\ c[1] \in Job /\ messages \in [Job -> Seq(Message)]
        /\ handler[c].conv = messages[c[1]]
        /\ messages[c[1]] \in Seq(Message) /\ Sendable(messages[c[1]])
    BY ClaimParts DEF ConvInv, TypeOK, Synced, ToolsAnswered
  <1> DEFINE more == Append(messages[c[1]], m)
  <1>1. messages' = [messages EXCEPT ![c[1]] = more]
    BY <1>0 DEF PersistMessage
  <1>2. more # <<>> /\ Final(more) = m /\ Sendable(more)
    BY <1>0, Extends
  <1>3. /\ messages'[c[1]] = more
        /\ \A j \in Job \ {c[1]} : messages'[j] = messages[j]
    BY <1>0, <1>1
  <1>4. ToolsAnswered'
    <2>1. \A j \in Job : Sendable(messages'[j])
      <3> HIDE DEF more
      <3> QED  BY <1>2, <1>3 DEF ConvInv, ToolsAnswered
    <2> QED  BY <2>1 DEF ToolsAnswered
  <1> QED  BY <1>0, <1>2, <1>3, <1>4

\* What a step must leave of the job's conversation and of the handler.
Continues(c) == /\ Synced(c)' /\ Answering(c)' /\ ToolsAnswered'
                /\ \A j \in Job \ {c[1]} : messages'[j] = messages[j]

LEMMA ReplayContinues ==
    ASSUME ConvInv, NEW c \in Claim,
           LoadPriorMessages(c) \/ LoadPriorTools(c) \/ PersistPrompt(c)
    PROVE  Continues(c)
  <1> DEFINE h == handler[c]
  <1>0. /\ handler = [d \in Claim |-> handler[d]] /\ HandlerOK(h) /\ c[1] \in Job
        /\ Synced(c) /\ Answering(c) /\ ToolsAnswered
    BY ClaimParts DEF ConvInv, TypeOK
  <1>1. CASE LoadPriorMessages(c)
    <2>1. handler'[c].conv = messages[c[1]] /\ handler'[c].results = <<>>
          /\ handler'[c].pc = "tools" /\ UNCHANGED messages
      BY <1>0, <1>1 DEF LoadPriorMessages, HandlerOK, Answering, ToolPC, Outcome
    <2> QED  BY <1>0, <2>1 DEF Continues, Synced, Answering, ToolPC, Outcome, ToolsAnswered
  <1>2. CASE LoadPriorTools(c)
    <2>1. /\ handler'[c].conv = h.conv /\ handler'[c].results = <<>>
          /\ handler'[c].reply = IF h.conv = <<>> THEN <<>> ELSE Final(h.conv).uses
          /\ handler'[c].pc = IF h.conv = <<>> THEN "seed"
                ELSE IF Final(h.conv).uses = <<>> THEN "turn" ELSE "dispatch"
          /\ UNCHANGED messages
      BY <1>0, <1>2 DEF LoadPriorTools, HandlerOK, Answering, ToolPC, Outcome
    <2>2. Synced(c)' /\ ToolsAnswered'
      BY <1>0, <1>2, <2>1 DEF Synced, ToolsAnswered, LoadPriorTools
    <2>3. Len(handler'[c].results) = 0  BY <2>1
    <2>4. CASE h.conv = <<>> \/ Final(h.conv).uses = <<>>
      BY <2>1, <2>2, <2>4 DEF Continues, Answering, ToolPC, Outcome
    <2>5. CASE h.conv # <<>> /\ Final(h.conv).uses # <<>>
      <3>1. h.conv \in Seq(Message) /\ Len(h.conv) \in 1..Len(h.conv)
        BY <1>0, <2>5 DEF HandlerOK
      <3>2. Final(h.conv).uses \in Seq(Use)
        <4>1. Final(h.conv) \in Message  BY <3>1 DEF Final
        <4> QED  BY <4>1 DEF Message
      <3>3. Len(handler'[c].results) <= Len(handler'[c].reply)
        BY <2>1, <2>3, <2>5, <3>2
      <3> QED  BY <2>1, <2>2, <2>3, <2>5, <3>3 DEF Continues, Answering, ToolPC, Outcome
    <2> QED  BY <2>4, <2>5
  <1>3. CASE PersistPrompt(c)
    <2>1. /\ handler'[c].conv = <<User(<<>>)>> /\ handler'[c].results = <<>>
          /\ handler'[c].pc = "turn" /\ h.conv = <<>>
          /\ h.pc \notin {"gone", "messages"}
      BY <1>0, <1>3 DEF PersistPrompt, HandlerOK, Answering, ToolPC, Outcome
    <2>2. User(<<>>) \in Message
      <3>1. <<>> \in Seq(Result)  OBVIOUS
      <3> QED  BY <3>1, MessageTypes
    <2>3. PersistMessage(c, User(<<>>))  BY <1>3 DEF PersistPrompt
    <2>4. /\ messages'[c[1]] = Append(h.conv, User(<<>>))
          /\ Final(messages'[c[1]]) = User(<<>>) /\ messages'[c[1]] # <<>>
          /\ \A j \in Job \ {c[1]} : messages'[j] = messages[j]
          /\ ToolsAnswered'
      BY <2>1, <2>2, <2>3, PersistExtends
    <2>5. Append(<<>>, User(<<>>)) = <<User(<<>>)>>  OBVIOUS
    <2> QED  BY <2>1, <2>4, <2>5 DEF Continues, Synced, Answering, ToolPC, Outcome, User
  <1> QED  BY <1>1, <1>2, <1>3

LEMMA TurnContinues ==
    ASSUME ConvInv, NEW c \in Claim,
           \/ StopAtMaxTurns(c) \/ CallModel(c) \/ Answer(c) \/ PersistReply(c)
    PROVE  Continues(c)
  <1> DEFINE h == handler[c]
  <1>0. /\ handler = [d \in Claim |-> handler[d]] /\ HandlerOK(h) /\ c[1] \in Job
        /\ Synced(c) /\ Answering(c) /\ ToolsAnswered
        /\ h.conv \in Seq(Message) /\ h.reply \in Seq(Use)
    BY ClaimParts DEF ConvInv, TypeOK, HandlerOK
  <1>1. CASE StopAtMaxTurns(c) \/ CallModel(c)
    <2>1. /\ handler'[c].conv = h.conv /\ handler'[c].results = <<>> /\ h.pc = "turn"
          /\ handler'[c].pc \in {"done", "call"} /\ UNCHANGED messages
      BY <1>0, <1>1 DEF StopAtMaxTurns, CallModel, AtTurn, HandlerOK, Answering, ToolPC,
         Outcome
    <2> QED  BY <1>0, <2>1 DEF Continues, Synced, Answering, ToolPC, Outcome, ToolsAnswered
  <1>2. CASE Answer(c)
    <2>1. PICK reply : handler' = [handler EXCEPT ![c].pc = "answered", ![c].reply = reply]
      BY <1>2 DEF Answer
    <2>2. h.pc = "call" /\ UNCHANGED messages  BY <1>2 DEF Answer
    <2>3. /\ handler'[c].conv = h.conv /\ handler'[c].results = <<>>
          /\ handler'[c].pc = "answered"
      BY <1>0, <2>1, <2>2 DEF HandlerOK, Answering, ToolPC, Outcome
    <2> QED  BY <1>0, <2>2, <2>3
             DEF Continues, Synced, Answering, ToolPC, Outcome, ToolsAnswered
  <1>3. CASE PersistReply(c)
    <2> DEFINE m == Assistant(h.reply)
    <2>1. /\ handler'[c].conv = Append(h.conv, m) /\ handler'[c].results = <<>>
          /\ handler'[c].pc = IF h.reply = <<>> THEN "done" ELSE "dispatch"
          /\ handler'[c].reply = h.reply
          /\ h.pc = "answered" /\ PersistMessage(c, m)
      BY <1>0, <1>3 DEF PersistReply, HandlerOK, Answering, ToolPC, Outcome
    <2>2. m \in Message /\ m.uses = h.reply /\ m.results = <<>>
      BY <1>0, MessageTypes DEF Assistant
    <2>3. Final(h.conv).uses = UsesOf(m.results)
      <3>1. UsesOf(<<>>) = <<>>  BY DEF UsesOf
      <3> QED  BY <1>0, <2>1, <2>2, <3>1 DEF Answering
    <2>4. /\ messages'[c[1]] = Append(h.conv, m)
          /\ Final(messages'[c[1]]) = m /\ messages'[c[1]] # <<>>
          /\ \A j \in Job \ {c[1]} : messages'[j] = messages[j]
          /\ ToolsAnswered'
      <3> HIDE DEF m
      <3> QED  BY <2>1, <2>2, <2>3, PersistExtends
    <2>5. Len(<<>>) <= Len(h.reply)  BY <1>0
    <2> HIDE DEF m
    <2> QED  BY <2>1, <2>2, <2>4, <2>5 DEF Continues, Synced, Answering, ToolPC, Outcome
  <1> QED  BY <1>1, <1>2, <1>3

\* The uses behind a sequence of results.
LEMMA UsesOfType ==
    ASSUME NEW r \in Seq(Result)
    PROVE  /\ UsesOf(r) \in Seq(Use) /\ Len(UsesOf(r)) = Len(r)
           /\ \A k \in 1..Len(r) : UsesOf(r)[k] = r[k].use
  <1>1. DOMAIN r = 1..Len(r) /\ Len(r) \in Nat  OBVIOUS
  <1>2. \A k \in 1..Len(r) : r[k].use \in Use
    <2>1. \A k \in 1..Len(r) : r[k] \in Result  OBVIOUS
    <2> QED  BY <2>1 DEF Result
  <1> QED  BY <1>1, <1>2 DEF UsesOf

LEMMA ToolsContinue ==
    ASSUME ConvInv, NEW c \in Claim,
           \/ UnknownTool(c) \/ TrustPrior(c) \/ PersistToolPending(c)
           \/ ExecuteTool(c) \/ PersistToolOutcome(c) \/ PersistResults(c)
    PROVE  Continues(c)
  <1> DEFINE h == handler[c]
  <1>0. /\ handler = [d \in Claim |-> handler[d]] /\ HandlerOK(h) /\ c[1] \in Job
        /\ Synced(c) /\ Answering(c) /\ ToolsAnswered
        /\ h.conv \in Seq(Message) /\ h.reply \in Seq(Use) /\ h.results \in Seq(Result)
    BY ClaimParts DEF ConvInv, TypeOK, HandlerOK
  <1>1. ASSUME NEW o, AddResult(c, o), UNCHANGED messages, h.pc \in ToolPC,
               Len(h.results) < Len(h.reply)
        PROVE  Continues(c)
    <2> DEFINE r == [use |-> Current(c), outcome |-> o]
    <2>1. /\ handler'[c].conv = h.conv /\ handler'[c].reply = h.reply
          /\ handler'[c].pc = "dispatch" /\ handler'[c].results = Append(h.results, r)
      BY <1>0, <1>1 DEF AddResult, HandlerOK
    <2>2. /\ Len(Append(h.results, r)) = Len(h.results) + 1
          /\ Append(h.results, r)[Len(h.results) + 1] = r
          /\ \A k \in 1..Len(h.results) : Append(h.results, r)[k] = h.results[k]
      BY <1>0
    <2>3. r.use = h.reply[Len(h.results) + 1]  BY DEF Current
    <2>4. /\ h.conv # <<>> /\ Final(h.conv).uses = h.reply
          /\ \A k \in 1..Len(h.results) : h.results[k].use = h.reply[k]
      BY <1>0, <1>1 DEF Answering
    <2>5. \A k \in 1..(Len(h.results) + 1) : Append(h.results, r)[k].use = h.reply[k]
      <3> HIDE DEF r
      <3> QED  BY <1>0, <2>2, <2>3, <2>4
    <2>6. Synced(c)' /\ ToolsAnswered'
      BY <1>0, <1>1, <2>1 DEF Synced, ToolsAnswered, ToolPC, Outcome
    <2>7. Len(h.results) + 1 <= Len(h.reply)  BY <1>0, <1>1
    <2> HIDE DEF r
    <2> QED  BY <1>1, <2>1, <2>2, <2>4, <2>5, <2>6, <2>7
             DEF Continues, Answering, ToolPC, Outcome
  <1>2. ASSUME NEW pc \in ToolPC, handler' = [handler EXCEPT ![c].pc = pc],
               UNCHANGED messages, h.pc \in ToolPC
        PROVE  Continues(c)
    <2>1. /\ handler'[c].conv = h.conv /\ handler'[c].reply = h.reply
          /\ handler'[c].pc = pc /\ handler'[c].results = h.results
      BY <1>0, <1>2 DEF HandlerOK
    <2> QED  BY <1>0, <1>2, <2>1
             DEF Continues, Synced, Answering, ToolPC, Outcome, ToolsAnswered
  <1>3. CASE UnknownTool(c) \/ TrustPrior(c)
    BY <1>1, <1>3 DEF UnknownTool, TrustPrior, ToolsLeft, ToolPC
  <1>4. CASE PersistToolOutcome(c)
    <2>1. \E o : AddResult(c, o)  BY <1>4 DEF PersistToolOutcome
    <2>2. h.pc \in Outcome /\ UNCHANGED messages  BY <1>4 DEF PersistToolOutcome
    <2>3. Len(h.results) < Len(h.reply)  BY <1>0, <2>2 DEF HandlerOK
    <2> QED  BY <1>1, <2>1, <2>2, <2>3 DEF ToolPC
  <1>5. CASE PersistToolPending(c)
    BY <1>2, <1>5 DEF PersistToolPending, ToolsLeft, ToolPC
  <1>6. CASE ExecuteTool(c)
    BY <1>2, <1>6 DEF ExecuteTool, ToolPC
  <1>7. CASE PersistResults(c)
    <2> DEFINE m == User(h.results)
    <2>1. /\ handler'[c].conv = Append(h.conv, m) /\ handler'[c].results = <<>>
          /\ handler'[c].pc = "turn" /\ h.pc = "dispatch" /\ PersistMessage(c, m)
      BY <1>0, <1>7 DEF PersistResults, HandlerOK
    <2>2. m \in Message /\ m.uses = <<>> /\ m.results = h.results
      BY <1>0, MessageTypes DEF User
    <2>3. h.reply = UsesOf(h.results)
      <3>1. Len(h.results) = Len(h.reply)
        BY <1>0, <1>7 DEF PersistResults, ToolsLeft, Answering, ToolPC
      <3>2. \A k \in 1..Len(h.results) : h.results[k].use = h.reply[k]
        BY <1>0, <2>1 DEF Answering, ToolPC
      <3>3. /\ UsesOf(h.results) \in Seq(Use) /\ Len(UsesOf(h.results)) = Len(h.results)
            /\ \A k \in 1..Len(h.results) : UsesOf(h.results)[k] = h.results[k].use
        BY <1>0, UsesOfType
      <3>4. ASSUME NEW k \in 1..Len(h.reply)  PROVE h.reply[k] = UsesOf(h.results)[k]
        BY <3>1, <3>2, <3>3
      <3>5. h.reply \in Seq(Use)  BY <1>0
      <3>6. Len(h.reply) = Len(UsesOf(h.results))  BY <3>1, <3>3
      <3> HIDE DEF h
      <3> QED  BY <3>3, <3>4, <3>5, <3>6, SeqEqual
    <2>4. Final(h.conv).uses = h.reply
      BY <1>0, <2>1 DEF Answering, ToolPC
    <2>5. /\ messages'[c[1]] = Append(h.conv, m)
          /\ Final(messages'[c[1]]) = m /\ messages'[c[1]] # <<>>
          /\ \A j \in Job \ {c[1]} : messages'[j] = messages[j]
          /\ ToolsAnswered'
      <3> HIDE DEF m
      <3> QED  BY <2>1, <2>2, <2>3, <2>4, PersistExtends
    <2> HIDE DEF m
    <2> QED  BY <2>1, <2>2, <2>5 DEF Continues, Synced, Answering, ToolPC, Outcome
  <1> QED  BY <1>3, <1>4, <1>5, <1>6, <1>7

\* A handler that ends leaves the tables alone.
LEMMA GoneContinues ==
    ASSUME ConvInv, NEW c \in Claim, Gone(c), UNCHANGED messages
    PROVE  Continues(c)
  <1>1. handler'[c].pc = "gone" /\ handler'[c].results = <<>>
    BY DEF ConvInv, TypeOK, Gone, Idle
  <1> QED  BY <1>1 DEF ConvInv, Continues, Synced, Answering, ToolPC, Outcome, ToolsAnswered

\* One handler's step keeps every conversation whole.
LEMMA ConvHandlerStep ==
    ASSUME ConvInv, TypeOK', NEW c \in Claim, HandlerStep(c)
    PROVE  ConvInv'
  <1>0. TypeOK /\ Alone /\ \A d \in Claim : Synced(d) /\ Answering(d)  BY DEF ConvInv
  <1>1. Continues(c)
    <2>1. ASSUME \/ RefusedLease(c) \/ CallFails(c) \/ RefuseRerun(c) \/ Complete(c)
                 \/ Fails(c) \/ Crash(c)
          PROVE  Gone(c) /\ UNCHANGED messages
      BY <2>1 DEF RefusedLease, CallFails, RefuseRerun, Complete, Fails, Crash, Throw
    <2> QED  BY <2>1, ReplayContinues, TurnContinues, ToolsContinue, GoneContinues
             DEF HandlerStep
  <1>2. Alone'
    BY <1>0, StepFrame, ClaimParts DEF Alone, Running
  <1>3. ASSUME NEW d \in Claim \ {c}  PROVE Synced(d)' /\ Answering(d)'
    <2>1. handler'[d] = handler[d]  BY <1>0, StepFrame
    <2>2. ASSUME handler[d].pc # "gone"  PROVE d[1] # c[1]
      BY <1>0, <2>2, StepFrame, ClaimParts DEF Alone, Running
    <2>3. Synced(d)'
      BY <1>0, <1>1, <2>1, <2>2, ClaimParts DEF Synced, Continues
    <2> QED  BY <1>0, <2>1, <2>3 DEF Answering
  <1> QED  BY <1>1, <1>2, <1>3 DEF ConvInv, Continues

LEMMA ConvInit == Init => ConvInv
  <1> SUFFICES ASSUME Init PROVE ConvInv  OBVIOUS
  <1>1. \A c \in Claim : handler[c].pc = "gone" /\ handler[c].results = <<>>
    BY DEF Init, Idle
  <1>2. \A j \in Job : Sendable(messages[j])  BY DEF Init, Sendable
  <1> QED  BY <1>1, <1>2, TypeInit
           DEF ConvInv, Alone, Running, Synced, Answering, ToolPC, Outcome, ToolsAnswered

LEMMA ConvStep == ASSUME ~Overlap PROVE ConvInv /\ [Next]_vars => ConvInv'
  <1> SUFFICES ASSUME ConvInv, [Next]_vars PROVE ConvInv'  OBVIOUS
  <1>1. TypeOK'  BY TypeStep DEF ConvInv
  <1>2. ASSUME NEW c \in Claim, HandlerStep(c)  PROVE ConvInv'
    BY <1>1, <1>2, ConvHandlerStep
  <1>3. ASSUME NEW j \in Job, Start(j)  PROVE ConvInv'
    <2>1. PICK c \in Claim :
             /\ Alone' /\ handler[c].pc = "gone"
             /\ handler'[c] = [handler[c] EXCEPT !.pc = "messages"]
             /\ \A d \in Claim \ {c} : handler'[d] = handler[d]
      BY <1>3, StartAlone DEF ConvInv
    <2>2. HandlerOK(handler[c]) /\ Answering(c) /\ UNCHANGED messages
      BY <1>3, <2>1 DEF ConvInv, TypeOK, Start
    <2>3. handler'[c].pc = "messages" /\ handler'[c].results = <<>>
      BY <2>1, <2>2 DEF HandlerOK, Answering, ToolPC, Outcome
    <2>4. Synced(c)' /\ Answering(c)'
      BY <2>3 DEF Synced, Answering, ToolPC, Outcome
    <2>5. ASSUME NEW d \in Claim \ {c}  PROVE Synced(d)' /\ Answering(d)'
      <3>1. handler'[d] = handler[d] /\ messages' = messages  BY <2>1, <2>2
      <3> QED  BY <3>1 DEF ConvInv, Synced, Answering
    <2>6. ToolsAnswered'  BY <2>2 DEF ConvInv, ToolsAnswered
    <2> QED  BY <1>1, <2>1, <2>4, <2>5, <2>6 DEF ConvInv
  <1>4. ASSUME UNCHANGED <<messages, handler>>,
               \A j \in Job : job'[j].claims = job[j].claims
        PROVE  ConvInv'
    BY <1>1, <1>4, ClaimParts
       DEF ConvInv, Alone, Running, Synced, Answering, ToolsAnswered
  <1>5. ASSUME NEW j \in Job, TakenAway(j)  PROVE ConvInv'
    <2>1. \A i \in Job : job'[i].claims = job[i].claims
      BY <1>5 DEF TakenAway, ConvInv, TypeOK
    <2> QED  BY <1>4, <1>5, <2>1 DEF TakenAway
  <1>6. ASSUME (\E l \in Lease : Expire(l)) \/ UNCHANGED vars  PROVE ConvInv'
    BY <1>4, <1>6 DEF Expire, vars
  <1> QED  BY <1>2, <1>3, <1>5, <1>6 DEF Next

\* For any number of jobs, claims, turns and any answers: if a job is claimed
\* only once its old handler is gone, the stored conversation can always be sent
\* again (subagent.ts:217-220).
THEOREM ConversationHolds ==
    ASSUME ~Overlap
    PROVE  Spec => []ToolsAnswered
  <1>1. ConvInv => ToolsAnswered  BY DEF ConvInv
  <1> QED  BY <1>1, ConvInit, ConvStep, PTL DEF Spec

\* Under the same hypothesis the model is called with exactly what is stored, so that
\* the claim that resumes the job sends it the same words.
THEOREM CallSeesTablesHolds ==
    ASSUME ~Overlap
    PROVE  Spec => []CallSeesTables
  <1>1. ConvInv => CallSeesTables  BY DEF ConvInv, Synced, CallSeesTables
  <1> QED  BY <1>1, ConvInit, ConvStep, PTL DEF Spec

(***************************************************************************)
(* max_turns                                                               *)
(***************************************************************************)
\* A call is made, and its answer stored, with turns to spare.
ToSpare(c) == handler[c].pc \in {"call", "answered"} => Turns(handler[c].conv) < MaxTurns

TurnsInv == ConvInv /\ TurnsBounded /\ \A c \in Claim : ToSpare(c)

LEMMA TurnsType == ASSUME NEW conv \in Seq(Message)
                   PROVE  /\ Turns(conv) \in Nat
                          /\ IsFiniteSet({i \in DOMAIN conv : conv[i].role = "assistant"})
  <1> DEFINE turns == {i \in DOMAIN conv : conv[i].role = "assistant"}
  <1>1. DOMAIN conv = 1..Len(conv) /\ Len(conv) \in Nat  OBVIOUS
  <1>2. IsFiniteSet(1..Len(conv))  BY <1>1, FS_Interval
  <1>3. IsFiniteSet(turns)         BY <1>1, <1>2, FS_Subset
  <1>4. Cardinality(turns) \in Nat  BY <1>3, FS_CardinalityType
  <1> QED  BY <1>3, <1>4 DEF Turns

LEMMA TurnsEmpty == Turns(<<>>) = 0
  <1>1. {i \in DOMAIN <<>> : <<>>[i].role = "assistant"} = {}  OBVIOUS
  <1> QED  BY <1>1, FS_EmptySet DEF Turns

\* A message adds a turn if the model said it.
LEMMA TurnsAppend ==
    ASSUME NEW conv \in Seq(Message), NEW m \in Message
    PROVE  Turns(Append(conv, m)) = Turns(conv) + (IF m.role = "assistant" THEN 1 ELSE 0)
  <1> DEFINE more == Append(conv, m)
             n == Len(conv) + 1
             turns == {i \in DOMAIN conv : conv[i].role = "assistant"}
             then == {i \in DOMAIN more : more[i].role = "assistant"}
  <1>1. /\ DOMAIN conv = 1..Len(conv) /\ Len(conv) \in Nat
        /\ DOMAIN more = 1..n /\ more[n] = m /\ \A i \in 1..Len(conv) : more[i] = conv[i]
    OBVIOUS
  <1>2. n \notin turns /\ n \in DOMAIN more /\ \A i \in DOMAIN more : i = n \/ i \in DOMAIN conv
    BY <1>1
  <1>3. IsFiniteSet(turns) /\ Turns(conv) \in Nat /\ Turns(conv) = Cardinality(turns)
    BY TurnsType DEF Turns
  <1>4. Turns(more) = Cardinality(then)  BY DEF Turns
  <1>5. CASE m.role = "assistant"
    <2>1. then = turns \cup {n}  BY <1>1, <1>2, <1>5
    <2>2. Cardinality(turns \cup {n}) = Cardinality(turns) + 1
      <3> HIDE DEF turns, n
      <3> QED  BY <1>2, <1>3, FS_AddElement
    <2> QED  BY <1>3, <1>4, <1>5, <2>1, <2>2
  <1>6. CASE m.role # "assistant"
    <2>1. then = turns  BY <1>1, <1>2, <1>6
    <2>2. Turns(more) = Turns(conv)  BY <1>3, <1>4, <2>1
    <2> QED  BY <1>3, <1>6, <2>2
  <1> QED  BY <1>5, <1>6

\* What a step of a handler adds to the conversation of its job: nothing, or what it writes
\* after all that the table has.
LEMMA Written ==
    ASSUME ConvInv, NEW c \in Claim, HandlerStep(c)
    PROVE  \/ /\ messages'[c[1]] = messages[c[1]]
              /\ ~PersistPrompt(c) /\ ~PersistReply(c) /\ ~PersistResults(c)
           \/ /\ handler[c].conv = messages[c[1]] /\ handler[c].conv \in Seq(Message)
              /\ \E m \in Message :
                   /\ messages'[c[1]] = Append(handler[c].conv, m)
                   /\ \/ PersistPrompt(c) /\ m = User(<<>>) /\ handler[c].conv = <<>>
                      \/ /\ PersistReply(c) /\ m = Assistant(handler[c].reply)
                         /\ handler[c].pc = "answered" /\ handler[c].conv # <<>>
                      \/ /\ PersistResults(c) /\ m = User(handler[c].results) /\ handler[c].pc = "dispatch"
                         /\ handler[c].conv # <<>>
  <1> DEFINE h == handler[c]
  <1>0. /\ c[1] \in Job /\ messages \in [Job -> Seq(Message)] /\ Synced(c) /\ Answering(c)
        /\ h.conv \in Seq(Message) /\ h.reply \in Seq(Use) /\ h.results \in Seq(Result)
    BY ClaimParts DEF ConvInv, TypeOK, HandlerOK
  <1>1. ASSUME NEW m, PersistMessage(c, m), h.conv = messages[c[1]]
        PROVE  messages'[c[1]] = Append(h.conv, m)
    BY <1>0, <1>1 DEF PersistMessage
  <1>2. <<>> \in Seq(Result)  OBVIOUS
  <1>3. CASE PersistPrompt(c)
    <2>1. h.conv = messages[c[1]] /\ h.conv = <<>> /\ PersistMessage(c, User(<<>>))
      BY <1>0, <1>3 DEF PersistPrompt, Synced, Answering
    <2> QED  BY <1>0, <1>1, <1>2, <1>3, <2>1, MessageTypes
  <1>4. CASE PersistReply(c)
    <2>1. h.conv = messages[c[1]] /\ h.pc = "answered" /\ PersistMessage(c, Assistant(h.reply)) /\ h.conv # <<>>
      BY <1>0, <1>4 DEF PersistReply, Synced, Answering
    <2> QED  BY <1>0, <1>1, <1>4, <2>1, MessageTypes
  <1>5. CASE PersistResults(c)
    <2>1. h.conv = messages[c[1]] /\ h.pc = "dispatch" /\ PersistMessage(c, User(h.results)) /\ h.conv # <<>>
      BY <1>0, <1>5 DEF PersistResults, Synced, Answering, ToolPC
    <2> QED  BY <1>0, <1>1, <1>5, <2>1, MessageTypes
  <1>6. CASE ~PersistPrompt(c) /\ ~PersistReply(c) /\ ~PersistResults(c)
    BY <1>6 DEF HandlerStep, LoadPriorMessages, LoadPriorTools, StopAtMaxTurns,
        CallModel, RefusedLease, Answer, CallFails, UnknownTool, TrustPrior,
        RefuseRerun, PersistToolPending, ExecuteTool, PersistToolOutcome, Complete,
        Fails, Crash
  <1> QED  BY <1>3, <1>4, <1>5, <1>6

\* How a handler comes to call and to have an answer.
LEMMA CallSteps ==
    ASSUME TypeOK, NEW c \in Claim, HandlerStep(c), handler'[c].pc \in {"call", "answered"}
    PROVE  handler'[c].conv = handler[c].conv /\ (AtTurn(c) \/ handler[c].pc = "call")
  <1>0. handler = [d \in Claim |-> handler[d]] /\ HandlerOK(handler[c])
    BY DEF TypeOK
  <1>1. CASE CallModel(c)
    BY <1>0, <1>1 DEF CallModel, HandlerOK
  <1>2. CASE Answer(c)
    <2>1. PICK reply : handler' = [handler EXCEPT ![c].pc = "answered", ![c].reply = reply]
      BY <1>2 DEF Answer
    <2> QED  BY <1>0, <1>2, <2>1 DEF Answer, HandlerOK
  <1>3. CASE LoadPriorMessages(c) \/ PersistPrompt(c) \/ StopAtMaxTurns(c) \/ PersistToolPending(c) \/ PersistResults(c)
    BY <1>0, <1>3 DEF LoadPriorMessages, PersistPrompt, StopAtMaxTurns, PersistToolPending, PersistResults, HandlerOK
  <1>6. CASE LoadPriorTools(c)
    BY <1>0, <1>6 DEF LoadPriorTools, HandlerOK
  <1>7. CASE PersistReply(c)
    BY <1>0, <1>7 DEF PersistReply, HandlerOK
  <1>4. CASE UnknownTool(c) \/ TrustPrior(c) \/ PersistToolOutcome(c) \/ ExecuteTool(c)
    BY <1>0, <1>4 DEF UnknownTool, TrustPrior, PersistToolOutcome, ExecuteTool, AddResult, Outcome, HandlerOK
  <1>5. CASE RefusedLease(c) \/ CallFails(c) \/ RefuseRerun(c) \/ Complete(c) \/ Fails(c) \/ Crash(c)
    <2>1. Gone(c)
      BY <1>5 DEF RefusedLease, CallFails, RefuseRerun, Complete, Fails, Crash, Throw
    <2> QED  BY <1>0, <2>1 DEF Gone, Idle
  <1> QED  BY <1>1, <1>2, <1>3, <1>4, <1>5, <1>6, <1>7 DEF HandlerStep

LEMMA TurnsHandlerStep ==
    ASSUME TurnsInv, NEW c \in Claim, HandlerStep(c)
    PROVE  TurnsBounded' /\ \A d \in Claim : ToSpare(d)'
  <1>0. /\ ConvInv /\ TypeOK /\ TurnsBounded /\ c[1] \in Job /\ messages[c[1]] \in Seq(Message) /\ Continues(c)
        /\ handler[c].conv \in Seq(Message)
    <2>1. ASSUME \/ RefusedLease(c) \/ CallFails(c) \/ RefuseRerun(c) \/ Complete(c)
                 \/ Fails(c) \/ Crash(c)
          PROVE  Gone(c) /\ UNCHANGED messages
      BY <2>1 DEF RefusedLease, CallFails, RefuseRerun, Complete, Fails, Crash, Throw
    <2>2. Continues(c)
      BY <2>1, ReplayContinues, TurnContinues, ToolsContinue, GoneContinues DEF HandlerStep, TurnsInv
    <2> QED  BY <2>2, ClaimParts DEF TurnsInv, ConvInv, TypeOK, HandlerOK
  <1>1. Turns(messages'[c[1]]) <= MaxTurns
    <2>1. CASE messages'[c[1]] = messages[c[1]]
      BY <1>0, <2>1 DEF TurnsBounded
    <2>2. ASSUME NEW m \in Message, handler[c].conv = messages[c[1]], messages'[c[1]] = Append(handler[c].conv, m),
                 m.role # "assistant" \/ handler[c].pc = "answered"
          PROVE  Turns(messages'[c[1]]) <= MaxTurns
      <3>1. /\ Turns(messages'[c[1]]) = Turns(messages[c[1]]) + (IF m.role = "assistant" THEN 1 ELSE 0)
            /\ Turns(messages[c[1]]) \in Nat
        BY <1>0, <2>2, TurnsAppend, TurnsType
      <3>2. Turns(messages[c[1]]) <= MaxTurns /\ MaxTurns \in Nat
        BY <1>0, LoopAssumption DEF TurnsBounded
      <3>3. handler[c].pc = "answered" => Turns(messages[c[1]]) < MaxTurns
        BY <2>2 DEF TurnsInv, ToSpare
      <3> QED  BY <2>2, <3>1, <3>2, <3>3
    <2> QED  BY <1>0, <2>1, <2>2, Written DEF User
  <1>2. TurnsBounded'
    BY <1>0, <1>1 DEF TurnsBounded, Continues
  <1>3. ToSpare(c)'
    BY <1>0, CallSteps DEF TurnsInv, ToSpare, AtTurn
  <1>4. \A d \in Claim \ {c} : ToSpare(d)'
    BY <1>0, StepFrame DEF TurnsInv, ToSpare
  <1> QED  BY <1>2, <1>3, <1>4

\* For any max_turns, however the turns are spread over the claims of a job: if a job is claimed
\* only once its old handler is gone, its conversation has no more turns than that.
THEOREM TurnsBoundedHolds ==
    ASSUME ~Overlap
    PROVE  Spec => []TurnsBounded
  <1>1. Init => TurnsInv
    <2> SUFFICES ASSUME Init PROVE TurnsInv  OBVIOUS
    <2>1. TurnsBounded
      <3>1. Turns(<<>>) = 0 /\ 0 <= MaxTurns  BY TurnsEmpty, LoopAssumption
      <3>2. \A j \in Job : messages[j] = <<>>  BY DEF Init
      <3> QED  BY <3>1, <3>2 DEF TurnsBounded
    <2> QED  BY <2>1, ConvInit DEF Init, TurnsInv, ToSpare, Idle
  <1>2. TurnsInv /\ [Next]_vars => TurnsInv'
    <2> SUFFICES ASSUME TurnsInv, [Next]_vars PROVE TurnsInv'  OBVIOUS
    <2>1. ConvInv'  BY ConvStep DEF TurnsInv
    <2>2. ASSUME NEW c \in Claim, HandlerStep(c)  PROVE TurnsInv'
      BY <2>1, <2>2, TurnsHandlerStep DEF TurnsInv
    <2>3. ASSUME NEW j \in Job, Start(j)  PROVE TurnsInv'
      <3>1. PICK c \in Claim :
               /\ handler'[c] = [handler[c] EXCEPT !.pc = "messages"]
               /\ \A d \in Claim \ {c} : handler'[d] = handler[d]
        BY <2>3, StartAlone DEF TurnsInv, ConvInv
      <3>2. HandlerOK(handler[c]) /\ UNCHANGED messages
        BY <2>3, <3>1 DEF TurnsInv, ConvInv, TypeOK, Start
      <3>3. handler'[c].pc = "messages"
        BY <3>1, <3>2 DEF HandlerOK
      <3> QED  BY <2>1, <3>1, <3>2, <3>3 DEF TurnsInv, TurnsBounded, ToSpare
    <2>4. ASSUME UNCHANGED <<messages, handler>>  PROVE TurnsInv'
      BY <2>1, <2>4 DEF TurnsInv, TurnsBounded, ToSpare
    <2> QED  BY <2>2, <2>3, <2>4 DEF Next, TakenAway, Expire, vars
  <1>3. TurnsInv => TurnsBounded  BY DEF TurnsInv
  <1> QED  BY <1>1, <1>2, <1>3, PTL DEF Spec

(***************************************************************************)
(* Results and the ledger                                                  *)
(***************************************************************************)
\* A tool use carries the index of its message; a result follows the message of its use.
Placed(conv) ==
    \A i \in DOMAIN conv :
        /\ \A k \in DOMAIN conv[i].uses : conv[i].uses[k].at = i - 1 /\ conv[i].uses[k].block = k
        /\ \A k \in DOMAIN conv[i].results : conv[i].results[k].use.at = i - 2

Agrees(r, f) == r.use \in DOMAIN f /\ f[r.use] = r.outcome

ConvAgrees(conv, f) == \A i \in DOMAIN conv : \A k \in DOMAIN conv[i].results : Agrees(conv[i].results[k], f)

\* What a handler has in hand is as the ledger has it.
InHand(c) ==
    LET h == handler[c]
        f == tools[c[1]]
    IN  /\ h.pc = "answered" => \A k \in DOMAIN h.reply : h.reply[k].at = Len(h.conv) /\ h.reply[k].block = k
        /\ \A k \in DOMAIN h.results : Agrees(h.results[k], f)
        /\ h.pc \in {"execute"} \cup Outcome => Prior(c) \notin Outcome /\ Current(c).tool # "unknown"
        /\ h.pc \notin {"gone", "messages", "tools"} =>
             \A u \in DOMAIN h.prior : h.prior[u] \in Outcome /\ u.tool # "unknown" =>
                 u \in DOMAIN f /\ f[u] = h.prior[u]

LedgerInv ==
    /\ ConvInv
    /\ \A j \in Job : Placed(messages[j]) /\ ConvAgrees(messages[j], tools[j])
    /\ \A c \in Claim : InHand(c)

\* The use being dealt with has no result yet, neither in the table nor in hand.
LEMMA CurrentIsFresh ==
    ASSUME LedgerInv, NEW c \in Claim, handler[c].pc \in ToolPC, Len(handler[c].results) < Len(handler[c].reply)
    PROVE  /\ \A i \in DOMAIN messages[c[1]] : \A k \in DOMAIN messages[c[1]][i].results :
                messages[c[1]][i].results[k].use # Current(c)
           /\ \A k \in DOMAIN handler[c].results : handler[c].results[k].use # Current(c)
  <1> DEFINE h == handler[c]
             n == Len(h.results) + 1
  <1>1. /\ h.conv = messages[c[1]] /\ h.conv \in Seq(Message) /\ h.conv # <<>> /\ Final(h.conv).uses = h.reply
        /\ \A k \in 1..Len(h.results) : h.results[k].use = h.reply[k]
        /\ h.results \in Seq(Result) /\ h.reply \in Seq(Use) /\ Placed(messages[c[1]])
    BY ClaimParts DEF LedgerInv, ConvInv, TypeOK, HandlerOK, Synced, Answering, ToolPC, Outcome
  <1>2. /\ Len(h.conv) \in 1..Len(h.conv) /\ DOMAIN h.conv = 1..Len(h.conv) /\ DOMAIN h.reply = 1..Len(h.reply)
        /\ DOMAIN h.results = 1..Len(h.results) /\ Len(h.results) \in Nat /\ n \in 1..Len(h.reply)
    BY <1>1
  <1>3. \A k \in 1..Len(h.reply) : h.reply[k].at = Len(h.conv) - 1 /\ h.reply[k].block = k
    <2>1. Placed(h.conv)  BY <1>1
    <2>2. Final(h.conv) = h.conv[Len(h.conv)]  BY DEF Final
    <2> HIDE DEF h
    <2>3. h.conv[Len(h.conv)].uses = h.reply  BY <1>1, <2>2
    <2>4. \A k \in DOMAIN h.conv[Len(h.conv)].uses :
            h.conv[Len(h.conv)].uses[k].at = Len(h.conv) - 1 /\ h.conv[Len(h.conv)].uses[k].block = k
      BY <1>2, <2>1 DEF Placed
    <2> QED  BY <1>2, <2>3, <2>4
  <1>4. Current(c) = h.reply[n] /\ Current(c).at = Len(h.conv) - 1 /\ Current(c).block = n
    BY <1>2, <1>3 DEF Current
  <1>5. ASSUME NEW i \in DOMAIN h.conv, NEW k \in DOMAIN h.conv[i].results
        PROVE  h.conv[i].results[k].use # Current(c)
    <2>1. h.conv[i].results[k].use.at = i - 2  BY <1>1 DEF Placed
    <2>2. i \in 1..Len(h.conv)  BY <1>2
    <2>3. i - 2 # Len(h.conv) - 1  BY <1>2, <2>2
    <2>4. \A u : u = Current(c) => u.at = Len(h.conv) - 1  BY <1>4
    <2> HIDE DEF h
    <2> QED  BY <2>1, <2>3, <2>4
  <1>6. ASSUME NEW k \in DOMAIN h.results  PROVE h.results[k].use # Current(c)
    <2>1. h.results[k].use.block = k /\ k < n  BY <1>1, <1>2, <1>3
    <2> QED  BY <1>4, <2>1, <1>2
  <1> QED  BY <1>1, <1>5, <1>6

\* A row of the ledger that no result is about may change.
LEMMA AgreesPut ==
    ASSUME NEW f, NEW u, NEW s, NEW r, Agrees(r, f), r.use # u
    PROVE  Agrees(r, Put(f, u, s))
  BY DEF Agrees, Put

LEMMA PutAgrees ==
    ASSUME NEW f, NEW u, NEW s
    PROVE  Agrees([use |-> u, outcome |-> s], Put(f, u, s))
  BY DEF Agrees, Put

\* What a message adds to a conversation that agrees.
LEMMA AgreesAppend ==
    ASSUME NEW conv \in Seq(Message), NEW m \in Message, NEW f, Placed(conv), ConvAgrees(conv, f),
           \A k \in DOMAIN m.uses : m.uses[k].at = Len(conv) /\ m.uses[k].block = k,
           \A k \in DOMAIN m.results : m.results[k].use.at = Len(conv) - 1 /\ Agrees(m.results[k], f)
    PROVE  Placed(Append(conv, m)) /\ ConvAgrees(Append(conv, m), f)
  <1> DEFINE more == Append(conv, m)
             n == Len(conv) + 1
  <1>1. /\ DOMAIN conv = 1..Len(conv) /\ Len(conv) \in Nat
        /\ DOMAIN more = 1..n /\ more[n] = m /\ \A i \in 1..Len(conv) : more[i] = conv[i]
    OBVIOUS
  <1> HIDE DEF more
  <1>2. ASSUME NEW i \in DOMAIN more
        PROVE  /\ \A k \in DOMAIN more[i].uses : more[i].uses[k].at = i - 1 /\ more[i].uses[k].block = k
               /\ \A k \in DOMAIN more[i].results : more[i].results[k].use.at = i - 2 /\ Agrees(more[i].results[k], f)
    <2>1. CASE i = n
      BY <1>1, <2>1
    <2>2. CASE i # n
      <3>1. i \in DOMAIN conv /\ more[i] = conv[i]  BY <1>1, <2>2
      <3> QED  BY <3>1 DEF Placed, ConvAgrees
    <2> QED  BY <2>1, <2>2
  <1>3. Placed(more) /\ ConvAgrees(more, f)
    BY <1>2 DEF Placed, ConvAgrees
  <1> QED  BY <1>3 DEF more

\* What a handler's step must leave of the ledger.
KeepsLedger(c) ==
    /\ InHand(c)'
    /\ Placed(messages'[c[1]]) /\ ConvAgrees(messages'[c[1]], tools'[c[1]])
    /\ \A j \in Job \ {c[1]} : tools'[j] = tools[j]

\* A handler that is gone, or has not loaded the ledger, has nothing in hand.
LEMMA NothingInHand ==
    ASSUME NEW c \in Claim, handler'[c].pc \in {"gone", "messages", "tools"}, handler'[c].results = <<>>
    PROVE  InHand(c)'
  BY DEF InHand, Outcome

LEMMA LedgerFacts ==
    ASSUME LedgerInv, NEW c \in Claim
    PROVE  /\ handler = [d \in Claim |-> handler[d]] /\ HandlerOK(handler[c]) /\ c[1] \in Job
           /\ tools = [j \in Job |-> tools[j]] /\ Synced(c) /\ Answering(c) /\ InHand(c)
           /\ messages[c[1]] \in Seq(Message) /\ Placed(messages[c[1]]) /\ ConvAgrees(messages[c[1]], tools[c[1]])
           /\ handler[c].conv \in Seq(Message) /\ handler[c].reply \in Seq(Use) /\ handler[c].results \in Seq(Result)
           /\ Ledger(handler[c].prior) /\ Ledger(tools[c[1]])
  BY ClaimParts DEF LedgerInv, ConvInv, TypeOK, HandlerOK

LEMMA ReplayLedger ==
    ASSUME LedgerInv, NEW c \in Claim, LoadPriorMessages(c) \/ LoadPriorTools(c)
    PROVE  KeepsLedger(c)
  <1> DEFINE h == handler[c]
  <1>0. UNCHANGED <<messages, tools>> /\ h.results = <<>>
    BY LedgerFacts DEF LoadPriorMessages, LoadPriorTools, Answering, ToolPC, Outcome
  <1>1. CASE LoadPriorMessages(c)
    <2>1. handler'[c].pc = "tools" /\ handler'[c].results = <<>>
      BY <1>0, <1>1, LedgerFacts DEF LoadPriorMessages, HandlerOK
    <2> QED  BY <1>0, <2>1, NothingInHand, LedgerFacts DEF KeepsLedger
  <1>2. CASE LoadPriorTools(c)
    <2>1. /\ handler'[c].results = <<>> /\ handler'[c].prior = tools[c[1]] /\ handler'[c].pc \in {"seed", "turn", "dispatch"}
      BY <1>0, <1>2, LedgerFacts DEF LoadPriorTools, HandlerOK
    <2>2. InHand(c)'
      BY <1>0, <2>1 DEF InHand, Outcome
    <2> QED  BY <1>0, <2>2, LedgerFacts DEF KeepsLedger
  <1> QED  BY <1>1, <1>2

\* The handler goes on and keeps what it has in hand.
LEMMA InHandStays ==
    ASSUME LedgerInv, NEW c \in Claim, UNCHANGED tools, handler[c].pc \notin {"gone", "messages", "tools"},
           handler'[c].prior = handler[c].prior, handler'[c].results = <<>>,
           handler'[c].pc \in {"turn", "call", "dispatch", "done"}
    PROVE  InHand(c)'
  BY LedgerFacts DEF InHand, Outcome

LEMMA TurnLedger ==
    ASSUME LedgerInv, NEW c \in Claim,
           \/ PersistPrompt(c) \/ StopAtMaxTurns(c) \/ CallModel(c) \/ Answer(c) \/ PersistReply(c)
    PROVE  KeepsLedger(c)
  <1> DEFINE h == handler[c]
  <1>0. UNCHANGED tools
    BY DEF PersistPrompt, StopAtMaxTurns, CallModel, Answer, PersistReply
  <1>1. h.pc \in {"seed", "turn", "call", "answered"} /\ h.results = <<>>
    BY LedgerFacts DEF PersistPrompt, StopAtMaxTurns, CallModel, AtTurn, Answer, PersistReply, Answering, ToolPC, Outcome
  <1>2. ASSUME NEW m \in Message, messages'[c[1]] = Append(h.conv, m), h.conv = messages[c[1]], m.results = <<>>,
               \A k \in DOMAIN m.uses : m.uses[k].at = Len(h.conv) /\ m.uses[k].block = k
        PROVE  Placed(messages'[c[1]]) /\ ConvAgrees(messages'[c[1]], tools'[c[1]])
    <2>1. \A k \in DOMAIN m.results : m.results[k].use.at = Len(h.conv) - 1 /\ Agrees(m.results[k], tools[c[1]])
      <3>1. \A k \in DOMAIN <<>> : FALSE  OBVIOUS
      <3> QED  BY <3>1, <1>2
    <2>2. Placed(h.conv) /\ ConvAgrees(h.conv, tools[c[1]]) /\ h.conv \in Seq(Message)
      BY <1>2, LedgerFacts
    <2> HIDE DEF h
    <2>3. Placed(Append(h.conv, m)) /\ ConvAgrees(Append(h.conv, m), tools[c[1]])
      BY <1>2, <2>1, <2>2, AgreesAppend
    <2> QED  BY <1>0, <1>2, <2>3
  <1>3. CASE PersistPrompt(c)
    <2>1. handler'[c].prior = h.prior /\ handler'[c].results = <<>> /\ handler'[c].pc = "turn"
      BY <1>1, <1>3, LedgerFacts DEF PersistPrompt, HandlerOK
    <2>2. h.conv = messages[c[1]] /\ PersistMessage(c, User(<<>>)) /\ <<>> \in Seq(Result)
      BY <1>1, <1>3, LedgerFacts DEF PersistPrompt, Synced
    <2>3. User(<<>>) \in Message /\ User(<<>>).uses = <<>> /\ User(<<>>).results = <<>>
      BY <2>2, MessageTypes DEF User
    <2>4. messages'[c[1]] = Append(h.conv, User(<<>>))
      BY <2>2, LedgerFacts DEF PersistMessage, LedgerInv, ConvInv, TypeOK
    <2>5. Placed(messages'[c[1]]) /\ ConvAgrees(messages'[c[1]], tools'[c[1]])
      BY <1>2, <2>2, <2>3, <2>4
    <2> QED  BY <1>0, <1>1, <2>1, <2>5, InHandStays DEF KeepsLedger
  <1>4. CASE StopAtMaxTurns(c) \/ CallModel(c)
    <2>1. handler'[c].prior = h.prior /\ handler'[c].results = <<>> /\ handler'[c].pc \in {"done", "call"} /\ UNCHANGED messages
      BY <1>1, <1>4, LedgerFacts DEF StopAtMaxTurns, CallModel, HandlerOK
    <2> QED  BY <1>0, <1>1, <2>1, LedgerFacts, InHandStays DEF KeepsLedger
  <1>5. CASE Answer(c)
    <2>1. PICK r \in Responses :
             handler' = [handler EXCEPT ![c].pc = "answered",
               ![c].reply = [k \in DOMAIN r |->
                 [by |-> c[2], at |-> Len(h.conv), block |-> k, tool |-> r[k]]]]
      BY <1>5 DEF Answer
    <2> DEFINE reply == [k \in DOMAIN r |-> [by |-> c[2], at |-> Len(h.conv), block |-> k, tool |-> r[k]]]
    <2>2. \A k \in DOMAIN reply : reply[k].at = Len(h.conv) /\ reply[k].block = k
      OBVIOUS
    <2>3. handler' = [handler EXCEPT ![c].pc = "answered", ![c].reply = reply]
      BY <2>1
    <2> HIDE DEF reply
    <2>4. /\ handler'[c].prior = h.prior /\ handler'[c].results = <<>> /\ handler'[c].pc = "answered"
          /\ handler'[c].reply = reply /\ handler'[c].conv = h.conv
      BY <1>1, <2>3, LedgerFacts DEF HandlerOK
    <2>5. InHand(c)'
      BY <1>0, <1>1, <2>2, <2>4, LedgerFacts DEF InHand, Outcome
    <2>6. UNCHANGED messages  BY <1>5 DEF Answer
    <2> QED  BY <1>0, <2>5, <2>6, LedgerFacts DEF KeepsLedger
  <1>6. CASE PersistReply(c)
    <2> DEFINE m == Assistant(h.reply)
    <2>1. handler'[c].prior = h.prior /\ handler'[c].results = <<>> /\ handler'[c].pc \in {"done", "dispatch"}
      <3>1. handler' = [handler EXCEPT ![c].conv = Append(@, m), ![c].pc = IF h.reply = <<>> THEN "done" ELSE "dispatch"]
        BY <1>6 DEF PersistReply
      <3> HIDE DEF m
      <3> QED  BY <1>1, <3>1, LedgerFacts DEF HandlerOK
    <2>2. h.conv = messages[c[1]] /\ PersistMessage(c, m) /\ h.pc = "answered"
      BY <1>1, <1>6, LedgerFacts DEF PersistReply, Synced
    <2>3. m \in Message /\ m.uses = h.reply /\ m.results = <<>>
      BY LedgerFacts, MessageTypes DEF Assistant
    <2> HIDE DEF m
    <2>4. messages'[c[1]] = Append(h.conv, m)
      BY <2>2, LedgerFacts DEF PersistMessage, LedgerInv, ConvInv, TypeOK
    <2>5. \A k \in DOMAIN m.uses : m.uses[k].at = Len(h.conv) /\ m.uses[k].block = k
      BY <2>2, <2>3, LedgerFacts DEF InHand
    <2>6. Placed(messages'[c[1]]) /\ ConvAgrees(messages'[c[1]], tools'[c[1]])
      BY <1>2, <2>2, <2>3, <2>4, <2>5
    <2> QED  BY <1>0, <1>1, <2>1, <2>6, InHandStays DEF KeepsLedger
  <1> QED  BY <1>3, <1>4, <1>5, <1>6

\* A row of the use being dealt with is written: the results of others stay as they are.
LEMMA PutKeepsResults ==
    ASSUME LedgerInv, NEW c \in Claim, handler[c].pc \in ToolPC, Len(handler[c].results) < Len(handler[c].reply),
           NEW s, tools' = [tools EXCEPT ![c[1]] = Put(@, Current(c), s)]
    PROVE  /\ tools'[c[1]] = Put(tools[c[1]], Current(c), s)
           /\ ConvAgrees(messages[c[1]], tools'[c[1]])
           /\ \A k \in DOMAIN handler[c].results : Agrees(handler[c].results[k], tools'[c[1]])
           /\ \A j \in Job \ {c[1]} : tools'[j] = tools[j]
  <1>1. tools'[c[1]] = Put(tools[c[1]], Current(c), s) /\ \A j \in Job \ {c[1]} : tools'[j] = tools[j]
    BY LedgerFacts
  <1>2. ConvAgrees(messages[c[1]], tools[c[1]]) /\ \A k \in DOMAIN handler[c].results : Agrees(handler[c].results[k], tools[c[1]])
    BY LedgerFacts DEF InHand
  <1> QED  BY <1>1, <1>2, CurrentIsFresh, AgreesPut DEF ConvAgrees

\* A result is added to those in hand.
LEMMA ResultInHand ==
    ASSUME LedgerInv, NEW c \in Claim, NEW o, AddResult(c, o), handler[c].pc \in ToolPC,
           \A k \in DOMAIN handler[c].results : Agrees(handler[c].results[k], tools'[c[1]]),
           Agrees([use |-> Current(c), outcome |-> o], tools'[c[1]]),
           \A u \in DOMAIN handler[c].prior : handler[c].prior[u] \in Outcome /\ u.tool # "unknown" =>
                 u \in DOMAIN tools'[c[1]] /\ tools'[c[1]][u] = handler[c].prior[u]
    PROVE  InHand(c)'
  <1> DEFINE r == [use |-> Current(c), outcome |-> o]
             more == Append(handler[c].results, r)
  <1>1. handler' = [handler EXCEPT ![c].pc = "dispatch", ![c].results = more]
    BY DEF AddResult
  <1>2. \A k \in DOMAIN more : more[k] = r \/ (k \in DOMAIN handler[c].results /\ more[k] = handler[c].results[k])
    BY LedgerFacts
  <1> HIDE DEF more, r
  <1>3. handler'[c].pc = "dispatch" /\ handler'[c].results = more /\ handler'[c].prior = handler[c].prior
    BY <1>1, LedgerFacts DEF HandlerOK
  <1>4. \A k \in DOMAIN more : Agrees(more[k], tools'[c[1]])
    BY <1>2 DEF r
  <1> QED  BY <1>3, <1>4 DEF InHand, Outcome

LEMMA ToolsLedger ==
    ASSUME LedgerInv, NEW c \in Claim,
           \/ UnknownTool(c) \/ TrustPrior(c) \/ PersistToolPending(c)
           \/ ExecuteTool(c) \/ PersistToolOutcome(c) \/ PersistResults(c)
    PROVE  KeepsLedger(c)
  <1> DEFINE h == handler[c]
             f == tools[c[1]]
  <1>0. h.pc \in ToolPC /\ h.pc \notin {"gone", "messages", "tools"}
    BY DEF UnknownTool, TrustPrior, PersistToolPending, ExecuteTool, PersistToolOutcome, PersistResults, ToolsLeft,
           ToolPC, Outcome
  <1>1. /\ \A k \in DOMAIN h.results : Agrees(h.results[k], f)
        /\ \A u \in DOMAIN h.prior : h.prior[u] \in Outcome /\ u.tool # "unknown" => u \in DOMAIN f /\ f[u] = h.prior[u]
        /\ h.pc \in {"execute"} \cup Outcome => Prior(c) \notin Outcome /\ Current(c).tool # "unknown"
        /\ h.pc \in {"execute"} \cup Outcome => Len(h.results) < Len(h.reply)
    BY <1>0, LedgerFacts DEF InHand, HandlerOK
  <1>2. CASE UnknownTool(c)
    <2>1. /\ Len(h.results) < Len(h.reply) /\ Current(c).tool = "unknown" /\ AddResult(c, "failed") /\ UNCHANGED messages
          /\ tools' = [tools EXCEPT ![c[1]] = Put(@, Current(c), "failed")]
      BY <1>2 DEF UnknownTool, ToolsLeft
    <2>2. /\ tools'[c[1]] = Put(f, Current(c), "failed") /\ ConvAgrees(messages[c[1]], tools'[c[1]])
          /\ \A k \in DOMAIN h.results : Agrees(h.results[k], tools'[c[1]])
          /\ \A j \in Job \ {c[1]} : tools'[j] = tools[j]
      BY <1>0, <2>1, PutKeepsResults
    <2>3. \A u \in DOMAIN h.prior : h.prior[u] \in Outcome /\ u.tool # "unknown" =>
                 u \in DOMAIN tools'[c[1]] /\ tools'[c[1]][u] = h.prior[u]
      BY <1>1, <2>1, <2>2 DEF Put
    <2>4. Agrees([use |-> Current(c), outcome |-> "failed"], tools'[c[1]])
      BY <2>2, PutAgrees
    <2>5. InHand(c)'
      BY <1>0, <2>1, <2>2, <2>3, <2>4, ResultInHand
    <2> QED  BY <2>1, <2>2, <2>5, LedgerFacts DEF KeepsLedger
  <1>3. CASE TrustPrior(c)
    <2>1. Current(c).tool # "unknown" /\ Prior(c) \in Outcome /\ AddResult(c, Prior(c)) /\ UNCHANGED <<messages, tools>>
      BY <1>3 DEF TrustPrior
    <2>2. Current(c) \in DOMAIN h.prior /\ Prior(c) = h.prior[Current(c)]
      BY <2>1 DEF Prior, Outcome
    <2>3. Agrees([use |-> Current(c), outcome |-> Prior(c)], f)
      BY <1>1, <2>1, <2>2 DEF Agrees
    <2>4. InHand(c)'
      BY <1>0, <1>1, <2>1, <2>3, ResultInHand
    <2> QED  BY <2>1, <2>4, LedgerFacts DEF KeepsLedger
  <1>4. CASE PersistToolPending(c)
    <2>1. /\ h.pc = "dispatch" /\ Prior(c) \notin Outcome /\ Current(c).tool # "unknown" /\ UNCHANGED messages
          /\ tools' = [tools EXCEPT ![c[1]] = IF Current(c) \in DOMAIN @ THEN @ ELSE Put(@, Current(c), "pending")]
          /\ handler' = [handler EXCEPT ![c].pc = "execute"]
      BY <1>4 DEF PersistToolPending, ToolsLeft, Outcome
    <2>2. /\ \A u \in DOMAIN f : u \in DOMAIN tools'[c[1]] /\ tools'[c[1]][u] = f[u]
          /\ \A j \in Job \ {c[1]} : tools'[j] = tools[j]
      BY <2>1, LedgerFacts DEF Put
    <2>3. handler'[c].pc = "execute" /\ handler'[c].results = h.results /\ handler'[c].reply = h.reply /\ handler'[c].prior = h.prior
      BY <2>1, LedgerFacts DEF HandlerOK
    <2>4. Current(c)' = Current(c) /\ Prior(c)' = Prior(c)
      BY <2>3 DEF Current, Prior
    <2>5. \A r : Agrees(r, f) => Agrees(r, tools'[c[1]])
      BY <2>2 DEF Agrees
    <2>6. InHand(c)'
      BY <1>1, <2>1, <2>2, <2>3, <2>4, <2>5 DEF InHand, Outcome
    <2> QED  BY <2>1, <2>2, <2>5, <2>6, LedgerFacts DEF KeepsLedger, ConvAgrees
  <1>5. CASE ExecuteTool(c)
    <2>1. PICK o \in Outcome : handler' = [handler EXCEPT ![c].pc = o]
      BY <1>5 DEF ExecuteTool
    <2>2. h.pc = "execute" /\ UNCHANGED <<messages, tools>>
      BY <1>5 DEF ExecuteTool
    <2>3. handler'[c].pc = o /\ handler'[c].results = h.results /\ handler'[c].reply = h.reply /\ handler'[c].prior = h.prior
      BY <2>1, LedgerFacts DEF HandlerOK
    <2>4. Current(c)' = Current(c) /\ Prior(c)' = Prior(c)
      BY <2>3 DEF Current, Prior
    <2>5. InHand(c)'
      BY <1>1, <2>2, <2>3, <2>4 DEF InHand, Outcome
    <2> QED  BY <2>2, <2>5, LedgerFacts DEF KeepsLedger
  <1>6. CASE PersistToolOutcome(c)
    <2>1. PICK o \in {h.pc, "failed"} :
             /\ tools' = [tools EXCEPT ![c[1]] = Put(@, Current(c), o)]
             /\ AddResult(c, o)
      BY <1>6 DEF PersistToolOutcome
    <2>2. h.pc \in Outcome /\ UNCHANGED messages
      BY <1>6 DEF PersistToolOutcome
    <2>3. /\ tools'[c[1]] = Put(f, Current(c), o) /\ ConvAgrees(messages[c[1]], tools'[c[1]])
          /\ \A k \in DOMAIN h.results : Agrees(h.results[k], tools'[c[1]])
          /\ \A j \in Job \ {c[1]} : tools'[j] = tools[j]
      BY <1>0, <1>1, <2>1, <2>2, PutKeepsResults
    <2>4. \A u \in DOMAIN h.prior : h.prior[u] \in Outcome => u # Current(c)
      BY <1>1, <2>2 DEF Prior
    <2>5. \A u \in DOMAIN h.prior : h.prior[u] \in Outcome /\ u.tool # "unknown" =>
                 u \in DOMAIN tools'[c[1]] /\ tools'[c[1]][u] = h.prior[u]
      BY <1>1, <2>3, <2>4 DEF Put
    <2>6. Agrees([use |-> Current(c), outcome |-> o], tools'[c[1]])
      BY <2>3, PutAgrees
    <2>7. InHand(c)'
      BY <1>0, <2>1, <2>3, <2>5, <2>6, ResultInHand
    <2> QED  BY <2>2, <2>3, <2>7, LedgerFacts DEF KeepsLedger
  <1>7. CASE PersistResults(c)
    <2> DEFINE m == User(h.results)
    <2>1. /\ handler' = [handler EXCEPT ![c].conv = Append(@, m), ![c].pc = "turn", ![c].reply = <<>>, ![c].results = <<>>]
          /\ h.pc = "dispatch" /\ PersistMessage(c, m) /\ UNCHANGED tools
      BY <1>7 DEF PersistResults
    <2>2. m \in Message /\ m.uses = <<>> /\ m.results = h.results
      BY LedgerFacts, MessageTypes DEF User
    <2> HIDE DEF m
    <2>3. handler'[c].prior = h.prior /\ handler'[c].results = <<>> /\ handler'[c].pc = "turn"
      BY <2>1, LedgerFacts DEF HandlerOK
    <2>4. /\ h.conv = messages[c[1]] /\ h.conv # <<>> /\ Final(h.conv).uses = h.reply
          /\ \A k \in 1..Len(h.results) : h.results[k].use = h.reply[k]
          /\ Len(h.results) <= Len(h.reply)
      BY <2>1, LedgerFacts DEF Synced, Answering, ToolPC
    <2>5. messages'[c[1]] = Append(h.conv, m)
      BY <2>1, <2>4, LedgerFacts DEF PersistMessage, LedgerInv, ConvInv, TypeOK
    <2>6. \A k \in DOMAIN h.results : h.results[k].use.at = Len(h.conv) - 1
      <3>1. /\ Len(h.conv) \in DOMAIN h.conv /\ DOMAIN h.reply = 1..Len(h.reply) /\ DOMAIN h.results = 1..Len(h.results)
            /\ Len(h.results) \in Nat /\ Len(h.reply) \in Nat
        BY <2>4, LedgerFacts
      <3>2. \A k \in DOMAIN h.reply : h.reply[k].at = Len(h.conv) - 1
        <4>1. Placed(h.conv) /\ h.reply = h.conv[Len(h.conv)].uses  BY <2>4, LedgerFacts DEF Final
        <4> HIDE DEF h
        <4> QED  BY <3>1, <4>1 DEF Placed
      <3> QED  BY <2>4, <3>1, <3>2
    <2>7. \A k \in DOMAIN m.uses : m.uses[k].at = Len(h.conv) /\ m.uses[k].block = k
      <3>1. \A k \in DOMAIN <<>> : FALSE  OBVIOUS
      <3> QED  BY <2>2, <3>1
    <2>8. Placed(h.conv) /\ ConvAgrees(h.conv, f) /\ h.conv \in Seq(Message)
      BY <2>4, LedgerFacts
    <2>9. \A k \in DOMAIN m.results : m.results[k].use.at = Len(h.conv) - 1 /\ Agrees(m.results[k], f)
      BY <1>1, <2>2, <2>6
    <2>10. Placed(Append(h.conv, m)) /\ ConvAgrees(Append(h.conv, m), f)
      <3> HIDE DEF h, f
      <3> QED  BY <2>2, <2>7, <2>8, <2>9, AgreesAppend
    <2>11. InHand(c)'
      BY <1>0, <2>1, <2>3, InHandStays
    <2> QED  BY <2>1, <2>5, <2>10, <2>11 DEF KeepsLedger
  <1> QED  BY <1>2, <1>3, <1>4, <1>5, <1>6, <1>7

LEMMA LedgerHandlerStep ==
    ASSUME LedgerInv, ConvInv', NEW c \in Claim, HandlerStep(c)
    PROVE  LedgerInv'
  <1>1. KeepsLedger(c)
    <2>1. CASE \/ RefusedLease(c) \/ CallFails(c) \/ RefuseRerun(c) \/ Complete(c)
               \/ Fails(c) \/ Crash(c)
      <3>1. Gone(c) /\ UNCHANGED <<messages, tools>>
        BY <2>1 DEF RefusedLease, CallFails, RefuseRerun, Complete, Fails, Crash, Throw
      <3>2. handler'[c].pc = "gone" /\ handler'[c].results = <<>>
        BY <3>1, LedgerFacts DEF Gone, Idle
      <3> QED  BY <3>1, <3>2, LedgerFacts, NothingInHand DEF KeepsLedger
    <2> QED  BY <2>1, ReplayLedger, TurnLedger, ToolsLedger DEF HandlerStep
  <1>2. \A j \in Job \ {c[1]} : messages'[j] = messages[j] /\ tools'[j] = tools[j]
    <2>1. CASE \/ RefusedLease(c) \/ CallFails(c) \/ RefuseRerun(c) \/ Complete(c)
               \/ Fails(c) \/ Crash(c)
      BY <1>1, <2>1 DEF RefusedLease, CallFails, RefuseRerun, Complete, Fails, Crash, KeepsLedger
    <2>2. CASE ~(\/ RefusedLease(c) \/ CallFails(c) \/ RefuseRerun(c) \/ Complete(c)
                 \/ Fails(c) \/ Crash(c))
      BY <1>1, <2>2, ReplayContinues, TurnContinues, ToolsContinue DEF LedgerInv, HandlerStep, Continues, KeepsLedger
    <2> QED  BY <2>1, <2>2
  <1>3. ASSUME NEW d \in Claim, d # c  PROVE InHand(d)'
    <2>1. handler'[d] = handler[d] /\ d[1] \in Job
      BY <1>3, StepFrame, ClaimParts DEF LedgerInv, ConvInv
    <2>2. CASE handler[d].pc = "gone"
      <3>1. handler[d].results = <<>>
        BY <2>2, LedgerFacts DEF Answering, ToolPC, Outcome
      <3> QED  BY <2>1, <2>2, <3>1, NothingInHand
    <2>3. CASE handler[d].pc # "gone"
      <3>1. d[1] # c[1]
        BY <1>3, <2>3, StepFrame, ClaimParts DEF LedgerInv, ConvInv, Alone, Running
      <3>2. tools'[d[1]] = tools[d[1]]
        BY <1>2, <2>1, <3>1
      <3> QED  BY <2>1, <3>2 DEF LedgerInv, InHand, Prior, Current
    <2> QED  BY <2>2, <2>3
  <1> QED  BY <1>1, <1>2, <1>3 DEF LedgerInv, KeepsLedger

\* For any number of jobs, claims and turns, whatever the model answers and wherever a claim is
\* cut off: if a job is claimed only once its old handler is gone, a result the model was told
\* stays the outcome in subagent_tool_executions.
THEOREM LedgerAgreesHolds ==
    ASSUME ~Overlap
    PROVE  Spec => []LedgerAgrees
  <1>1. Init => LedgerInv
    <2> SUFFICES ASSUME Init PROVE LedgerInv  OBVIOUS
    <2>1. \A j \in Job : messages[j] = <<>>  BY DEF Init
    <2>2. \A i \in DOMAIN <<>> : FALSE  OBVIOUS
    <2>3. \A j \in Job : Placed(messages[j]) /\ ConvAgrees(messages[j], tools[j])
      BY <2>1, <2>2 DEF Placed, ConvAgrees
    <2>4. \A c \in Claim : InHand(c)
      BY <2>2 DEF Init, Idle, InHand, Outcome
    <2> QED  BY <2>3, <2>4, ConvInit DEF LedgerInv
  <1>2. LedgerInv /\ [Next]_vars => LedgerInv'
    <2> SUFFICES ASSUME LedgerInv, [Next]_vars PROVE LedgerInv'  OBVIOUS
    <2>1. ConvInv'  BY ConvStep DEF LedgerInv
    <2>2. ASSUME NEW c \in Claim, HandlerStep(c)  PROVE LedgerInv'
      BY <2>1, <2>2, LedgerHandlerStep
    <2>3. ASSUME NEW j \in Job, Start(j)  PROVE LedgerInv'
      <3>1. PICK c \in Claim :
               /\ handler[c].pc = "gone" /\ handler'[c] = [handler[c] EXCEPT !.pc = "messages"]
               /\ \A d \in Claim \ {c} : handler'[d] = handler[d]
        BY <2>3, StartAlone DEF LedgerInv, ConvInv
      <3>2. UNCHANGED <<messages, tools>>  BY <2>3 DEF Start
      <3>3. handler'[c].pc = "messages" /\ handler'[c].results = <<>>
        BY <3>1, LedgerFacts DEF HandlerOK, Answering, ToolPC, Outcome
      <3>4. \A d \in Claim : InHand(d)'
        <4>1. InHand(c)'  BY <3>3, NothingInHand
        <4>2. ASSUME NEW d \in Claim, d # c  PROVE InHand(d)'
          <5>1. handler'[d] = handler[d] /\ InHand(d)  BY <3>1, <4>2 DEF LedgerInv
          <5> QED  BY <3>2, <5>1 DEF InHand, Prior, Current
        <4> QED  BY <4>1, <4>2
      <3> QED  BY <2>1, <3>2, <3>4 DEF LedgerInv
    <2>4. ASSUME UNCHANGED <<messages, tools, handler>>  PROVE LedgerInv'
      BY <2>1, <2>4 DEF LedgerInv, InHand, Prior, Current
    <2> QED  BY <2>2, <2>3, <2>4 DEF Next, TakenAway, Expire, vars
  <1>3. LedgerInv => LedgerAgrees  BY DEF LedgerInv, ConvAgrees, Agrees, LedgerAgrees
  <1> QED  BY <1>1, <1>2, <1>3, PTL DEF Spec
================================================================================
