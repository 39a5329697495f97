------------------------------ MODULE MCServices -------------------------------
(***************************************************************************)
(* The processes around the queue, each on its own: they share no state,   *)
(* so that a behaviour is one of one of them.                              *)
(***************************************************************************)
EXTENDS FileLocks, Supervisor, Gateway, WorkerProcess, Synthesize

CONSTANTS a1, a2, b1, p, q

VARIABLE which

MCProcessOf == [c \in Caller |-> IF c = b1 THEN q ELSE p]

ServicesInit ==
    /\ which \in {"locks", "supervisor", "gateway", "worker", "synthesize"}
    /\ LocksInit /\ SupInit /\ GatewayInit /\ WorkerInit /\ SynthesizeInit

servicesVars == <<which, lockVars, supVars, gatewayVars, workerVars, synthesizeVars>>

Locks == which = "locks" /\ LocksNext /\ UNCHANGED <<which, supVars, gatewayVars, workerVars, synthesizeVars>>
Supervising == which = "supervisor" /\ SupNext /\ UNCHANGED <<which, lockVars, gatewayVars, workerVars, synthesizeVars>>
Managing == which = "gateway" /\ GatewayNext /\ UNCHANGED <<which, lockVars, supVars, workerVars, synthesizeVars>>
Working == which = "worker" /\ WorkerNext /\ UNCHANGED <<which, lockVars, supVars, gatewayVars, synthesizeVars>>
Synthesizing == which = "synthesize" /\ SynthesizeNext /\ UNCHANGED <<which, lockVars, supVars, gatewayVars, workerVars>>

ServicesNext == Locks \/ Supervising \/ Managing \/ Working \/ Synthesizing

\* A supervisor that lives goes on: its timers fire, its spawns answer.  So does a phase, and
\* cooldowns end and autopilot starts the next cycle.
Alone(A) == which = "synthesize" /\ A /\ UNCHANGED <<which, lockVars, supVars, gatewayVars, workerVars>>

ServicesFairness ==
    /\ \A h \in Host :
         WF_servicesVars(which = "supervisor" /\ SupRuns(h) /\ UNCHANGED <<which, lockVars, gatewayVars, workerVars, synthesizeVars>>)
    /\ WF_servicesVars(Alone(PhaseRuns))
    /\ WF_servicesVars(Alone(CooldownEnds))
    /\ WF_servicesVars(Alone(\E slot \in BOOLEAN : StartPhase(slot)))

ServicesSpec == ServicesInit /\ [][ServicesNext]_servicesVars /\ ServicesFairness
================================================================================
