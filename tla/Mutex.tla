--------------------------------- MODULE Mutex ---------------------------------
(***************************************************************************)
(* What every lock of the program promises: of the agents that believe to  *)
(* hold a lock there is never more than one, and an agent that dies is no  *)
(* longer among them.  db-lock.ts, page-lock.ts, pglite-lock.ts and the    *)
(* PID file of the supervisor are checked against it.                      *)
(***************************************************************************)
CONSTANTS Agent, LockId

VARIABLE inside     \* who believes to hold each lock

Init == inside = [i \in LockId |-> {}]

Enter(i, a) ==
    /\ inside[i] = {}
    /\ inside' = [inside EXCEPT ![i] = {a}]

\* Release, or the end of a process with all the locks its agents held.
Leave(gone) ==
    /\ gone # {}
    /\ inside' = [i \in LockId |-> inside[i] \ gone]

\* One lock of an agent that may hold several.
Release(i, a) ==
    /\ a \in inside[i]
    /\ inside' = [inside EXCEPT ![i] = @ \ {a}]

Next ==
    \/ \E i \in LockId, a \in Agent : Enter(i, a) \/ Release(i, a)
    \/ \E gone \in SUBSET Agent : Leave(gone)

Spec == Init /\ [][Next]_inside
================================================================================
