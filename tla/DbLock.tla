--------------------------------- MODULE DbLock --------------------------------
(***************************************************************************)
(* The table gbrain_cycle_locks: named locks with a holder pid and a time  *)
(* to live (gbrain/src/core/db-lock.ts, and the same statements once more  *)
(* in cycle.ts).  Acquiring is one upsert, so it is one step.  Nobody      *)
(* calls refresh, so a row expires thirty minutes after it was written,    *)
(* whatever its holder is doing.                                           *)
(***************************************************************************)
CONSTANTS
    Agent,          \* the runs that take locks
    Pid, PidOf,     \* process ids, not 0, and the process each of them runs in
    LockId

ASSUME PidOfAssumption == PidOf \in [Agent -> Pid] /\ 0 \notin Pid

VARIABLE lock_row

NoRow == [pid |-> 0, live |-> FALSE]

LockTypeOK == lock_row \in [LockId -> [pid : Pid \union {0}, live : BOOLEAN]]

LockInit == lock_row = [i \in LockId |-> NoRow]

\* Mutant of Free: ON CONFLICT DO NOTHING, without the expiry.
FreeIfAbsent(i) == lock_row[i].pid = 0

\* The conflict clause: no row, or one whose ttl_expires_at has passed.
Free(i) == ~lock_row[i].live

\* Mutant of tryAcquireDbLock: the upsert has no conflict clause.
takeDbLock(i, a) ==
    lock_row' = [lock_row EXCEPT ![i] = [pid |-> PidOf[a], live |-> TRUE]]

tryAcquireDbLock(i, a) ==
    /\ Free(i)
    /\ lock_row' = [lock_row EXCEPT ![i] = [pid |-> PidOf[a], live |-> TRUE]]

\* The rows without what "DELETE ... WHERE id = i AND holder_pid = pid" removes.
Released(i, a) ==
    IF lock_row[i].pid = PidOf[a] THEN [lock_row EXCEPT ![i] = NoRow] ELSE lock_row

\* now() passes ttl_expires_at.
LockExpires(i) ==
    /\ lock_row[i].live
    /\ lock_row' = [lock_row EXCEPT ![i].live = FALSE]
================================================================================
