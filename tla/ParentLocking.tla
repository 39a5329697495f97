----------------------------- MODULE ParentLocking -----------------------------
(***************************************************************************)
(* Inside the transactions of queue.ts that end a child or add one, as     *)
(* Postgres runs them at READ COMMITTED, its default: every statement sees *)
(* what was committed when it began and what its own transaction wrote,    *)
(* and a row lock is kept to the end.  MinionQueue takes each of these     *)
(* transactions as one step; this module says when that is right.          *)
(*                                                                         *)
(* One parent row and its children.  completeJob, failJob and add lock the *)
(* parent FOR UPDATE before anything else.  cancelJob, handleTimeouts and  *)
(* handleWallClockTimeouts do not: what they hold of the parent is the FOR *)
(* KEY SHARE that the foreign key of minion_inbox takes when they post     *)
(* child_done, and two of those are compatible.                            *)
(*                                                                         *)
(* A child is open or ended; the policy of a failing child is fail_parent, *)
(* any other one resolves the parent as completeJob does.                  *)
(***************************************************************************)
EXTENDS Integers, FiniteSets

CONSTANTS
    Session,  \* the database connections of workers and operators
    Child,    \* the ids of the parent's children
    May       \* which transactions a session runs

Locking == {"complete", "fail", "add"}
Sharing == {"cancel", "sweep"}

ASSUME MayAssumption == May \in [Session -> SUBSET (Locking \cup Sharing)]

VARIABLES
    parent,  \* the committed status of the parent row
    child,   \* the committed children
    tx       \* the transaction each session has open

vars == <<parent, child, tx>>

\* told: it posted child_done.  flip: the status it wrote to the parent, or
\* "none".
Transaction ==
    [kind : Locking \cup Sharing,
     pc   : {"idle", "lock", "update", "inbox", "resolve", "write", "commit"},
     todo : SUBSET Child,
     mine : SUBSET Child,
     told : BOOLEAN,
     flip : {"none", "waiting", "waiting-children", "failed"}]

Idle == [kind |-> "complete", pc |-> "idle", todo |-> {}, mine |-> {},
         told |-> FALSE, flip |-> "none"]

At(s, pc)   == tx[s].pc = pc
Go(s, pc)   == tx' = [tx EXCEPT ![s].pc = pc]
OpenRows    == {c \in Child : child[c] = "open"}

\* Mutant of LocksParent: completeJob does not lock the parent.
LocksParentUnlessComplete(kind) == kind \in {"fail", "add"}

\* The transactions that begin with SELECT .. FOR UPDATE of the parent.
LocksParent(kind) == kind \in Locking

\* Row locks on the parent.
ForUpdate(s) ==
    LocksParent(tx[s].kind) /\ tx[s].pc \in {"update", "inbox", "resolve", "write", "commit"}
KeyShare(s)  == tx[s].told
Wrote(s)     == tx[s].flip # "none"

\* Whom s has to wait for before its next statement.
WaitsFor(s) ==
    {t \in Session \ {s} :
        \/ At(s, "lock")   /\ (ForUpdate(t) \/ KeyShare(t) \/ Wrote(t))
        \/ At(s, "update") /\ tx[s].todo \cap tx[t].mine # {}
        \/ At(s, "inbox")  /\ ForUpdate(t)
        \/ At(s, "write")  /\ (ForUpdate(t) \/ Wrote(t))}

Init ==
    /\ parent = "active"
    /\ child = [c \in Child |-> "none"]
    /\ tx = [s \in Session |-> Idle]

\* The children a transaction of this kind is about: a worker answers for one,
\* an operator cancels one, a sweep finds some.
Targets(kind) ==
    CASE kind = "add"   -> {{}}
      [] kind = "sweep" -> SUBSET OpenRows \ {{}}
      [] OTHER          -> {{c} : c \in OpenRows}

Begin(s, kind, S) ==
    /\ At(s, "idle")
    /\ tx' = [tx EXCEPT ![s] =
               [Idle EXCEPT !.kind = kind, !.todo = S,
                            !.pc = IF LocksParent(kind) THEN "lock" ELSE "update"]]
    /\ UNCHANGED <<parent, child>>

\* SELECT .. FROM minion_jobs WHERE id = parent FOR UPDATE
LockParent(s) ==
    /\ At(s, "lock")
    /\ WaitsFor(s) = {}
    /\ Go(s, "update")
    /\ UNCHANGED <<parent, child>>

\* UPDATE minion_jobs SET status = .. takes its rows one by one, and skips those
\* that have ended since.
UpdateChild(s, c) ==
    /\ At(s, "update")
    /\ tx[s].kind # "add"
    /\ c \in tx[s].todo
    /\ \A t \in Session \ {s} : c \notin tx[t].mine
    /\ tx' = [tx EXCEPT ![s].todo = @ \ {c},
                        ![s].mine = IF child[c] = "open" THEN @ \cup {c} ELSE @]
    /\ UNCHANGED <<parent, child>>

\* No row matched: the transaction has nothing more to do.
UpdatedRows(s) ==
    /\ At(s, "update")
    /\ tx[s].kind # "add"
    /\ tx[s].todo = {}
    /\ IF tx[s].mine = {} THEN tx' = [tx EXCEPT ![s] = Idle] ELSE Go(s, "inbox")
    /\ UNCHANGED <<parent, child>>

\* Mutant of PostChildDone: minion_inbox has no foreign key.
PostWithoutKey(s) == At(s, "inbox") /\ Go(s, "resolve") /\ UNCHANGED <<parent, child>>

\* INSERT INTO minion_inbox .. WHERE EXISTS (a parent that has not ended): the
\* foreign key check waits for a FOR UPDATE and leaves a FOR KEY SHARE.
PostChildDone(s) ==
    /\ At(s, "inbox")
    /\ \/ /\ parent # "failed"
          /\ WaitsFor(s) = {}
          /\ tx' = [tx EXCEPT ![s].told = TRUE, ![s].pc = "resolve"]
       \/ /\ parent = "failed"
          /\ Go(s, "resolve")
    /\ UNCHANGED <<parent, child>>

\* The statement that resolves or fails the parent reads its snapshot: it finds
\* the row ...
Resolvable(s) == parent = "waiting-children" /\ OpenRows \subseteq tx[s].mine

ResolveParent(s) ==
    /\ At(s, "resolve")
    /\ Go(s, IF \/ tx[s].kind # "fail" /\ Resolvable(s)
                \/ tx[s].kind = "fail" /\ parent = "waiting-children"
             THEN "write" ELSE "commit")
    /\ UNCHANGED <<parent, child>>

\* ... and then writes it, if it still has the status it was found with.
WriteParent(s) ==
    /\ At(s, "write")
    /\ WaitsFor(s) = {}
    /\ tx' = [tx EXCEPT ![s].pc = "commit",
                        ![s].flip = IF parent # "waiting-children" THEN "none"
                                    ELSE IF tx[s].kind = "fail" THEN "failed"
                                    ELSE "waiting"]
    /\ UNCHANGED <<parent, child>>

\* add: INSERT the child under an id the sequence has not handed out, and flip
\* the parent.
InsertChild(s, c) ==
    /\ At(s, "update")
    /\ tx[s].kind = "add"
    /\ child[c] = "none"
    /\ \A t \in Session \ {s} : c \notin tx[t].mine
    /\ tx' = [tx EXCEPT ![s].pc = "commit", ![s].mine = {c},
                        ![s].flip = IF parent \in {"waiting", "active"}
                                    THEN "waiting-children" ELSE "none"]
    /\ UNCHANGED <<parent, child>>

Commit(s) ==
    /\ At(s, "commit")
    /\ parent' = IF Wrote(s) THEN tx[s].flip ELSE parent
    /\ child' = [c \in Child |->
                  IF c \notin tx[s].mine THEN child[c]
                  ELSE IF tx[s].kind = "add" THEN "open" ELSE "ended"]
    /\ tx' = [tx EXCEPT ![s] = Idle]

\* The connection is lost, or the deadlock detector picks this transaction.
Rollback(s) ==
    /\ ~At(s, "idle")
    /\ tx' = [tx EXCEPT ![s] = Idle]
    /\ UNCHANGED <<parent, child>>

\* claim() of the parent, FOR UPDATE SKIP LOCKED.
claimParent ==
    /\ parent = "waiting"
    /\ \A s \in Session : ~ForUpdate(s) /\ ~KeyShare(s) /\ ~Wrote(s)
    /\ parent' = "active"
    /\ UNCHANGED <<child, tx>>

Statement(s) ==
    \/ LockParent(s)
    \/ \E c \in Child : UpdateChild(s, c) \/ InsertChild(s, c)
    \/ UpdatedRows(s)
    \/ PostChildDone(s)
    \/ ResolveParent(s)
    \/ WriteParent(s)
    \/ Commit(s)

Next ==
    \/ \E s \in Session :
         \/ \E kind \in May[s] : \E S \in Targets(kind) : Begin(s, kind, S)
         \/ Statement(s)
         \/ Rollback(s)
    \/ claimParent

Spec == Init /\ [][Next]_vars
--------------------------------------------------------------------------------
TypeOK ==
    /\ parent \in {"waiting", "waiting-children", "active", "failed"}
    /\ child \in [Child -> {"none", "open", "ended"}]
    /\ tx \in [Session -> Transaction]

\* A committed parent in waiting-children has an open child to wait for.
NotStranded == parent = "waiting-children" => OpenRows # {}

\* A parent that may run, or runs, has no open child: the children were all in
\* when it was resolved, and none was added while the resolution was decided.
RunsAfterChildren == parent \in {"waiting", "active"} => OpenRows = {}

\* Among the transactions that lock the parent first, no set in which each waits
\* for another one: the deadlock detector has nothing to do.
NoLockCycle ==
    \A S \in SUBSET {s \in Session : tx[s].kind \in Locking} :
        S # {} => \E s \in S : WaitsFor(s) \cap S = {}
================================================================================
