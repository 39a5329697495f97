-------------------------- MODULE ParentLockingProofs --------------------------
(***************************************************************************)
(* Proofs about ParentLocking, for any number of connections and children. *)
(*                                                                         *)
(* Own(s) says what a transaction in progress knows of the rows it has     *)
(* read and locked, and Apart(s, t) what its locks keep two of them from   *)
(* doing at once.  Every statement changes the record of one session only, *)
(* so each action needs Own of that session, Apart of it and any other     *)
(* one, and, when rows are committed, Own of the others.                   *)
(***************************************************************************)
EXTENDS ParentLocking, TLAPS

\* What the record of a session says about itself and about the rows.
Shape(s) ==
    /\ At(s, "idle") => tx[s] = Idle
    /\ tx[s].pc \in {"idle", "lock"} => tx[s].mine = {}
    /\ tx[s].pc \in {"idle", "lock", "update", "inbox"} => ~tx[s].told
    /\ ~At(s, "commit") => tx[s].flip = "none"
    /\ tx[s].kind = "add" => /\ ~tx[s].told
                             /\ tx[s].pc \in {"idle", "lock", "update", "commit"}
                             /\ ~At(s, "commit") => tx[s].mine = {}
    /\ tx[s].flip = "waiting-children" => tx[s].kind = "add"
    /\ tx[s].kind = "add" => tx[s].flip \in {"none", "waiting-children"}

\* What it knows of the committed rows.
Knows(s) ==
    /\ \A c \in tx[s].mine :
         child[c] = IF tx[s].kind = "add" THEN "none" ELSE "open"
    /\ tx[s].pc \in {"resolve", "write", "commit"}
         => tx[s].told \/ tx[s].kind = "add" \/ parent = "failed"
    /\ tx[s].flip \in {"waiting", "failed"} => parent = "waiting-children"
    /\ tx[s].flip = "waiting-children" => parent \in {"waiting", "active"}
    /\ tx[s].kind = "add" /\ At(s, "commit")
         => /\ tx[s].mine # {}
            /\ tx[s].flip = "none" => parent \notin {"waiting", "active"}
    /\ At(s, "write") /\ tx[s].kind # "fail" /\ parent = "waiting-children"
         => OpenRows \subseteq tx[s].mine
    /\ tx[s].flip = "waiting" => OpenRows \subseteq tx[s].mine

Apart(s, t) ==
    /\ tx[s].mine \cap tx[t].mine = {}
    /\ ForUpdate(s) => ~ForUpdate(t) /\ ~KeyShare(t)
    /\ Wrote(s) => ~Wrote(t)

IInv ==
    /\ TypeOK
    /\ \A s \in Session : Shape(s) /\ Knows(s)
    /\ \A s, t \in Session : s # t => Apart(s, t)
    /\ RunsAfterChildren

\* Apart looks from s to t; the other direction follows from a symmetric use.
ApartBoth(s) == \A t \in Session \ {s} : Apart(s, t) /\ Apart(t, s)

\* A statement that commits nothing touches the record of its session only.
LEMMA FrameStep ==
    ASSUME IInv, NEW s \in Session, NEW r \in Transaction,
           tx' = [tx EXCEPT ![s] = r], UNCHANGED <<parent, child>>,
           Shape(s)', Knows(s)', ApartBoth(s)'
    PROVE  IInv'
<1>1. /\ tx \in [Session -> Transaction] /\ tx' \in [Session -> Transaction]
      /\ \A t \in Session \ {s} : tx'[t] = tx[t]
  BY DEF IInv, TypeOK
<1>2. TypeOK'
  BY <1>1 DEF IInv, TypeOK
<1>3. ASSUME NEW t \in Session \ {s}
      PROVE  Shape(t)' /\ Knows(t)'
  BY <1>1 DEF IInv, Shape, Knows, At, OpenRows
<1>4. ASSUME NEW t \in Session, NEW u \in Session, t # u
      PROVE  Apart(t, u)'
  <2>1. CASE t = s \/ u = s
    BY <1>4, <2>1 DEF ApartBoth
  <2>2. CASE t # s /\ u # s
    BY <1>1, <1>4, <2>2 DEF IInv, Apart, ForUpdate, KeyShare, Wrote
  <2> QED
    BY <2>1, <2>2
<1>5. RunsAfterChildren'
  BY DEF IInv, RunsAfterChildren, OpenRows
<1> QED
  BY <1>2, <1>3, <1>4, <1>5 DEF IInv

LEMMA IdleFine ==
    ASSUME IInv, NEW s \in Session, tx' = [tx EXCEPT ![s] = Idle],
           UNCHANGED <<parent, child>>
    PROVE  IInv'
<1>1. Idle \in Transaction
  BY DEF Idle, Transaction, Locking
<1>2. tx'[s] = Idle /\ \A t \in Session \ {s} : tx'[t] = tx[t]
  BY DEF IInv, TypeOK
<1>3. Shape(s)' /\ Knows(s)'
  BY <1>2 DEF Shape, Knows, At, Idle
<1>4. ApartBoth(s)'
  BY <1>2 DEF ApartBoth, Apart, ForUpdate, KeyShare, Wrote, Idle
<1> QED
  BY <1>1, <1>3, <1>4, FrameStep

LEMMA BeginStep ==
    ASSUME IInv, NEW s \in Session, NEW kind \in May[s],
           NEW S \in Targets(kind), Begin(s, kind, S)
    PROVE  IInv'
<1> DEFINE r == [Idle EXCEPT !.kind = kind, !.todo = S,
                             !.pc = IF LocksParent(kind) THEN "lock" ELSE "update"]
<1>1. kind \in Locking \cup Sharing
  BY MayAssumption
<1>2. S \subseteq Child
  BY DEF Targets, OpenRows
<1>3. /\ r \in Transaction
      /\ r.kind = kind /\ r.mine = {} /\ r.told = FALSE /\ r.flip = "none"
      /\ r.pc = IF LocksParent(kind) THEN "lock" ELSE "update"
  BY <1>1, <1>2 DEF Idle, Transaction, Locking, Sharing
<1>4. tx' = [tx EXCEPT ![s] = r] /\ UNCHANGED <<parent, child>>
  BY DEF Begin
<1> HIDE DEF r
<1>5. tx'[s] = r /\ \A t \in Session \ {s} : tx'[t] = tx[t]
  BY <1>4 DEF IInv, TypeOK
<1>6. Shape(s)' /\ Knows(s)'
  BY <1>3, <1>5 DEF Shape, Knows, At, LocksParent, Locking
<1>7. ApartBoth(s)'
  BY <1>3, <1>5 DEF ApartBoth, Apart, ForUpdate, KeyShare, Wrote, LocksParent
<1> QED
  BY <1>3, <1>4, <1>6, <1>7, FrameStep

LEMMA LockParentStep ==
    ASSUME IInv, NEW s \in Session, LockParent(s)
    PROVE  IInv'
<1> DEFINE r == [tx[s] EXCEPT !.pc = "update"]
<1>1. tx[s] \in Transaction /\ At(s, "lock") /\ Shape(s) /\ Knows(s)
  BY DEF IInv, TypeOK, LockParent
<1>2. /\ r \in Transaction
      /\ r.kind = tx[s].kind /\ r.mine = {} /\ r.told = FALSE /\ r.flip = "none"
      /\ r.pc = "update"
  BY <1>1 DEF Transaction, Shape, At
<1>3. tx' = [tx EXCEPT ![s] = r] /\ UNCHANGED <<parent, child>>
  BY DEF LockParent, Go
<1> HIDE DEF r
<1>4. tx'[s] = r /\ \A t \in Session \ {s} : tx'[t] = tx[t]
  BY <1>3 DEF IInv, TypeOK
<1>5. \A t \in Session \ {s} : ~ForUpdate(t) /\ ~KeyShare(t) /\ ~Wrote(t)
  BY <1>1 DEF LockParent, WaitsFor
<1>6. Shape(s)' /\ Knows(s)'
  BY <1>1, <1>2, <1>4 DEF Shape, Knows, At
<1>7. ApartBoth(s)'
  BY <1>2, <1>4, <1>5 DEF ApartBoth, Apart, ForUpdate, KeyShare, Wrote
<1> QED
  BY <1>2, <1>3, <1>6, <1>7, FrameStep

LEMMA UpdateChildStep ==
    ASSUME IInv, NEW s \in Session, NEW c \in Child, UpdateChild(s, c)
    PROVE  IInv'
<1> DEFINE m == IF child[c] = "open" THEN tx[s].mine \cup {c} ELSE tx[s].mine
           r == [tx[s] EXCEPT !.todo = @ \ {c}, !.mine = m]
<1>1. /\ tx[s] \in Transaction /\ At(s, "update") /\ Shape(s) /\ Knows(s)
      /\ tx[s].kind # "add"
  BY DEF IInv, TypeOK, UpdateChild
<1>2. /\ r \in Transaction
      /\ r.kind = tx[s].kind /\ r.mine = m /\ r.told = FALSE /\ r.flip = "none"
      /\ r.pc = "update"
  BY <1>1 DEF Transaction, Shape, At
<1>3. tx' = [tx EXCEPT ![s] = r] /\ UNCHANGED <<parent, child>>
  BY <1>1 DEF UpdateChild, IInv, TypeOK, Transaction
<1> HIDE DEF r
<1>4. tx'[s] = r /\ \A t \in Session \ {s} : tx'[t] = tx[t]
  BY <1>3 DEF IInv, TypeOK
<1>5. \A t \in Session \ {s} : Apart(s, t) /\ Apart(t, s) /\ c \notin tx[t].mine
  BY DEF UpdateChild, IInv
<1>6. Shape(s)' /\ Knows(s)'
  BY <1>1, <1>2, <1>3, <1>4 DEF Shape, Knows, At
<1>7. ApartBoth(s)'
  BY <1>1, <1>2, <1>4, <1>5
     DEF ApartBoth, Apart, ForUpdate, KeyShare, Wrote, At
<1> QED
  BY <1>2, <1>3, <1>6, <1>7, FrameStep

\* A step that moves the program counter of s, and at most says that it told.
LEMMA MoveStep ==
    ASSUME IInv, NEW s \in Session,
           NEW pc \in {"inbox", "resolve", "write", "commit"}, NEW told \in BOOLEAN,
           tx' = [tx EXCEPT ![s] = [tx[s] EXCEPT !.pc = pc, !.told = told]],
           UNCHANGED <<parent, child>>,
           tx[s].pc \in {"update", "inbox", "resolve"}, tx[s].kind # "add",
           tx[s].told => told,
           pc = "inbox" => ~told,
           pc # "inbox" => told \/ parent = "failed",
           told /\ ~tx[s].told => \A t \in Session \ {s} : ~ForUpdate(t),
           pc = "write" /\ tx[s].kind # "fail" => OpenRows \subseteq tx[s].mine
    PROVE  IInv'
<1> DEFINE r == [tx[s] EXCEPT !.pc = pc, !.told = told]
<1>1. tx[s] \in Transaction /\ Shape(s) /\ Knows(s)
  BY DEF IInv, TypeOK
<1>2. /\ r \in Transaction
      /\ r.kind = tx[s].kind /\ r.mine = tx[s].mine /\ r.told = told
      /\ r.flip = "none" /\ r.pc = pc
  BY <1>1 DEF Transaction, Shape, At
<1>3. tx' = [tx EXCEPT ![s] = r]
  OBVIOUS
<1> HIDE DEF r
<1>4. tx'[s] = r /\ \A t \in Session \ {s} : tx'[t] = tx[t]
  BY <1>3 DEF IInv, TypeOK
<1>5. \A t \in Session \ {s} : Apart(s, t) /\ Apart(t, s)
  BY DEF IInv
<1>6. Shape(s)' /\ Knows(s)'
  BY <1>1, <1>2, <1>4 DEF Shape, Knows, At, OpenRows
<1>7. ApartBoth(s)'
  BY <1>1, <1>2, <1>4, <1>5 DEF ApartBoth, Apart, ForUpdate, KeyShare, Wrote
<1> QED
  BY <1>2, <1>3, <1>6, <1>7, FrameStep

LEMMA UpdatedRowsStep ==
    ASSUME IInv, NEW s \in Session, UpdatedRows(s)
    PROVE  IInv'
<1>1. tx[s] \in Transaction /\ At(s, "update") /\ tx[s].kind # "add" /\ Shape(s)
  BY DEF IInv, TypeOK, UpdatedRows
<1>2. CASE tx[s].mine = {}
  BY <1>2, IdleFine DEF UpdatedRows
<1>3. CASE tx[s].mine # {}
  <2>1. tx[s].told = FALSE /\ tx[s].pc = "update"
    BY <1>1 DEF Shape, At, Transaction
  <2>2. tx' = [tx EXCEPT ![s] = [tx[s] EXCEPT !.pc = "inbox", !.told = tx[s].told]]
    BY <1>1, <1>3 DEF UpdatedRows, Go, IInv, TypeOK, Transaction
  <2> QED
    BY <1>1, <2>1, <2>2, MoveStep DEF UpdatedRows
<1> QED
  BY <1>2, <1>3

LEMMA PostChildDoneStep ==
    ASSUME IInv, NEW s \in Session, PostChildDone(s)
    PROVE  IInv'
<1>1. tx[s] \in Transaction /\ tx[s].pc = "inbox" /\ Shape(s)
  BY DEF IInv, TypeOK, PostChildDone, At
<1>2. tx[s].kind # "add" /\ tx[s].told = FALSE
  BY <1>1 DEF Shape, Transaction
<1>3. CASE parent # "failed"
  <2>1. \A t \in Session \ {s} : ~ForUpdate(t)
    BY <1>1, <1>3 DEF PostChildDone, WaitsFor, At
  <2>2. tx' = [tx EXCEPT ![s] = [tx[s] EXCEPT !.pc = "resolve", !.told = TRUE]]
    BY <1>1, <1>3 DEF PostChildDone, IInv, TypeOK, Transaction
  <2> QED
    BY <1>1, <1>2, <2>1, <2>2, MoveStep DEF PostChildDone
<1>4. CASE parent = "failed"
  <2>1. tx' = [tx EXCEPT ![s] = [tx[s] EXCEPT !.pc = "resolve", !.told = tx[s].told]]
    BY <1>1, <1>4 DEF PostChildDone, Go, IInv, TypeOK, Transaction
  <2> QED
    BY <1>1, <1>2, <1>4, <2>1, MoveStep DEF PostChildDone
<1> QED
  BY <1>3, <1>4

LEMMA ResolveParentStep ==
    ASSUME IInv, NEW s \in Session, ResolveParent(s)
    PROVE  IInv'
<1>1. tx[s] \in Transaction /\ tx[s].pc = "resolve" /\ Shape(s) /\ Knows(s)
  BY DEF IInv, TypeOK, ResolveParent, At
<1>2. tx[s].kind # "add" /\ (tx[s].told \/ parent = "failed")
  BY <1>1 DEF Shape, Knows
<1> DEFINE write == \/ tx[s].kind # "fail" /\ Resolvable(s)
                    \/ tx[s].kind = "fail" /\ parent = "waiting-children"
           pc == IF write THEN "write" ELSE "commit"
<1>3. tx' = [tx EXCEPT ![s] = [tx[s] EXCEPT !.pc = pc, !.told = tx[s].told]]
  BY <1>1 DEF ResolveParent, Go, IInv, TypeOK, Transaction
<1>4. pc = "write" /\ tx[s].kind # "fail" => OpenRows \subseteq tx[s].mine
  BY DEF Resolvable
<1>5. pc \in {"write", "commit"} /\ tx[s].told \in BOOLEAN
  BY <1>1 DEF Transaction
<1> HIDE DEF pc
<1> QED
  BY <1>1, <1>2, <1>3, <1>4, <1>5, MoveStep DEF ResolveParent

LEMMA WriteParentStep ==
    ASSUME IInv, NEW s \in Session, WriteParent(s)
    PROVE  IInv'
<1> DEFINE f == IF parent # "waiting-children" THEN "none"
                ELSE IF tx[s].kind = "fail" THEN "failed" ELSE "waiting"
           r == [tx[s] EXCEPT !.pc = "commit", !.flip = f]
<1>1. tx[s] \in Transaction /\ At(s, "write") /\ Shape(s) /\ Knows(s)
  BY DEF IInv, TypeOK, WriteParent
<1>2. tx[s].kind # "add"
  BY <1>1 DEF Shape, At
<1>3. /\ r \in Transaction
      /\ r.kind = tx[s].kind /\ r.mine = tx[s].mine /\ r.told = tx[s].told
      /\ r.flip = f /\ r.pc = "commit"
  BY <1>1 DEF Transaction
<1>4. tx' = [tx EXCEPT ![s] = r] /\ UNCHANGED <<parent, child>>
  BY <1>1 DEF WriteParent, IInv, TypeOK, Transaction
<1> HIDE DEF r
<1>5. tx'[s] = r /\ \A t \in Session \ {s} : tx'[t] = tx[t]
  BY <1>4 DEF IInv, TypeOK
<1>6. \A t \in Session \ {s} : /\ Apart(s, t) /\ Apart(t, s)
                               /\ ~ForUpdate(t) /\ ~Wrote(t)
  BY <1>1 DEF WriteParent, WaitsFor, IInv
<1>7. Shape(s)'
  BY <1>1, <1>2, <1>3, <1>5 DEF Shape, At
<1>8. Knows(s)'
  BY <1>1, <1>2, <1>3, <1>4, <1>5 DEF Knows, At, OpenRows
<1>9. ApartBoth(s)'
  BY <1>1, <1>3, <1>5, <1>6
     DEF ApartBoth, Apart, ForUpdate, KeyShare, Wrote, At
<1> QED
  BY <1>3, <1>4, <1>7, <1>8, <1>9, FrameStep

\* Whoever has written the parent holds a lock that keeps FOR UPDATE out.
LEMMA WroteLocks ==
    ASSUME IInv, NEW s \in Session, Wrote(s)
    PROVE  At(s, "commit") /\ (ForUpdate(s) \/ KeyShare(s))
<1>1. Shape(s) /\ Knows(s) /\ tx[s] \in Transaction
  BY DEF IInv, TypeOK
<1>2. At(s, "commit")
  BY <1>1 DEF Wrote, Shape
<1>3. tx[s].told \/ tx[s].kind = "add"
  BY <1>1, <1>2 DEF Wrote, Shape, Knows, At, Transaction
<1> QED
  BY <1>2, <1>3 DEF ForUpdate, KeyShare, At, LocksParent, Locking

LEMMA InsertChildStep ==
    ASSUME IInv, NEW s \in Session, NEW c \in Child, InsertChild(s, c)
    PROVE  IInv'
<1> DEFINE f == IF parent \in {"waiting", "active"} THEN "waiting-children"
                                                   ELSE "none"
           r == [tx[s] EXCEPT !.pc = "commit", !.mine = {c}, !.flip = f]
<1>1. /\ tx[s] \in Transaction /\ At(s, "update") /\ Shape(s) /\ Knows(s)
      /\ tx[s].kind = "add" /\ child[c] = "none"
  BY DEF IInv, TypeOK, InsertChild
<1>2. /\ r \in Transaction
      /\ r.kind = "add" /\ r.mine = {c} /\ r.told = FALSE
      /\ r.flip = f /\ r.pc = "commit"
  BY <1>1 DEF Transaction, Shape, At
<1>3. tx' = [tx EXCEPT ![s] = r] /\ UNCHANGED <<parent, child>>
  BY <1>1 DEF InsertChild, IInv, TypeOK, Transaction
<1> HIDE DEF r
<1>4. tx'[s] = r /\ \A t \in Session \ {s} : tx'[t] = tx[t]
  BY <1>3 DEF IInv, TypeOK
<1>5. ForUpdate(s)
  BY <1>1 DEF ForUpdate, At, LocksParent, Locking
<1>6. \A t \in Session \ {s} : /\ ~ForUpdate(t) /\ ~KeyShare(t)
                               /\ c \notin tx[t].mine
  BY <1>5 DEF IInv, Apart, InsertChild
<1>7. \A t \in Session \ {s} : ~Wrote(t)
  BY <1>6, WroteLocks
<1>8. Shape(s)' /\ Knows(s)'
  BY <1>1, <1>2, <1>3, <1>4 DEF Shape, Knows, At
<1>9. ApartBoth(s)'
  BY <1>2, <1>4, <1>6, <1>7 DEF ApartBoth, Apart, ForUpdate, KeyShare, Wrote
<1> QED
  BY <1>2, <1>3, <1>8, <1>9, FrameStep

LEMMA CommitStep ==
    ASSUME IInv, NEW s \in Session, Commit(s)
    PROVE  IInv'
<1>1. /\ tx[s] \in Transaction /\ At(s, "commit") /\ Shape(s) /\ Knows(s)
      /\ tx \in [Session -> Transaction] /\ Idle \in Transaction
      /\ child \in [Child -> {"none", "open", "ended"}]
  BY DEF IInv, TypeOK, Commit, Idle, Transaction, Locking
<1>2. tx'[s] = Idle /\ \A t \in Session \ {s} : tx'[t] = tx[t]
  BY <1>1 DEF Commit
<1>3. /\ parent' = IF Wrote(s) THEN tx[s].flip ELSE parent
      /\ child' = [c \in Child |->
                    IF c \notin tx[s].mine THEN child[c]
                    ELSE IF tx[s].kind = "add" THEN "open" ELSE "ended"]
  BY DEF Commit
<1>4. TypeOK'
  BY <1>1, <1>3 DEF IInv, TypeOK, Commit, Wrote, Transaction
<1>5. tx[s].kind # "add" => OpenRows' = OpenRows \ tx[s].mine
  BY <1>1, <1>3 DEF OpenRows
<1>6. Shape(s)' /\ Knows(s)' /\ ApartBoth(s)'
  BY <1>2 DEF Shape, Knows, At, Idle, ApartBoth, Apart, ForUpdate, KeyShare, Wrote
<1>7. ASSUME NEW t \in Session \ {s}
      PROVE  Shape(t)' /\ Knows(t)'
  <2>1. /\ Shape(t) /\ Knows(t) /\ Apart(s, t) /\ Apart(t, s)
        /\ tx'[t] = tx[t] /\ tx[t] \in Transaction
    BY <1>1, <1>2 DEF IInv
  <2>2. Shape(t)'
    BY <2>1 DEF Shape, At
  <2>3. \A c \in tx[t].mine : child'[c] = child[c]
    BY <1>3, <2>1 DEF Apart, Transaction
  <2>4. parent = "failed" => parent' = "failed"
    BY <1>1, <1>3 DEF Knows, Wrote, Transaction
  <2>5. Wrote(t) => parent' = parent
    BY <1>3, <2>1 DEF Apart
  <2>6. ForUpdate(t) => parent' = parent
    BY <1>3, <2>1, WroteLocks DEF Apart
  <2>7. tx[t].kind = "add" /\ At(t, "commit") => ForUpdate(t)
    BY DEF ForUpdate, At, LocksParent, Locking
  <2>8. tx[s].kind = "add" => ForUpdate(s)
    BY <1>1 DEF ForUpdate, At, LocksParent, Locking
  <2>9. ForUpdate(s) => ~ForUpdate(t) /\ ~KeyShare(t)
    BY <2>1 DEF Apart
  <2>10. At(t, "write") /\ tx[t].kind # "fail" /\ parent' = "waiting-children"
           => OpenRows' \subseteq tx[t].mine
    <3> SUFFICES ASSUME At(t, "write"), tx[t].kind # "fail",
                        parent' = "waiting-children"
                 PROVE  OpenRows' \subseteq tx[t].mine
      OBVIOUS
    <3>1. parent # "failed" /\ tx[t].kind # "add"
      BY <2>1, <2>4 DEF Shape, At
    <3>2. KeyShare(t)
      BY <2>1, <3>1 DEF Knows, KeyShare, At
    <3>3. tx[s].kind # "add"
      BY <2>8, <2>9, <3>2
    <3>4. parent = "waiting-children"
      BY <1>1, <1>3, <3>3 DEF Shape, Wrote
    <3> QED
      BY <1>5, <2>1, <3>3, <3>4 DEF Knows
  <2>11. tx[t].flip = "waiting" => OpenRows' \subseteq tx[t].mine
    <3> SUFFICES ASSUME tx[t].flip = "waiting"
                 PROVE  OpenRows' \subseteq tx[t].mine
      OBVIOUS
    <3>1. ForUpdate(t) \/ KeyShare(t)
      BY WroteLocks DEF Wrote
    <3>2. tx[s].kind # "add"
      BY <2>8, <2>9, <3>1
    <3> QED
      BY <1>5, <2>1, <3>2 DEF Knows
  <2>12. Knows(t)'
    BY <2>1, <2>3, <2>4, <2>5, <2>6, <2>7, <2>10, <2>11 DEF Knows, At, Wrote
  <2> QED
    BY <2>2, <2>12
<1>8. \A t, u \in Session : t # u => Apart(t, u)'
  <2>1. ASSUME NEW t \in Session \ {s}, NEW u \in Session \ {s}, t # u
        PROVE  Apart(t, u)'
    BY <1>2, <2>1 DEF IInv, Apart, ForUpdate, KeyShare, Wrote
  <2> QED
    BY <1>6, <2>1 DEF ApartBoth
<1>9. RunsAfterChildren'
  <2> SUFFICES ASSUME parent' \in {"waiting", "active"} PROVE OpenRows' = {}
    BY DEF RunsAfterChildren
  <2>1. CASE Wrote(s)
    <3>1. tx[s].flip = "waiting"
      BY <1>1, <1>3, <2>1 DEF Transaction, Wrote
    <3> QED
      BY <1>1, <1>5, <3>1 DEF Shape, Knows
  <2>2. CASE ~Wrote(s)
    <3>1. tx[s].kind # "add" /\ OpenRows = {}
      BY <1>1, <1>3, <2>2 DEF Knows, Wrote, IInv, RunsAfterChildren
    <3> QED
      BY <1>5, <3>1
  <2> QED
    BY <2>1, <2>2
<1> QED
  BY <1>4, <1>6, <1>7, <1>8, <1>9 DEF IInv

LEMMA ClaimParentStep ==
    ASSUME IInv, claimParent
    PROVE  IInv'
<1>1. /\ parent = "waiting" /\ parent' = "active" /\ UNCHANGED <<child, tx>>
      /\ \A t \in Session : ~ForUpdate(t) /\ ~KeyShare(t) /\ ~Wrote(t)
  BY DEF claimParent
<1>2. TypeOK' /\ RunsAfterChildren'
  BY <1>1 DEF IInv, TypeOK, RunsAfterChildren, OpenRows
<1>3. ASSUME NEW t \in Session
      PROVE  Shape(t)' /\ Knows(t)'
  <2>1. Shape(t) /\ Knows(t)
    BY DEF IInv
  <2>2. ~(tx[t].kind = "add" /\ At(t, "commit"))
    BY <1>1 DEF ForUpdate, At, LocksParent, Locking
  <2> QED
    BY <1>1, <2>1, <2>2 DEF Shape, Knows, At, OpenRows, Wrote
<1>4. \A t, u \in Session : t # u => Apart(t, u)'
  BY <1>1 DEF IInv, Apart, ForUpdate, KeyShare, Wrote
<1> QED
  BY <1>2, <1>3, <1>4 DEF IInv

LEMMA InitInv == Init => IInv
BY DEF Init, IInv, TypeOK, Transaction, Idle, Locking, Shape, Knows, Apart, At,
       ForUpdate, KeyShare, Wrote, RunsAfterChildren, OpenRows

LEMMA NextInv == IInv /\ [Next]_vars => IInv'
<1> SUFFICES ASSUME IInv, [Next]_vars PROVE IInv'
  OBVIOUS
<1>1. ASSUME NEW s \in Session, Statement(s) PROVE IInv'
  BY <1>1, LockParentStep, UpdateChildStep, InsertChildStep, UpdatedRowsStep,
     PostChildDoneStep, ResolveParentStep, WriteParentStep, CommitStep DEF Statement
<1>2. ASSUME NEW s \in Session, Rollback(s) PROVE IInv'
  BY <1>2, IdleFine DEF Rollback
<1>3. CASE UNCHANGED vars
  BY <1>3 DEF vars, IInv, TypeOK, Shape, Knows, Apart, At, ForUpdate, KeyShare,
              Wrote, RunsAfterChildren, OpenRows
<1> QED
  BY <1>1, <1>2, <1>3, BeginStep, ClaimParentStep DEF Next

\* The parent a worker may claim, or runs, has no open child, whoever ends and
\* adds children at the same time: the FOR UPDATE of add and the FOR KEY SHARE
\* left by child_done exclude each other, with any number of connections.
THEOREM RunsAfterChildrenHolds == Spec => []RunsAfterChildren
<1>1. IInv => RunsAfterChildren
  BY DEF IInv
<1> QED
  BY <1>1, InitInv, NextInv, PTL DEF Spec
--------------------------------------------------------------------------------
(* NotStranded takes one thing more: no two sessions that end children      *)
(* without locking the parent first.                                        *)

OneSharer ==
    \A s, t \in Session :
        May[s] \cap Sharing # {} /\ May[t] \cap Sharing # {} => s = t

\* A transaction about to commit has left the parent something to wait for, or
\* has resolved it.
Decided(s) ==
    /\ At(s, "idle") \/ tx[s].kind \in May[s]
    /\ /\ At(s, "commit")
       /\ tx[s].kind # "add"
       /\ tx[s].flip = "none"
       /\ parent = "waiting-children"
       => ~(OpenRows \subseteq tx[s].mine)

SInv == IInv /\ NotStranded /\ \A s \in Session : Decided(s)

\* At most one session holds a lock on the parent that matters.
LEMMA OneHolder ==
    ASSUME OneSharer, SInv, NEW s \in Session, NEW t \in Session, s # t,
           ForUpdate(s) \/ KeyShare(s), ForUpdate(t) \/ KeyShare(t)
    PROVE  FALSE
<1>1. Apart(s, t) /\ Apart(t, s) /\ Decided(s) /\ Decided(t) /\ Shape(s) /\ Shape(t)
  BY DEF SInv, IInv
<1>2. KeyShare(s) /\ KeyShare(t) /\ ~ForUpdate(s) /\ ~ForUpdate(t)
  BY <1>1 DEF Apart
<1>3. /\ tx[s].pc \in {"resolve", "write", "commit"}
      /\ tx[t].pc \in {"resolve", "write", "commit"}
      /\ tx[s] \in Transaction /\ tx[t] \in Transaction
  BY <1>1, <1>2 DEF Shape, KeyShare, SInv, IInv, TypeOK, Transaction
<1>4. tx[s].kind \in Sharing /\ tx[t].kind \in Sharing
  BY <1>2, <1>3 DEF ForUpdate, LocksParent, Transaction
<1>5. tx[s].kind \in May[s] /\ tx[t].kind \in May[t]
  BY <1>1, <1>3 DEF Decided, At
<1> QED
  BY <1>4, <1>5 DEF OneSharer

\* While the parent waits, a transaction in its last statements holds it.
LEMMA LateHolds ==
    ASSUME SInv, NEW s \in Session, parent # "failed",
           tx[s].pc \in {"resolve", "write", "commit"}
    PROVE  ForUpdate(s) \/ KeyShare(s)
<1>1. Knows(s)
  BY DEF SInv, IInv
<1> QED
  BY <1>1 DEF Knows, ForUpdate, KeyShare, LocksParent, Locking

LEMMA DecidedStatement ==
    ASSUME SInv, NEW s \in Session,
           LockParent(s) \/ (\E c \in Child : UpdateChild(s, c) \/ InsertChild(s, c))
             \/ UpdatedRows(s) \/ PostChildDone(s) \/ ResolveParent(s)
             \/ WriteParent(s) \/ Rollback(s)
    PROVE  NotStranded' /\ \A t \in Session : Decided(t)'
<1>1. /\ UNCHANGED <<parent, child>>
      /\ \A t \in Session \ {s} : tx'[t] = tx[t]
      /\ tx \in [Session -> Transaction] /\ tx[s] \in Transaction
      /\ Shape(s) /\ Knows(s) /\ Decided(s)
  BY DEF SInv, IInv, TypeOK, LockParent, UpdateChild, InsertChild, UpdatedRows,
         PostChildDone, ResolveParent, WriteParent, Rollback, Go
<1>2. NotStranded' /\ OpenRows' = OpenRows
  BY <1>1 DEF SInv, NotStranded, OpenRows
<1>3. \A t \in Session \ {s} : Decided(t)'
  BY <1>1, <1>2 DEF SInv, Decided, At
<1>4. Decided(s)'
  <2>1. CASE LockParent(s)
    BY <1>1, <2>1 DEF LockParent, Go, Decided, At, Transaction
  <2>2. CASE \E c \in Child : UpdateChild(s, c) \/ InsertChild(s, c)
    <3>1. PICK c \in Child : UpdateChild(s, c) \/ InsertChild(s, c)
      BY <2>2
    <3>2. CASE UpdateChild(s, c)
      <4>1. tx'[s].pc = tx[s].pc /\ tx'[s].kind = tx[s].kind /\ At(s, "update")
        BY <1>1, <3>2 DEF UpdateChild, At, Transaction
      <4> QED
        BY <1>1, <4>1 DEF Decided, At
    <3>3. CASE InsertChild(s, c)
      <4>1. tx'[s].kind = "add" /\ tx[s].kind = "add" /\ At(s, "update")
        BY <1>1, <3>3 DEF InsertChild, At, Transaction
      <4> QED
        BY <1>1, <4>1 DEF Decided, At
    <3> QED
      BY <3>1, <3>2, <3>3
  <2>3. CASE UpdatedRows(s)
    BY <1>1, <2>3 DEF UpdatedRows, Go, Decided, At, Transaction, Idle
  <2>4. CASE PostChildDone(s)
    BY <1>1, <2>4 DEF PostChildDone, Go, Decided, At, Transaction
  <2>5. CASE ResolveParent(s)
    BY <1>1, <1>2, <2>5
       DEF ResolveParent, Resolvable, Go, Decided, At, Transaction
  <2>6. CASE WriteParent(s)
    <3>1. tx'[s].kind = tx[s].kind /\ tx'[s].mine = tx[s].mine
          /\ (parent = "waiting-children" => tx'[s].flip # "none")
          /\ At(s, "write")
      BY <1>1, <2>6 DEF WriteParent, Transaction
    <3> QED
      BY <1>1, <3>1 DEF Decided, At
  <2>7. CASE Rollback(s)
    BY <1>1, <2>7 DEF Rollback, Decided, At, Idle
  <2> QED
    BY <2>1, <2>2, <2>3, <2>4, <2>5, <2>6, <2>7
<1> QED
  BY <1>2, <1>3, <1>4

LEMMA DecidedCommit ==
    ASSUME OneSharer, SInv, NEW s \in Session, Commit(s)
    PROVE  NotStranded' /\ \A t \in Session : Decided(t)'
<1>1. /\ tx[s] \in Transaction /\ At(s, "commit")
      /\ Shape(s) /\ Knows(s) /\ Decided(s)
      /\ tx \in [Session -> Transaction]
      /\ child \in [Child -> {"none", "open", "ended"}]
  BY DEF SInv, IInv, TypeOK, Commit
<1>2. tx'[s] = Idle /\ \A t \in Session \ {s} : tx'[t] = tx[t]
  BY <1>1 DEF Commit
<1>3. /\ parent' = IF Wrote(s) THEN tx[s].flip ELSE parent
      /\ child' = [c \in Child |->
                    IF c \notin tx[s].mine THEN child[c]
                    ELSE IF tx[s].kind = "add" THEN "open" ELSE "ended"]
  BY DEF Commit
<1>4. NotStranded'
  <2> SUFFICES ASSUME parent' = "waiting-children" PROVE OpenRows' # {}
    BY DEF NotStranded
  <2>1. CASE tx[s].kind = "add"
    <3>1. PICK c \in tx[s].mine : TRUE
      BY <1>1, <2>1 DEF Knows
    <3>2. c \in OpenRows'
      BY <1>1, <1>3, <2>1, <3>1 DEF OpenRows, Transaction
    <3> QED
      BY <3>2
  <2>2. CASE tx[s].kind # "add"
    <3>1. tx[s].flip = "none" /\ parent = "waiting-children"
      BY <1>1, <1>3, <2>2 DEF Shape, Wrote
    <3>2. PICK c \in OpenRows : c \notin tx[s].mine
      BY <1>1, <2>2, <3>1 DEF Decided
    <3>3. c \in OpenRows'
      BY <1>3, <3>2 DEF OpenRows
    <3> QED
      BY <3>3
  <2> QED
    BY <2>1, <2>2
<1>5. ASSUME NEW t \in Session \ {s}
      PROVE  Decided(t)'
  <2> SUFFICES ASSUME At(t, "commit"), tx[t].kind # "add", tx[t].flip = "none",
                      parent' = "waiting-children"
               PROVE  FALSE
    BY <1>2 DEF SInv, Decided, At
  <2>1. parent # "failed"
    BY <1>1, <1>3 DEF Knows, Wrote, Transaction
  <2>2. ForUpdate(s) \/ KeyShare(s)
    BY <1>1, <2>1, LateHolds DEF At
  <2>3. ForUpdate(t) \/ KeyShare(t)
    BY <2>1, LateHolds DEF At
  <2> QED
    BY <2>2, <2>3, OneHolder
<1>6. Decided(s)'
  BY <1>2 DEF Decided, At, Idle
<1> QED
  BY <1>4, <1>5, <1>6

LEMMA StrandInit == Init => SInv
<1> SUFFICES ASSUME Init PROVE SInv
  OBVIOUS
<1>1. IInv
  BY InitInv
<1>2. NotStranded /\ \A s \in Session : Decided(s)
  BY DEF Init, NotStranded, Decided, At, Idle
<1> QED
  BY <1>1, <1>2 DEF SInv

LEMMA StrandNext ==
    ASSUME OneSharer, SInv, [Next]_vars
    PROVE  SInv'
<1>1. IInv'
  BY NextInv DEF SInv
<1>2. NotStranded' /\ \A t \in Session : Decided(t)'
  <2>1. ASSUME NEW s \in Session, Statement(s)
        PROVE  NotStranded' /\ \A t \in Session : Decided(t)'
    BY <2>1, DecidedStatement, DecidedCommit DEF Statement
  <2>2. ASSUME NEW s \in Session, Rollback(s)
        PROVE  NotStranded' /\ \A t \in Session : Decided(t)'
    BY <2>2, DecidedStatement
  <2>3. ASSUME NEW s \in Session, NEW kind \in May[s], NEW S \in Targets(kind),
               Begin(s, kind, S)
        PROVE  NotStranded' /\ \A t \in Session : Decided(t)'
    <3>1. /\ \A t \in Session \ {s} : tx'[t] = tx[t]
          /\ tx'[s].kind = kind /\ tx'[s].pc # "commit"
          /\ UNCHANGED <<parent, child>>
      BY <2>3 DEF Begin, Idle, SInv, IInv, TypeOK
    <3> QED
      BY <3>1 DEF SInv, NotStranded, Decided, At, OpenRows
  <2>4. CASE claimParent
    BY <2>4 DEF claimParent, SInv, NotStranded, Decided, At
  <2>5. CASE UNCHANGED vars
    BY <2>5 DEF vars, SInv, NotStranded, Decided, At, OpenRows
  <2> QED
    BY <2>1, <2>2, <2>3, <2>4, <2>5 DEF Next
<1> QED
  BY <1>1, <1>2 DEF SInv

\* A parent in waiting-children always has an open child, with any number of
\* workers that complete, fail and add children, as long as the transactions
\* that do not lock it first, cancelJob and the timeout sweeps, come from one
\* connection.  Two of those together can strand it.
THEOREM NotStrandedHolds == OneSharer => (Spec => []NotStranded)
<1> SUFFICES ASSUME OneSharer PROVE Spec => []NotStranded
  OBVIOUS
<1>1. SInv /\ [Next]_vars => SInv'
  BY StrandNext
<1>2. SInv => NotStranded
  BY DEF SInv
<1> QED
  BY <1>1, <1>2, StrandInit, PTL DEF Spec
--------------------------------------------------------------------------------
(* Parent before child is a lock order.                                     *)

\* Whoever is waited for has the parent locked.
LEMMA WaitsForHolder ==
    ASSUME IInv, NEW s \in Session, NEW t \in WaitsFor(s), tx[t].kind \in Locking
    PROVE  ForUpdate(t)
<1>1. /\ t \in Session /\ Shape(t) /\ tx[t] \in Transaction
  BY DEF WaitsFor, IInv, TypeOK
<1>2. ForUpdate(t) \/ KeyShare(t) \/ Wrote(t) \/ tx[t].mine # {}
  BY DEF WaitsFor
<1>3. tx[t].pc \notin {"idle", "lock"}
  BY <1>1, <1>2 DEF Shape, ForUpdate, KeyShare, Wrote, At
<1> QED
  BY <1>1, <1>3 DEF ForUpdate, LocksParent, Transaction

\* The transactions that complete, fail and add never wait in a circle, whatever
\* else goes on: the parent is locked before the child, by one of them at a time.
THEOREM NoLockCycleHolds == Spec => []NoLockCycle
<1>1. IInv => NoLockCycle
  <2> SUFFICES ASSUME IInv, NEW S \in SUBSET {s \in Session : tx[s].kind \in Locking},
                      S # {}, \A s \in S : WaitsFor(s) \cap S # {}
               PROVE  FALSE
    BY DEF NoLockCycle
  <2>1. PICK s \in S : TRUE
    OBVIOUS
  <2>2. PICK t \in S : t \in WaitsFor(s)
    BY <2>1
  <2>3. PICK u \in S : u \in WaitsFor(t)
    BY <2>2
  <2>4. ForUpdate(t) /\ ForUpdate(u)
    BY <2>1, <2>2, <2>3, WaitsForHolder
  <2>5. t # u
    BY <2>3 DEF WaitsFor
  <2> QED
    BY <2>4, <2>5 DEF IInv, Apart
<1> QED
  BY <1>1, InitInv, NextInv, PTL DEF Spec
================================================================================
