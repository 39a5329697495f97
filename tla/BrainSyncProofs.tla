---------------------------- MODULE BrainSyncProofs ----------------------------
(***************************************************************************)
(* Sync, import and the maintenance cycle, for any agents, processes,      *)
(* repository and bounds: the two locks are the mutual exclusion of Mutex, *)
(* a source's bookmark never goes back and tells the truth, and no page    *)
(* that an extraction was to look at is left without its links.            *)
(***************************************************************************)
EXTENDS BrainSync, FiniteSetTheorems, TLAPS

\* The locals of a run.
Fields == {"pc", "req", "head", "stamp", "drop", "del", "ren", "again", "imp", "walk", "total", "start",
           "processed", "threw", "failed", "drifted", "seen", "wrote", "affected", "outcome", "missed"}

Shaped ==
    /\ DOMAIN agent = Agent
    /\ \A a \in Agent : DOMAIN agent[a] = Fields

\* Only runImport outside performSync walks without the lock, and only cycles have phases.
Placed(a) ==
    /\ agent[a].pc \in Syncing \union {"idle", "phases", "extract", "release"}
    /\ agent[a].outcome = "import" => agent[a].pc = "walk" /\ a \notin Cyclers
    /\ agent[a].pc \in {"phases", "extract", "release"} => a \in Cyclers

\* Who is inside is alone there, and the row has not expired.
Guarded == \A i \in LockId : \A a \in Inside[i] : lock_row[i].live /\ Inside[i] = {a}

LocksInv == Shaped /\ LockTypeOK /\ (\A a \in Agent : Placed(a)) /\ Guarded

\* A run that has captured HEAD keeps to it.
Captured(a) == InSync(a) /\ agent[a].pc # "plan"
HeadsStand == \A a \in Agent : Captured(a)' => Captured(a) /\ agent'[a].head = agent[a].head

\* A step of one run from one statement of performSync to another, with h for its HEAD.
Onward(a, h) ==
    /\ Shaped'
    /\ \A b \in Agent \ {a} : /\ agent'[b].pc = agent[b].pc /\ agent'[b].outcome = agent[b].outcome
                              /\ agent'[b].head = agent[b].head
    /\ agent'[a].pc \in Syncing /\ agent'[a].outcome # "import" /\ agent'[a].head = h
    /\ UNCHANGED lock_row

LEMMA LockIds == LockId = {"gbrain-sync", "gbrain-cycle"}
  BY SyncAssumption

\* Who is inside depends on where the runs are, and on nothing else.
LEMMA SameInside ==
    ASSUME \A b \in Agent : (InSync(b) <=> InSync(b)') /\ (InCycle(b) <=> InCycle(b)')
    PROVE  Inside' = Inside
  BY DEF Inside

LEMMA OnwardKeeps ==
    ASSUME LocksInv, NEW a \in Agent, InSync(a), NEW h, Onward(a, h)
    PROVE  /\ LocksInv' /\ UNCHANGED Inside
           /\ agent[a].pc # "plan" /\ h = agent[a].head => HeadsStand
  <1>1. \A b \in Agent : (InSync(b) <=> InSync(b)') /\ (InCycle(b) <=> InCycle(b)')
    BY DEF Onward, InSync, InCycle, Syncing
  <1>2. Inside' = Inside
    BY <1>1, SameInside
  <1>3. \A b \in Agent : Placed(b)'
    BY DEF Onward, LocksInv, Placed, Syncing
  <1>4. Guarded' /\ LockTypeOK'
    BY <1>2 DEF Guarded, LocksInv, Onward, LockTypeOK
  <1>5. ASSUME agent[a].pc # "plan", h = agent[a].head
        PROVE  HeadsStand
    BY <1>1, <1>5 DEF HeadsStand, Captured, Onward
  <1> QED  BY <1>2, <1>3, <1>4, <1>5 DEF LocksInv, Onward

\* A record that leaves its run at a statement of performSync.
GoesOn(rec, h) ==
    DOMAIN rec = Fields /\ rec.pc \in Syncing /\ rec.outcome # "import" /\ rec.head = h

\* A step of one run, which may take pages from those that others answer for.
StepTo(a, rec) == Set(a, rec) \/ \E written : Wrote(a, written, rec)
Shared == {"seen", "wrote"}

LEMMA OthersKeep ==
    ASSUME Shaped, NEW a \in Agent, NEW rec, StepTo(a, rec)
    PROVE  /\ DOMAIN agent' = Agent /\ agent'[a] = rec
           /\ \A b \in Agent \ {a} : /\ DOMAIN agent'[b] = Fields
                                     /\ \A f \in Fields \ Shared : agent'[b][f] = agent[b][f]
  <1>1. CASE Set(a, rec)
    BY <1>1 DEF Shaped, Set
  <1>2. CASE \E written : Wrote(a, written, rec)
    BY <1>2 DEF Shaped, Wrote, Shared
  <1> QED  BY <1>1, <1>2 DEF StepTo

LEMMA SetOnward ==
    ASSUME LocksInv, NEW a \in Agent, NEW rec, NEW h, StepTo(a, rec), GoesOn(rec, h), UNCHANGED lock_row
    PROVE  Onward(a, h)
  <1>1. \A f \in {"pc", "outcome", "head"} : f \in Fields \ Shared
    BY DEF Fields, Shared
  <1> QED  BY <1>1, OthersKeep DEF LocksInv, Shaped, Onward, GoesOn

\* A run that stands at a statement of performSync is inside, unless it is walking for an import.
LEMMA AtStatement ==
    ASSUME LocksInv, NEW a \in Agent, agent[a].pc \in Syncing \ {"walk"}
    PROVE  InSync(a) /\ GoesOn(agent[a], agent[a].head)
  BY DEF LocksInv, Placed, InSync, Shaped, GoesOn

-----------------------------------------------------------------------------
(* Inside performSync.                                                     *)

LEMMA FullSyncGoesOn ==
    ASSUME NEW rec, DOMAIN rec = Fields, rec.head = HEAD
    PROVE  GoesOn(FullSync(rec), HEAD)
  <1>1. GoesOn(Walking(rec), HEAD)
    BY DEF Walking, GoesOn, Syncing, Fields
  <1>2. CASE ~rec.req.dry
    BY <1>1, <1>2 DEF FullSync
  <1>3. CASE rec.req.dry
    BY <1>3 DEF FullSync, GoesOn, Syncing, Fields
  <1> QED  BY <1>2, <1>3

LEMMA ManifestGoesOn ==
    ASSUME NEW rec, DOMAIN rec = Fields, NEW old, NEW R
    PROVE  GoesOn(Manifest(rec, old, R), rec.head)
  BY DEF Manifest, GoesOn, Syncing, Fields

LEMMA PlanCaptures ==
    ASSUME LocksInv, NEW a \in Agent, Plan(a)
    PROVE  InSync(a) /\ Onward(a, HEAD)
  <1> DEFINE me == [agent[a] EXCEPT !.head = HEAD]
  <1>1. InSync(a) /\ GoesOn(agent[a], agent[a].head)
    BY AtStatement DEF Plan, Syncing
  <1>2. DOMAIN me = Fields /\ me.head = HEAD
    BY <1>1 DEF GoesOn, Fields
  <1>3. DOMAIN [me EXCEPT !.stamp = TRUE] = Fields /\ [me EXCEPT !.stamp = TRUE].head = HEAD
    BY <1>2
  <1>4. GoesOn([me EXCEPT !.pc = "leave", !.outcome = "up_to_date"], HEAD)
    BY <1>2 DEF GoesOn, Syncing, Fields
  <1>5. \E rec : Set(a, rec) /\ GoesOn(rec, HEAD)
    <2>1. GoesOn(FullSync(me), HEAD) /\ GoesOn(FullSync([me EXCEPT !.stamp = TRUE]), HEAD)
      BY <1>2, <1>3, FullSyncGoesOn
    <2>2. \A old, R : GoesOn(Manifest(me, old, R), HEAD)
      BY <1>2, ManifestGoesOn
    <2> QED  BY <1>4, <2>1, <2>2 DEF Plan
  <1>6. UNCHANGED lock_row
    BY DEF Plan
  <1> QED  BY <1>1, <1>5, <1>6, SetOnward DEF StepTo

LEMMA JudgeGoesOn ==
    ASSUME NEW a \in Agent, NEW me, NEW h, GoesOn(me, h), Judge(a, me)
    PROVE  \E rec : Set(a, rec) /\ GoesOn(rec, h)
  <1>1. GoesOn([me EXCEPT !.pc = "advance"], h)
    BY DEF GoesOn, Syncing, Fields
  <1>2. GoesOn([me EXCEPT !.pc = IF me.stamp THEN "stamp" ELSE "leave",
                         !.outcome = IF @ = "full" THEN "full_blocked" ELSE "blocked"], h)
    BY DEF GoesOn, Syncing, Fields
  <1> QED  BY <1>1, <1>2 DEF Judge

LEMMA ImportGoesOn ==
    ASSUME NEW a \in Agent, NEW p, NEW me, DOMAIN me = Fields, Import(a, p, me)
    PROVE  \E rec : /\ StepTo(a, rec) /\ DOMAIN rec = Fields
                    /\ rec.pc = me.pc /\ rec.outcome = me.outcome /\ rec.head = me.head
  <1> DEFINE r == [me EXCEPT !.seen = @ \union {p}]
             w == [r EXCEPT !.wrote = @ \union {p}, !.affected = @ \union {p}]
  <1>1. /\ DOMAIN r = Fields /\ r.pc = me.pc /\ r.outcome = me.outcome /\ r.head = me.head
        /\ DOMAIN w = Fields /\ w.pc = me.pc /\ w.outcome = me.outcome /\ w.head = me.head
    BY DEF Fields
  <1>2. Set(a, r) \/ Wrote(a, {p}, w)
    BY DEF Import
  <1> HIDE DEF r, w
  <1> QED  BY <1>1, <1>2 DEF StepTo

LEMMA NoLongerGoesOn ==
    ASSUME NEW a \in Agent, NEW gone, NEW me, DOMAIN me = Fields, NoLonger(a, gone, me)
    PROVE  \E rec : /\ StepTo(a, rec) /\ DOMAIN rec = Fields
                    /\ rec.pc = me.pc /\ rec.outcome = me.outcome /\ rec.head = me.head
  <1> DEFINE r == [me EXCEPT !.seen = @ \union gone, !.wrote = @ \union gone]
  <1>1. DOMAIN r = Fields /\ r.pc = me.pc /\ r.outcome = me.outcome /\ r.head = me.head
    BY DEF Fields
  <1>2. Wrote(a, gone, r)
    BY DEF NoLonger
  <1> HIDE DEF r
  <1> QED  BY <1>1, <1>2 DEF StepTo

\* The statements of the incremental path, file by file.
LEMMA FilesKeep ==
    ASSUME LocksInv, NEW a \in Agent,
           DropUnsyncable(a) \/ Decide(a) \/ Delete(a) \/ Rename(a) \/ Reimport(a) \/ ImportOne(a)
    PROVE  /\ LocksInv' /\ UNCHANGED Inside /\ HeadsStand
           /\ agent'[a].pc \in {agent[a].pc, "leave", "apply", "advance"}
  <1> DEFINE Goes == \E rec : /\ StepTo(a, rec) /\ GoesOn(rec, agent[a].head)
                              /\ rec.pc \in {agent[a].pc, "leave", "apply", "advance"}
  <1>1. InSync(a) /\ agent[a].pc # "plan" /\ GoesOn(agent[a], agent[a].head)
    BY AtStatement DEF DropUnsyncable, Decide, Delete, Rename, Reimport, ImportOne, Syncing
  <1>2. \A me, p : /\ DOMAIN me = Fields /\ me.pc = agent[a].pc /\ me.outcome = agent[a].outcome /\ me.head = agent[a].head
                   /\ Import(a, p, me) \/ NoLonger(a, p, me)
                  => Goes
    BY <1>1, ImportGoesOn, NoLongerGoesOn DEF GoesOn
  <1>3. \A rec : /\ DOMAIN rec = Fields /\ rec.pc \in {agent[a].pc, "leave", "apply", "advance"}
                 /\ rec.outcome \in {agent[a].outcome, "dry", "thrown"} /\ rec.head = agent[a].head
                 /\ Set(a, rec) \/ \E written : Wrote(a, written, rec)
                => Goes
    BY <1>1 DEF GoesOn, StepTo, Syncing
  <1>4. Goes
    <2> USE <1>1 DEF GoesOn, Fields
    <2> HIDE DEF Goes
    <2>1. CASE DropUnsyncable(a)
      <3>1. PICK p \in agent[a].drop :
              LET rest == [agent[a] EXCEPT !.drop = @ \ {p}] IN NoLonger(a, {p}, rest) \/ Set(a, rest)
        BY <2>1 DEF DropUnsyncable
      <3> QED  BY <1>2, <1>3, <3>1
    <2>2. CASE Decide(a)
      BY <1>3, <2>2 DEF Decide
    <2>3. CASE Delete(a)
      <3>1. PICK p \in agent[a].del :
              \/ NoLonger(a, {p}, [agent[a] EXCEPT !.del = @ \ {p}, !.affected = @ \union {p}])
              \/ Set(a, Thrown(agent[a]))
        BY <2>3 DEF Delete
      <3> QED  BY <1>2, <1>3, <3>1 DEF Thrown
    <2>4. CASE Rename(a)
      <3>1. PICK x \in agent[a].ren :
              LET me == [agent[a] EXCEPT !.ren = @ \ {x}, !.again = {x[2]}] IN
              \/ Wrote(a, {x[1], x[2]}, [me EXCEPT !.seen = (@ \union {x[1]}) \ {x[2]}, !.wrote = @ \union {x[1], x[2]}])
              \/ Set(a, me)
        BY <2>4 DEF Rename
      <3> QED  BY <1>3, <3>1
    <2>5. CASE Reimport(a)
      <3>1. PICK p \in agent[a].again :
              LET me == [agent[a] EXCEPT !.again = {}, !.affected = @ \union {p}] IN
              Import(a, p, me) \/ Set(a, me) \/ Set(a, Thrown(me))
        BY <2>5 DEF Reimport
      <3> QED  BY <1>2, <1>3, <3>1 DEF Thrown
    <2>6. CASE ImportOne(a)
      <3>1. PICK p \in agent[a].imp :
              LET rest == [agent[a] EXCEPT !.imp = @ \ {p}] IN
              \/ Import(a, p, rest)
              \/ \E more : Set(a, [rest EXCEPT !.failed = @ \union more])
        BY <2>6 DEF ImportOne
      <3> QED  BY <1>2, <1>3, <3>1
    <2> QED  BY <2>1, <2>2, <2>3, <2>4, <2>5, <2>6
  <1>5. UNCHANGED lock_row
    BY DEF DropUnsyncable, Decide, Delete, Rename, Reimport, ImportOne
  <1>6. Onward(a, agent[a].head)
    BY <1>4, <1>5, SetOnward
  <1>7. agent'[a].pc \in {agent[a].pc, "leave", "apply", "advance"}
    BY <1>4, OthersKeep DEF LocksInv
  <1> QED  BY <1>1, <1>6, <1>7, OnwardKeeps

LEMMA EndOfSyncKeeps ==
    ASSUME LocksInv, NEW a \in Agent,
           Gate(a) \/ Advance(a) \/ writeChunkerVersion(a) \/ Inline(a) \/ WalkGate(a)
    PROVE  LocksInv' /\ UNCHANGED Inside /\ HeadsStand
  <1>1. InSync(a) /\ agent[a].pc # "plan" /\ GoesOn(agent[a], agent[a].head)
    BY AtStatement DEF Gate, Advance, writeChunkerVersion, Inline, WalkGate, Syncing
  <1>2. DOMAIN agent = Agent /\ \A b \in Agent : DOMAIN agent[b] = Fields
    BY DEF LocksInv, Shaped
  <1>3. CASE Gate(a) \/ WalkGate(a)
    <2> DEFINE me == [agent[a] EXCEPT !.drifted = HEAD # agent[a].head,
                         !.failed = IF HEAD # agent[a].head THEN @ \union {[path |-> 0, why |-> "drift"]} ELSE @]
    <2>1. GoesOn(me, agent[a].head)
      BY <1>1 DEF GoesOn, Fields
    <2>2. \E rec : Set(a, rec) /\ GoesOn(rec, agent[a].head)
      BY <1>1, <1>3, <2>1, JudgeGoesOn DEF Gate, WalkGate
    <2>3. UNCHANGED lock_row
      BY <1>3 DEF Gate, WalkGate
    <2>4. Onward(a, agent[a].head)
      BY <2>2, <2>3, SetOnward DEF StepTo
    <2> QED  BY <1>1, <2>4, OnwardKeeps
  <1>4. CASE Advance(a) \/ writeChunkerVersion(a) \/ Inline(a)
    <2>1. Onward(a, agent[a].head)
      <3> USE <1>1, <1>2 DEF Onward, Shaped, Set, GoesOn, Syncing, Fields
      <3>1. CASE Advance(a)
        BY <3>1 DEF Advance
      <3>2. CASE writeChunkerVersion(a)
        BY <3>2 DEF writeChunkerVersion, GoTo
      <3>3. CASE Inline(a)
        BY <3>3 DEF Inline, Extract
      <3> QED  BY <1>4, <3>1, <3>2, <3>3
    <2> QED  BY <1>1, <2>1, OnwardKeeps
  <1> QED  BY <1>3, <1>4

\* Files of a walk, for a sync or for an import.
LEMMA WalkOneKeeps ==
    ASSUME LocksInv, NEW a \in Agent, WalkOne(a)
    PROVE  LocksInv' /\ UNCHANGED Inside /\ HeadsStand
  <1>1. \E rec : /\ StepTo(a, rec) /\ DOMAIN rec = Fields
                 /\ rec.pc = agent[a].pc /\ rec.outcome = agent[a].outcome /\ rec.head = agent[a].head
    <2> DEFINE rest(p) == [agent[a] EXCEPT !.walk = @ \ {p}, !.processed = @ + 1]
    <2>1. PICK p \in agent[a].walk :
            \/ Import(a, p, rest(p))
            \/ \E more, b : Set(a, [rest(p) EXCEPT !.failed = @ \union more, !.threw = b])
      BY DEF WalkOne
    <2>2. /\ DOMAIN rest(p) = Fields /\ rest(p).pc = agent[a].pc
          /\ rest(p).outcome = agent[a].outcome /\ rest(p).head = agent[a].head
      BY DEF LocksInv, Shaped, Fields
    <2>3. CASE Import(a, p, rest(p))
      <3> HIDE DEF rest
      <3> QED  BY <2>2, <2>3, ImportGoesOn
    <2>4. ASSUME NEW more, NEW b, Set(a, [rest(p) EXCEPT !.failed = @ \union more, !.threw = b])
          PROVE  \E rec : /\ StepTo(a, rec) /\ DOMAIN rec = Fields
                          /\ rec.pc = agent[a].pc /\ rec.outcome = agent[a].outcome /\ rec.head = agent[a].head
      <3> DEFINE rec == [rest(p) EXCEPT !.failed = @ \union more, !.threw = b]
      <3>1. DOMAIN rec = Fields /\ rec.pc = agent[a].pc /\ rec.outcome = agent[a].outcome /\ rec.head = agent[a].head
        <4> HIDE DEF rest
        <4> QED  BY <2>2 DEF Fields
      <3> HIDE DEF rec
      <3> QED  BY <2>4, <3>1 DEF StepTo, rec
    <2> QED  BY <2>1, <2>3, <2>4
  <1>2. Shaped' /\ \A b \in Agent : /\ agent'[b].pc = agent[b].pc /\ agent'[b].outcome = agent[b].outcome
                              /\ agent'[b].head = agent[b].head
    <2>1. \A f \in {"pc", "outcome", "head"} : f \in Fields \ Shared
      BY DEF Fields, Shared
    <2> QED  BY <1>1, <2>1, OthersKeep DEF LocksInv, Shaped
  <1>3. UNCHANGED lock_row
    BY DEF WalkOne
  <1>4. Inside' = Inside
    BY <1>2, SameInside DEF InSync, InCycle
  <1>5. \A b \in Agent : Placed(b)'
    BY <1>2 DEF LocksInv, Placed
  <1>6. Guarded' /\ LockTypeOK'
    BY <1>3, <1>4 DEF LocksInv, Guarded, LockTypeOK
  <1>7. HeadsStand
    BY <1>2 DEF HeadsStand, Captured, InSync
  <1> QED  BY <1>2, <1>4, <1>5, <1>6, <1>7 DEF LocksInv

-----------------------------------------------------------------------------
(* Entering and leaving.                                                   *)

Insider(i, a) == IF i = "gbrain-sync" THEN InSync(a) ELSE InCycle(a)

LEMMA InsideType == Inside = [i \in LockId |-> {a \in Agent : Insider(i, a)}]
  BY DEF Inside, Insider

LEMMA Enters ==
    ASSUME LocksInv, NEW a \in Agent, NEW i \in LockId, tryAcquireDbLock(i, a),
           Shaped', \A b \in Agent : Placed(b)',
           \A j \in LockId : \A b \in Agent : Insider(j, b)' <=> Insider(j, b) \/ (j = i /\ b = a)
    PROVE  LocksInv' /\ Exclusion!Enter(i, a)
  <1>1. Inside[i] = {}
    BY DEF LocksInv, Guarded, tryAcquireDbLock, Free
  <1>2. Inside' = [Inside EXCEPT ![i] = {a}]
    <2>1. Inside' = [j \in LockId |-> {b \in Agent : Insider(j, b)'}]
      BY DEF Inside, Insider
    <2>2. \A j \in LockId : {b \in Agent : Insider(j, b)'} = IF j = i THEN {a} ELSE Inside[j]
      BY <1>1, InsideType
    <2> QED  BY <2>1, <2>2, InsideType
  <1>3. LockTypeOK'
    BY PidOfAssumption DEF LocksInv, LockTypeOK, tryAcquireDbLock
  <1>4. Guarded'
    BY <1>2, InsideType DEF LocksInv, Guarded, LockTypeOK, tryAcquireDbLock
  <1> QED  BY <1>1, <1>2, <1>3, <1>4 DEF LocksInv, Exclusion!Enter

LEMMA Releases ==
    ASSUME LocksInv, NEW a \in Agent, NEW i \in LockId, Insider(i, a), lock_row' \in {Released(i, a), lock_row},
           Shaped', \A b \in Agent : Placed(b)',
           \A j \in LockId : \A b \in Agent : Insider(j, b)' <=> Insider(j, b) /\ ~(j = i /\ b = a)
    PROVE  LocksInv' /\ Exclusion!Release(i, a)
  <1>1. Inside[i] = {a}
    BY InsideType DEF LocksInv, Guarded
  <1>2. Inside' = [Inside EXCEPT ![i] = @ \ {a}]
    <2>1. Inside' = [j \in LockId |-> {b \in Agent : Insider(j, b)'}]
      BY DEF Inside, Insider
    <2>2. \A j \in LockId : {b \in Agent : Insider(j, b)'} = IF j = i THEN Inside[i] \ {a} ELSE Inside[j]
      BY InsideType
    <2> QED  BY <2>1, <2>2, InsideType
  <1>3. LockTypeOK'
    <2>1. NoRow \in [pid : Pid \union {0}, live : BOOLEAN]
      BY DEF NoRow
    <2> QED  BY <2>1 DEF LocksInv, LockTypeOK, Released
  <1>4. Guarded'
    <2>1. \A j \in LockId \ {i} : lock_row'[j] = lock_row[j] /\ Inside'[j] = Inside[j]
      BY <1>2, InsideType DEF LocksInv, LockTypeOK, Released
    <2>2. Inside'[i] = {}
      BY <1>1, <1>2, InsideType
    <2> QED  BY <2>1, <2>2 DEF LocksInv, Guarded
  <1> QED  BY <1>1, <1>2, <1>3, <1>4 DEF LocksInv, Exclusion!Release

\* A run that steps outside, or to where HEAD is yet to be captured, takes no HEAD with it.
LEMMA OthersStand ==
    ASSUME NEW a \in Agent, \A b \in Agent \ {a} : agent'[b] = agent[b], ~Captured(a)'
    PROVE  HeadsStand
  BY DEF HeadsStand, Captured, InSync

\* A sync takes its lock from outside.
LEMMA StartSyncEnters ==
    ASSUME LocksInv, NEW a \in Agent, StartSync(a)
    PROVE  LocksInv' /\ HeadsStand /\ Exclusion!Enter("gbrain-sync", a)
  <1>1. PICK r : agent' = [agent EXCEPT ![a] = [Idle EXCEPT !.pc = "plan", !.req = r]]
    BY DEF StartSync, Set
  <1>2. Shaped' /\ agent'[a].pc = "plan" /\ agent'[a].outcome = "none"
    BY <1>1 DEF LocksInv, Shaped, Idle, Fields
  <1>3. \A b \in Agent \ {a} : agent'[b] = agent[b]
    BY <1>1 DEF LocksInv, Shaped
  <1>4. \A b \in Agent : Placed(b)'
    BY <1>2, <1>3 DEF LocksInv, Placed, Syncing
  <1>5. \A j \in LockId : \A b \in Agent :
          Insider(j, b)' <=> Insider(j, b) \/ (j = "gbrain-sync" /\ b = a)
    BY <1>2, <1>3, LockIds DEF Insider, InSync, InCycle, StartSync, Syncing
  <1>6. "gbrain-sync" \in LockId /\ tryAcquireDbLock("gbrain-sync", a)
    BY LockIds DEF StartSync
  <1>7. HeadsStand
    BY <1>2, <1>3, OthersStand DEF Captured, InSync, Syncing
  <1> QED  BY <1>2, <1>4, <1>5, <1>6, <1>7, Enters

LEMMA StartCycleEnters ==
    ASSUME LocksInv, NEW a \in Agent, StartCycle(a)
    PROVE  LocksInv' /\ HeadsStand /\ Exclusion!Enter("gbrain-cycle", a)
  <1>1. agent' = [agent EXCEPT ![a] = [Idle EXCEPT !.pc = "phases"]]
    BY DEF StartCycle, Set
  <1>2. Shaped' /\ agent'[a].pc = "phases" /\ agent'[a].outcome = "none"
    BY <1>1 DEF LocksInv, Shaped, Idle, Fields
  <1>3. \A b \in Agent \ {a} : agent'[b] = agent[b]
    BY <1>1 DEF LocksInv, Shaped
  <1>4. \A b \in Agent : Placed(b)'
    BY <1>2, <1>3 DEF LocksInv, Placed, StartCycle
  <1>5. \A j \in LockId : \A b \in Agent :
          Insider(j, b)' <=> Insider(j, b) \/ (j = "gbrain-cycle" /\ b = a)
    BY <1>2, <1>3, LockIds DEF Insider, InSync, InCycle, StartCycle, Syncing
  <1>6. "gbrain-cycle" \in LockId /\ tryAcquireDbLock("gbrain-cycle", a)
    BY LockIds DEF StartCycle
  <1>7. HeadsStand
    BY <1>2, <1>3, OthersStand DEF Captured, InSync, Syncing
  <1> QED  BY <1>2, <1>4, <1>5, <1>6, <1>7, Enters

\* The sync phase of a cycle takes the lock of syncs, or goes without.
LEMMA CycleSyncEnters ==
    ASSUME LocksInv, NEW a \in Agent, CycleSync(a)
    PROVE  LocksInv' /\ HeadsStand /\ (Exclusion!Enter("gbrain-sync", a) \/ UNCHANGED Inside)
  <1>1. a \in Cyclers /\ agent[a].outcome # "import"
    BY DEF LocksInv, Placed, CycleSync
  <1>2. Shaped' /\ \A b \in Agent \ {a} : agent'[b] = agent[b]
    BY DEF LocksInv, Shaped, CycleSync, GoTo, Set, Fields
  <1>3. HeadsStand
    <2>1. agent'[a].pc \in {"plan", "extract"}
      BY DEF CycleSync, LocksInv, Shaped, GoTo, Set, Fields
    <2> QED  BY <1>2, <2>1, OthersStand DEF Captured, InSync, Syncing
  <1>4. CASE tryAcquireDbLock("gbrain-sync", a) /\ GoTo(a, "plan")
    <2>1. agent'[a].pc = "plan" /\ agent'[a].outcome = agent[a].outcome
      BY <1>4 DEF LocksInv, Shaped, GoTo, Fields
    <2>2. \A b \in Agent : Placed(b)'
      BY <1>1, <1>2, <2>1 DEF LocksInv, Placed, Syncing
    <2>3. \A j \in LockId : \A b \in Agent :
            Insider(j, b)' <=> Insider(j, b) \/ (j = "gbrain-sync" /\ b = a)
      BY <1>1, <1>2, <2>1, LockIds DEF Insider, InSync, InCycle, CycleSync, Syncing
    <2>4. "gbrain-sync" \in LockId
      BY LockIds
    <2> QED  BY <1>2, <1>3, <1>4, <2>2, <2>3, <2>4, Enters
  <1>5. CASE UNCHANGED lock_row /\ Set(a, [agent[a] EXCEPT !.pc = "extract", !.outcome = "thrown"])
    <2>1. agent'[a].pc = "extract" /\ agent'[a].outcome = "thrown"
      BY <1>5 DEF LocksInv, Shaped, Set, Fields
    <2>2. \A b \in Agent : Placed(b)'
      BY <1>1, <1>2, <2>1 DEF LocksInv, Placed
    <2>3. Inside' = Inside
      BY <1>1, <1>2, <2>1, SameInside DEF InSync, InCycle, CycleSync, Syncing
    <2>4. Guarded' /\ LockTypeOK'
      BY <1>5, <2>3 DEF LocksInv, Guarded, LockTypeOK
    <2> QED  BY <1>2, <1>3, <2>2, <2>3, <2>4 DEF LocksInv
  <1> QED  BY <1>4, <1>5 DEF CycleSync

LEMMA LeaveSyncReleases ==
    ASSUME LocksInv, NEW a \in Agent, LeaveSync(a)
    PROVE  LocksInv' /\ HeadsStand /\ Exclusion!Release("gbrain-sync", a)
  <1>1. InSync(a) /\ agent[a].outcome # "import"
    BY AtStatement DEF LeaveSync, Syncing, GoesOn
  <1>2. agent' = [agent EXCEPT ![a] = IF a \in Cyclers THEN [agent[a] EXCEPT !.pc = "extract"] ELSE Idle]
    BY DEF LeaveSync, Set
  <1>3. Shaped' /\ \A b \in Agent \ {a} : agent'[b] = agent[b]
    BY <1>2 DEF LocksInv, Shaped, Idle, Fields
  <1>4. /\ a \in Cyclers => agent'[a].pc = "extract" /\ agent'[a].outcome = agent[a].outcome
        /\ a \notin Cyclers => agent'[a].pc = "idle" /\ agent'[a].outcome = "none"
    BY <1>2 DEF LocksInv, Shaped, Idle, Fields
  <1>5. \A b \in Agent : Placed(b)'
    BY <1>1, <1>3, <1>4 DEF LocksInv, Placed
  <1>6. \A j \in LockId : \A b \in Agent :
          Insider(j, b)' <=> Insider(j, b) /\ ~(j = "gbrain-sync" /\ b = a)
    BY <1>1, <1>3, <1>4, LockIds DEF Insider, InSync, InCycle, LeaveSync, Syncing
  <1>7. "gbrain-sync" \in LockId /\ Insider("gbrain-sync", a)
    BY <1>1, LockIds DEF Insider
  <1>8. lock_row' \in {Released("gbrain-sync", a), lock_row}
    BY DEF LeaveSync
  <1>9. HeadsStand
    BY <1>3, <1>4, OthersStand DEF Captured, InSync, Syncing
  <1> QED  BY <1>3, <1>5, <1>6, <1>7, <1>8, <1>9, Releases

LEMMA EndCycleReleases ==
    ASSUME LocksInv, NEW a \in Agent, EndCycle(a)
    PROVE  LocksInv' /\ HeadsStand /\ Exclusion!Release("gbrain-cycle", a)
  <1>1. a \in Cyclers
    BY DEF LocksInv, Placed, EndCycle
  <1>2. agent' = [agent EXCEPT ![a] = Idle]
    BY DEF EndCycle, Set
  <1>3. Shaped' /\ \A b \in Agent \ {a} : agent'[b] = agent[b]
    BY <1>2 DEF LocksInv, Shaped, Idle, Fields
  <1>4. agent'[a].pc = "idle" /\ agent'[a].outcome = "none"
    BY <1>2 DEF LocksInv, Shaped, Idle, Fields
  <1>5. \A b \in Agent : Placed(b)'
    BY <1>3, <1>4 DEF LocksInv, Placed
  <1>6. \A j \in LockId : \A b \in Agent :
          Insider(j, b)' <=> Insider(j, b) /\ ~(j = "gbrain-cycle" /\ b = a)
    BY <1>1, <1>3, <1>4, LockIds DEF Insider, InSync, InCycle, EndCycle, Syncing
  <1>7. "gbrain-cycle" \in LockId /\ Insider("gbrain-cycle", a)
    BY <1>1, LockIds DEF Insider, InCycle, EndCycle
  <1>8. lock_row' \in {Released("gbrain-cycle", a), lock_row}
    BY DEF EndCycle
  <1>9. HeadsStand
    BY <1>3, <1>4, OthersStand DEF Captured, InSync, Syncing
  <1> QED  BY <1>3, <1>5, <1>6, <1>7, <1>8, <1>9, Releases

\* What is left of a walk: nothing of an import, the end of the walk of a sync.
LEMMA WalkEndWrites ==
    ASSUME LocksInv, NEW a \in Agent, WalkEnd(a)
    PROVE  /\ Shaped' /\ \A b \in Agent \ {a} : agent'[b] = agent[b]
           /\ agent[a].pc = "walk"
           /\ agent[a].outcome = "import" => agent'[a].pc = "idle" /\ agent'[a].outcome = "none"
           /\ agent[a].outcome # "import" => agent'[a].pc = "walked" /\ agent'[a].outcome = agent[a].outcome
           /\ agent'[a].head = agent[a].head \/ agent'[a].pc = "idle"
  <1> USE DEF LocksInv, Shaped, Set, Fields
  <1>1. CASE agent[a].outcome = "import"
    <2>1. Set(a, Idle)
      BY <1>1 DEF WalkEnd
    <2> QED  BY <1>1, <2>1 DEF WalkEnd, Idle
  <1>2. CASE agent[a].outcome # "import"
    <2> DEFINE done == [agent[a] EXCEPT !.drifted = HEAD # agent[a].head, !.affected = {}]
    <2>1. Set(a, [done EXCEPT !.pc = "walked"])
      BY <1>2 DEF WalkEnd
    <2>2. DOMAIN done = Fields /\ done.outcome = agent[a].outcome /\ done.head = agent[a].head
      BY DEF Fields
    <2> HIDE DEF done
    <2> QED  BY <1>2, <2>1, <2>2 DEF WalkEnd
  <1> QED  BY <1>1, <1>2

\* Runs that move on with neither lock: imports, and a cycle after its sync.
LEMMA OutsideKeeps ==
    ASSUME LocksInv, NEW a \in Agent,
           StartImport(a) \/ WalkEnd(a) \/ CycleExtract(a) \/ CycleAborted(a)
    PROVE  LocksInv' /\ UNCHANGED Inside /\ HeadsStand
  <1>1. Shaped' /\ \A b \in Agent \ {a} : agent'[b] = agent[b]
    <2> USE DEF LocksInv, Shaped, Set, Fields
    <2>1. CASE StartImport(a)
      BY <2>1 DEF StartImport, Walking, Idle
    <2>2. CASE WalkEnd(a)
      BY <2>2, WalkEndWrites
    <2>3. CASE CycleExtract(a)
      BY <2>3 DEF CycleExtract, Extract
    <2>4. CASE CycleAborted(a)
      BY <2>4 DEF CycleAborted
    <2> QED  BY <2>1, <2>2, <2>3, <2>4
  <1>2. \/ /\ agent[a].pc = "idle" /\ a \notin Cyclers
           /\ agent'[a].pc = "walk" /\ agent'[a].outcome = "import"
        \/ /\ agent[a].pc = "walk" /\ agent[a].outcome = "import"
           /\ agent'[a].pc = "idle" /\ agent'[a].outcome = "none"
        \/ /\ agent[a].pc = "walk" /\ agent[a].outcome # "import"
           /\ agent'[a].pc = "walked" /\ agent'[a].outcome = agent[a].outcome /\ agent'[a].head = agent[a].head
        \/ /\ agent[a].pc \in {"phases", "extract"}
           /\ agent'[a].pc = "release" /\ agent'[a].outcome = agent[a].outcome
    <2> USE DEF LocksInv, Shaped, Set, Fields
    <2>1. CASE StartImport(a)
      BY <2>1 DEF StartImport, Walking, Idle
    <2>2. CASE WalkEnd(a)
      BY <2>2, WalkEndWrites
    <2>3. CASE CycleExtract(a)
      BY <2>3 DEF CycleExtract, Extract
    <2>4. CASE CycleAborted(a)
      BY <2>4 DEF CycleAborted
    <2> QED  BY <2>1, <2>2, <2>3, <2>4
  <1>3. \A b \in Agent : Placed(b)'
    BY <1>1, <1>2 DEF LocksInv, Placed, Syncing
  <1>4. Inside' = Inside
    <2>1. Placed(a)
      BY DEF LocksInv
    <2> QED  BY <1>1, <1>2, <2>1, SameInside DEF InSync, InCycle, Placed, Syncing
  <1>5. UNCHANGED lock_row
    BY DEF StartImport, WalkEnd, CycleExtract, CycleAborted
  <1>6. Guarded' /\ LockTypeOK'
    BY <1>4, <1>5 DEF LocksInv, Guarded, LockTypeOK
  <1>7. HeadsStand
    BY <1>1, <1>2 DEF HeadsStand, Captured, InSync, Syncing
  <1> QED  BY <1>1, <1>3, <1>4, <1>6, <1>7 DEF LocksInv

-----------------------------------------------------------------------------
(* The end of processes and rows, and everybody else.                      *)

LEMMA CrashLeaves ==
    ASSUME LocksInv, NEW pid \in Pid, Crash(pid)
    PROVE  LocksInv' /\ HeadsStand /\ \E gone \in SUBSET Agent : Exclusion!Leave(gone)
  <1> DEFINE dead == {a \in Agent : PidOf[a] = pid}
  <1>1. agent' = [a \in Agent |-> IF a \in dead THEN Idle ELSE agent[a]]
    BY DEF Crash
  <1>2. Shaped' /\ (\A b \in dead : agent'[b] = Idle) /\ \A b \in Agent \ dead : agent'[b] = agent[b]
    BY <1>1 DEF LocksInv, Shaped, Idle, Fields
  <1>3. \A b \in Agent : Placed(b)'
    BY <1>2 DEF LocksInv, Placed, Idle
  <1>4. \A j \in LockId : \A b \in Agent : Insider(j, b)' <=> Insider(j, b) /\ b \notin dead
    BY <1>2 DEF Insider, InSync, InCycle, Idle, Syncing
  <1>5. Inside' = [j \in LockId |-> Inside[j] \ dead]
    <2>1. Inside' = [j \in LockId |-> {b \in Agent : Insider(j, b)'}]
      BY DEF Inside, Insider
    <2>2. \A j \in LockId : {b \in Agent : Insider(j, b)'} = Inside[j] \ dead
      BY <1>4, InsideType
    <2> QED  BY <2>1, <2>2
  <1>6. UNCHANGED lock_row
    BY DEF Crash
  <1>7. Guarded' /\ LockTypeOK'
    BY <1>5, <1>6, InsideType DEF LocksInv, Guarded, LockTypeOK
  <1>8. dead # {}
    BY DEF Crash
  <1>9. HeadsStand
    BY <1>2 DEF HeadsStand, Captured, InSync, Idle, Syncing
  <1> QED  BY <1>2, <1>3, <1>5, <1>7, <1>8, <1>9 DEF LocksInv, Exclusion!Leave

\* A row expires only behind a run that is no more, where runs end within thirty minutes.
LEMMA ExpireKeeps ==
    ASSUME ~LongRuns, LocksInv, NEW i \in LockId, Expire(i)
    PROVE  LocksInv' /\ UNCHANGED Inside /\ HeadsStand
  <1>1. Shaped' /\ (\A b \in Agent : Placed(b)')
    BY DEF LocksInv, Expire, Shaped, Placed
  <1>2. Inside' = Inside
    BY SameInside DEF Expire, InSync, InCycle
  <1>3. LockTypeOK'
    BY DEF LocksInv, LockTypeOK, Expire, LockExpires
  <1>4. Guarded'
    BY <1>2 DEF LocksInv, LockTypeOK, Guarded, Expire, LockExpires
  <1>5. HeadsStand
    BY DEF HeadsStand, Captured, InSync, Expire
  <1> QED  BY <1>1, <1>2, <1>3, <1>4, <1>5 DEF LocksInv

LEMMA ElsewhereKeeps ==
    ASSUME LocksInv, Commit \/ Rewrite \/ Upgrade \/ UNCHANGED vars
    PROVE  LocksInv' /\ UNCHANGED Inside /\ HeadsStand
  <1>1. UNCHANGED <<agent, lock_row>>
    BY DEF Commit, Rewrite, Upgrade, Elsewhere, vars
  <1>2. Inside' = Inside
    BY <1>1, SameInside DEF InSync, InCycle
  <1> QED  BY <1>1, <1>2 DEF LocksInv, Shaped, Placed, Guarded, LockTypeOK, HeadsStand, Captured, InSync

-----------------------------------------------------------------------------
LEMMA InitOutside == Init => LocksInv /\ Exclusion!Init
  <1> SUFFICES ASSUME Init PROVE LocksInv /\ Exclusion!Init  OBVIOUS
  <1>1. agent = [a \in Agent |-> Idle] /\ lock_row = [i \in LockId |-> NoRow]
    BY DEF Init, LockInit
  <1>2. Shaped /\ \A a \in Agent : Placed(a)
    BY <1>1 DEF Shaped, Placed, Idle, Fields
  <1>3. \A i \in LockId, a \in Agent : ~Insider(i, a)
    BY <1>1 DEF Insider, InSync, InCycle, Idle, Syncing
  <1>4. Inside = [i \in LockId |-> {}]
    BY <1>3, InsideType
  <1>5. LockTypeOK
    BY <1>1 DEF LockTypeOK, NoRow
  <1>6. Guarded
    BY <1>4 DEF Guarded
  <1> QED  BY <1>2, <1>4, <1>5, <1>6 DEF LocksInv, Exclusion!Init

\* Every step of the program is one of the abstract lock, or does not show there.
LEMMA StepExcludes ==
    ASSUME ~LongRuns, LocksInv, [Next]_vars
    PROVE  LocksInv' /\ [Exclusion!Next]_Inside /\ (HeadsStand \/ \E a \in Agent : Plan(a))
  <1>1. CASE \E a \in Agent : StartSync(a)
    BY <1>1, StartSyncEnters, LockIds DEF Exclusion!Next
  <1>2. CASE \E a \in Agent : StartCycle(a)
    BY <1>2, StartCycleEnters, LockIds DEF Exclusion!Next
  <1>3. CASE \E a \in Agent : CycleSync(a)
    BY <1>3, CycleSyncEnters, LockIds DEF Exclusion!Next
  <1>4. CASE \E a \in Agent : LeaveSync(a)
    BY <1>4, LeaveSyncReleases, LockIds DEF Exclusion!Next
  <1>5. CASE \E a \in Agent : EndCycle(a)
    BY <1>5, EndCycleReleases, LockIds DEF Exclusion!Next
  <1>6. CASE \E a \in Agent : StartImport(a) \/ WalkEnd(a) \/ CycleExtract(a) \/ CycleAborted(a)
    BY <1>6, OutsideKeeps
  <1>7. CASE \E a \in Agent : Plan(a)
    BY <1>7, PlanCaptures, OnwardKeeps
  <1>8. CASE \E a \in Agent : \/ DropUnsyncable(a) \/ Decide(a) \/ Delete(a)
                               \/ Rename(a) \/ Reimport(a) \/ ImportOne(a)
    BY <1>8, FilesKeep
  <1>9. CASE \E a \in Agent : Gate(a) \/ Advance(a) \/ writeChunkerVersion(a) \/ Inline(a) \/ WalkGate(a)
    BY <1>9, EndOfSyncKeeps
  <1>10. CASE \E a \in Agent : WalkOne(a)
    BY <1>10, WalkOneKeeps
  <1>11. CASE \E pid \in Pid : Crash(pid)
    BY <1>11, CrashLeaves DEF Exclusion!Next
  <1>12. CASE \E i \in LockId : Expire(i)
    BY <1>12, ExpireKeeps
  <1>13. CASE Commit \/ Rewrite \/ Upgrade \/ UNCHANGED vars
    BY <1>13, ElsewhereKeeps
  <1> QED  BY <1>1, <1>2, <1>3, <1>4, <1>5, <1>6, <1>7, <1>8, <1>9, <1>10, <1>11, <1>12, <1>13 DEF Next, Step

\* The rows of gbrain_cycle_locks are mutual exclusion (db-lock.ts, "Generic DB-backed lock primitive"): where no
\* run outlives its row, of all the runs of all processes never two are inside performSync, nor
\* two inside a cycle, and each enters an empty lock, whatever crashes leave behind.
THEOREM LocksAreMutex == ASSUME ~LongRuns PROVE Spec => LockSpec
  <1>1. Init => LocksInv /\ Exclusion!Init
    BY InitOutside
  <1>2. LocksInv /\ [Next]_vars => LocksInv' /\ [Exclusion!Next]_Inside
    BY StepExcludes
  <1> QED  BY <1>1, <1>2, PTL DEF Spec, LockSpec, Exclusion!Spec

-----------------------------------------------------------------------------
(* The bookmark of a source.  Nothing but Advance moves it, and under the   *)
(* lock the HEAD that was captured is no older than the bookmark.          *)

Trees == [Path -> Content \union {"none"}]

\* Commits are numbered as they are made, so that a line of history is increasing.
HistoryInv ==
    /\ tree \in Seq(Trees) /\ line \in Seq(1..Len(tree)) /\ line # <<>>
    /\ \A i, j \in 1..Len(line) : i < j => line[i] < line[j]

AheadOf(a) ==
    Captured(a) =>
      /\ agent[a].head \in 1..Len(tree)
      /\ {anchor["source"], agent[a].head} \subseteq Range(line) => anchor["source"] <= agent[a].head

BookmarkInv ==
    /\ LocksInv /\ HistoryInv
    /\ "source" \in DOMAIN anchor /\ anchor["source"] \in 0..Len(tree)
    /\ \A a \in Agent : AheadOf(a)

LEMMA LastCommit ==
    ASSUME HistoryInv
    PROVE  HEAD \in Range(line) /\ HEAD \in 1..Len(tree) /\ \A n \in Range(line) : n \in 1..Len(tree) /\ n <= HEAD
  <1>1. Len(line) \in Nat \ {0} /\ DOMAIN line = 1..Len(line)
    BY DEF HistoryInv
  <1>2. \A i \in 1..Len(line) : line[i] \in 1..Len(tree) /\ line[i] <= line[Len(line)]
    <2> SUFFICES ASSUME NEW i \in 1..Len(line) PROVE line[i] \in 1..Len(tree) /\ line[i] <= line[Len(line)]
      OBVIOUS
    <2>1. line[i] \in 1..Len(tree) /\ line[Len(line)] \in 1..Len(tree)
      BY <1>1 DEF HistoryInv
    <2>2. \A k, j \in 1..Len(line) : k < j => line[k] < line[j]
      BY DEF HistoryInv
    <2>3. i # Len(line) => i < Len(line) /\ Len(line) \in 1..Len(line)
      <3>1. \A n \in Nat \ {0} : \A k \in 1..n : k # n => k < n /\ n \in 1..n
        OBVIOUS
      <3> QED  BY <1>1, <3>1
    <2>4. i # Len(line) => line[i] < line[Len(line)]
      BY <2>2, <2>3
    <2> QED  BY <2>1, <2>4
  <1> QED  BY <1>1, <1>2 DEF HEAD, Last, Range

LEMMA DiskIsTree == HistoryInv => Disk \in Trees /\ Edits(Disk) \subseteq Trees
  <1> SUFFICES ASSUME HistoryInv PROVE Disk \in Trees /\ Edits(Disk) \subseteq Trees  OBVIOUS
  <1>1. Disk \in Trees
    BY LastCommit DEF HistoryInv, Disk
  <1> QED  BY <1>1 DEF Edits, Trees

\* A line that has lost its end and got a new commit.
LEMMA NewLine ==
    ASSUME HistoryInv, NEW t \in Trees, tree' = Append(tree, t),
           NEW keep \in 0..Len(line), line' = Append(SubSeq(line, 1, keep), Len(tree) + 1)
    PROVE  HistoryInv' /\ Len(tree') = Len(tree) + 1 /\ Range(line') \subseteq Range(line) \union {Len(tree) + 1}
  <1>1. tree' \in Seq(Trees) /\ Len(tree') = Len(tree) + 1
    BY DEF HistoryInv
  <1>2. Len(line') = keep + 1 /\ line'[keep + 1] = Len(tree) + 1 /\ \A i \in 1..keep : line'[i] = line[i]
    BY DEF HistoryInv
  <1>3. line' \in Seq(1..Len(tree')) /\ line' # <<>>
    <2>1. line \in Seq(1..Len(tree'))
      BY <1>1 DEF HistoryInv
    <2>2. SubSeq(line, 1, keep) \in Seq(1..Len(tree')) /\ Len(tree) + 1 \in 1..Len(tree')
      BY <1>1, <2>1 DEF HistoryInv
    <2>3. Append(SubSeq(line, 1, keep), Len(tree) + 1) \in Seq(1..Len(tree'))
      BY <2>2
    <2>4. Len(line') # 0
      BY <1>2
    <2> QED  BY <2>3, <2>4
  <1>4. \A i, j \in 1..Len(line') : i < j => line'[i] < line'[j]
    <2> SUFFICES ASSUME NEW i \in 1..keep + 1, NEW j \in 1..keep + 1, i < j PROVE line'[i] < line'[j]
      BY <1>2
    <2>1. i \in 1..keep /\ keep <= Len(line) /\ Len(line) \in Nat /\ Len(tree) \in Nat
      BY DEF HistoryInv
    <2>2. line[i] \in 1..Len(tree)
      BY <2>1 DEF HistoryInv
    <2>3. CASE j = keep + 1
      BY <1>2, <2>1, <2>2, <2>3
    <2>4. CASE j \in 1..keep
      BY <1>2, <2>1, <2>4 DEF HistoryInv
    <2> QED  BY <2>3, <2>4
  <1>5. Range(line') \subseteq Range(line) \union {Len(tree) + 1}
    BY <1>2, <1>3 DEF HistoryInv, Range
  <1> QED  BY <1>1, <1>3, <1>4, <1>5 DEF HistoryInv

LEMMA GitMoves ==
    ASSUME HistoryInv, Commit \/ Rewrite
    PROVE  HistoryInv' /\ Len(tree') = Len(tree) + 1 /\ Range(line') \subseteq Range(line) \union {Len(tree) + 1}
  <1>1. PICK t \in Trees : tree' = Append(tree, t)
    BY DiskIsTree DEF Commit, Rewrite
  <1>2. CASE Commit
    <2>1. SubSeq(line, 1, Len(line)) = line /\ Len(line) \in 0..Len(line)
      BY DEF HistoryInv
    <2> QED  BY <1>1, <1>2, <2>1, NewLine DEF Commit
  <1>3. CASE Rewrite
    <2>1. PICK keep \in 0..Len(line) - 1 : line' = Append(SubSeq(line, 1, keep), Len(tree) + 1)
      BY <1>3 DEF Rewrite
    <2>2. keep \in 0..Len(line)
      BY DEF HistoryInv
    <2> QED  BY <1>1, <2>1, <2>2, NewLine
  <1> QED  BY <1>2, <1>3

\* What each step leaves alone of the repository and the bookmark.
LEMMA BookmarkFrame ==
    ASSUME Scope = "source", [Next]_vars, "source" \in DOMAIN anchor
    PROVE  /\ UNCHANGED <<tree, line>> \/ Commit \/ Rewrite
           /\ \/ \E a \in Agent : Advance(a)
              \/ anchor'["source"] = anchor["source"] /\ DOMAIN anchor' = DOMAIN anchor
  <1>1. CASE Commit \/ Rewrite
    BY <1>1 DEF Commit, Rewrite, Elsewhere, bookmark
  <1>2. CASE UNCHANGED vars
    BY <1>2 DEF vars, repo, bookmark
  <1>3. CASE \E a \in Agent : WalkEnd(a)
    BY <1>3 DEF WalkEnd, repo
  <1>4. CASE \E a \in Agent : Advance(a)
    BY <1>4 DEF Advance, repo
  <1>5. CASE Upgrade \/ \E a \in Agent : writeChunkerVersion(a)
    BY <1>5 DEF Upgrade, writeChunkerVersion, repo
  <1>6. CASE \E a \in Agent : \/ StartSync(a) \/ StartImport(a) \/ StartCycle(a) \/ CycleAborted(a)
                              \/ CycleSync(a) \/ CycleExtract(a) \/ EndCycle(a)
    BY <1>6 DEF StartSync, StartImport, StartCycle, CycleAborted, CycleSync, CycleExtract, EndCycle, repo, bookmark
  <1>7. CASE \E a \in Agent : Plan(a) \/ DropUnsyncable(a) \/ Decide(a) \/ Delete(a) \/ Rename(a)
    BY <1>7 DEF Plan, DropUnsyncable, Decide, Delete, Rename, repo, bookmark
  <1>8. CASE \E a \in Agent : Reimport(a) \/ ImportOne(a) \/ Gate(a) \/ Inline(a) \/ LeaveSync(a) \/ WalkOne(a) \/ WalkGate(a)
    BY <1>8 DEF Reimport, ImportOne, Gate, Inline, LeaveSync, WalkOne, WalkGate, repo, bookmark
  <1>9. CASE (\E pid \in Pid : Crash(pid)) \/ \E i \in LockId : Expire(i)
    BY <1>9 DEF Crash, Expire, repo, bookmark
  <1> QED  BY <1>1, <1>2, <1>3, <1>4, <1>5, <1>6, <1>7, <1>8, <1>9 DEF Next, Step

LEMMA InitBookmark ==
    ASSUME Init
    PROVE  BookmarkInv
  <1>1. LocksInv
    BY InitOutside
  <1>2. HistoryInv
    <2>1. PICK t \in FirstTrees : tree = <<t>>
      BY DEF Init
    <2>2. t \in Trees
      BY SyncAssumption DEF Trees
    <2> QED  BY <2>1, <2>2 DEF Init, HistoryInv
  <1>3. Len(tree) = 1 /\ "source" \in DOMAIN anchor /\ anchor["source"] \in {0, 1}
    BY DEF Init
  <1>4. \A a \in Agent : ~Captured(a)
    BY DEF Init, Captured, InSync, Idle, Syncing
  <1> QED  BY <1>1, <1>2, <1>3, <1>4 DEF BookmarkInv, AheadOf

LEMMA StepKeepsBookmark ==
    ASSUME ~LongRuns, Scope = "source", BookmarkInv, [Next]_vars
    PROVE  /\ BookmarkInv'
           /\ {anchor["source"], anchor'["source"]} \subseteq Range(line') => anchor'["source"] >= anchor["source"]
  <1>1. LocksInv' /\ (HeadsStand \/ \E a \in Agent : Plan(a))
    BY StepExcludes DEF BookmarkInv
  <1>2. \A a, b \in Agent : Captured(a)' /\ Captured(b)' => a = b
    <2>1. \A a \in Agent : Captured(a)' => a \in Inside'["gbrain-sync"]
      BY LockIds DEF Captured, Inside
    <2> QED  BY <1>1, <2>1, LockIds DEF LocksInv, Guarded
  <1>3. CASE Commit \/ Rewrite
    <2>1. HistoryInv' /\ Len(tree') = Len(tree) + 1 /\ Range(line') \subseteq Range(line) \union {Len(tree) + 1}
      BY <1>3, GitMoves DEF BookmarkInv
    <2>2. anchor' = anchor /\ agent' = agent
      BY <1>3 DEF Commit, Rewrite, Elsewhere, bookmark
    <2>3. Len(tree) \in Nat
      BY DEF BookmarkInv, HistoryInv
    <2>4. \A a \in Agent : AheadOf(a)'
      <3> SUFFICES ASSUME NEW a \in Agent, Captured(a)'
                   PROVE  /\ agent[a].head \in 1..Len(tree')
                          /\ {anchor["source"], agent[a].head} \subseteq Range(line') => anchor["source"] <= agent[a].head
        BY <2>2 DEF AheadOf
      <3>1. Captured(a) /\ AheadOf(a) /\ anchor["source"] \in 0..Len(tree)
        BY <2>2 DEF Captured, InSync, BookmarkInv
      <3>2. agent[a].head \in 1..Len(tree)
        BY <3>1 DEF AheadOf
      <3> QED  BY <2>1, <2>3, <3>1, <3>2 DEF AheadOf
    <2> QED  BY <1>1, <2>1, <2>2, <2>3, <2>4 DEF BookmarkInv
  <1>4. CASE UNCHANGED <<tree, line>>
    <2>1. HistoryInv'
      BY <1>4 DEF BookmarkInv, HistoryInv
    <2>2. CASE \E a \in Agent : Advance(a)
      <3>1. PICK a \in Agent : Advance(a)
        BY <2>2
      <3>2. Captured(a) /\ AheadOf(a)
        BY <3>1, AtStatement DEF BookmarkInv, Advance, Captured, Syncing
      <3>3. anchor'["source"] = agent[a].head /\ DOMAIN anchor' = DOMAIN anchor
        BY <3>1 DEF Advance, BookmarkInv
      <3>4. \A b \in Agent : Captured(b)' => b = a /\ agent'[b].head = agent[a].head
        <4>1. agent' = [agent EXCEPT ![a].pc = "stamp"]
          BY <3>1 DEF Advance, Set
        <4>2. agent'[a].head = agent[a].head /\ Captured(a)'
          BY <3>2, <4>1 DEF Captured, InSync, BookmarkInv, LocksInv, Shaped, Fields, Syncing
        <4> QED  BY <1>2, <4>2
      <3>5. \A b \in Agent : AheadOf(b)'
        BY <1>4, <3>2, <3>3, <3>4 DEF AheadOf
      <3> QED  BY <1>1, <1>4, <2>1, <3>2, <3>3, <3>5 DEF BookmarkInv, AheadOf
    <2>3. CASE anchor'["source"] = anchor["source"] /\ DOMAIN anchor' = DOMAIN anchor
      <3>1. CASE HeadsStand
        <4>1. \A b \in Agent : AheadOf(b)'
          BY <1>4, <2>3, <3>1 DEF HeadsStand, AheadOf, BookmarkInv
        <4> QED  BY <1>1, <1>4, <2>1, <2>3, <4>1 DEF BookmarkInv
      <3>2. CASE \E a \in Agent : Plan(a)
        <4>1. PICK a \in Agent : Plan(a)
          BY <3>2
        <4>2. InSync(a) /\ Onward(a, HEAD)
          BY <4>1, PlanCaptures DEF BookmarkInv
        <4>3. \A b \in Agent \ {a} : ~Captured(b)'
          <5>1. \A b \in Agent \ {a} : ~InSync(b)
            BY <4>2, LockIds DEF BookmarkInv, LocksInv, Guarded, Inside
          <5> QED  BY <4>2, <5>1 DEF Captured, InSync, Onward
        <4>4. agent'[a].head = HEAD
          BY <4>2 DEF Onward
        <4>5. \A b \in Agent : AheadOf(b)'
          BY <1>4, <2>3, <4>3, <4>4, LastCommit DEF AheadOf, BookmarkInv
        <4> QED  BY <1>1, <1>4, <2>1, <2>3, <4>5 DEF BookmarkInv
      <3> QED  BY <1>1, <3>1, <3>2
    <2>4. "source" \in DOMAIN anchor
      BY DEF BookmarkInv
    <2> QED  BY <2>2, <2>3, <2>4, BookmarkFrame
  <1>5. "source" \in DOMAIN anchor
    BY DEF BookmarkInv
  <1> QED  BY <1>3, <1>4, <1>5, BookmarkFrame

\* The bookmark of a source never moves back along the history it is in ("CODEX-2" in sync.ts),
\* however many people and cycles sync, whoever rewrites the history and whatever crashes, where
\* no run outlives its lock.
THEOREM BookmarkNeverBack ==
    ASSUME ~LongRuns, Scope = "source"
    PROVE  Spec => BookmarkForward
  <1>1. Init => BookmarkInv
    BY InitBookmark
  <1>2. BookmarkInv /\ [Next]_vars =>
          BookmarkInv' /\ [{anchor[Scope], anchor'[Scope]} \subseteq Range(line') => anchor'[Scope] >= anchor[Scope]]_vars
    BY StepKeepsBookmark
  <1> QED  BY <1>1, <1>2, PTL DEF Spec, BookmarkForward
-----------------------------------------------------------------------------
(* Links.  A page whose links are still to be extracted is on the list of   *)
(* the run that wrote it last, for as long as that run may extract them.    *)

\* Outcomes after which extract keeps to the list that sync made.
Listing == {"none", "synced", "blocked", "up_to_date"}

LinksOK(r, waiting) ==
    /\ r.drop \union r.del \union r.imp \union r.again \union r.walk \subseteq Path /\ r.ren \subseteq Path \X Path
    /\ \A p, q \in r.again : p = q
    /\ r.again # {} => r.pc = "apply" \/ (r.outcome = "thrown" /\ r.pc \in {"leave", "extract", "release"})
    /\ r.pc \in {"phases", "plan"} => r.outcome = "none"
    /\ r.pc \in {"drop", "apply", "inline"} => r.outcome = "synced"
    /\ r.pc = "walk" => r.outcome \in {"full", "import"}
    /\ r.pc = "walked" => r.outcome = "full"
    /\ r.outcome \in Listing => r.wrote \intersect waiting \subseteq r.affected \union r.again

LinksInv ==
    /\ Shaped /\ DOMAIN page = Path /\ unlinked \subseteq Path
    /\ \A a \in Agent : LinksOK(agent[a], unlinked)

\* Only what a run has just written waits for its links, and no other run answers for it.
LEMMA LinksStep ==
    ASSUME LinksInv, NEW a \in Agent, NEW rec, DOMAIN rec = Fields, LinksOK(rec, unlinked'), DOMAIN page' = Path,
           \/ Set(a, rec) /\ unlinked' \subseteq unlinked
           \/ \E written \in SUBSET Path : Wrote(a, written, rec) /\ unlinked' \subseteq unlinked \union written
    PROVE  LinksInv'
  <1>1. StepTo(a, rec) /\ unlinked' \subseteq Path
    BY DEF StepTo, LinksInv
  <1>2. DOMAIN agent' = Agent /\ agent'[a] = rec /\ \A b \in Agent \ {a} : DOMAIN agent'[b] = Fields
    BY <1>1, OthersKeep DEF LinksInv
  <1>3. ASSUME NEW b \in Agent \ {a}
        PROVE  LinksOK(agent'[b], unlinked')
    <2>1. \A f \in {"drop", "del", "imp", "again", "walk", "ren", "pc", "outcome", "affected"} :
            f \in Fields \ Shared /\ agent'[b][f] = agent[b][f]
      BY <1>1, OthersKeep DEF LinksInv, Fields, Shared
    <2>2. agent'[b].wrote \intersect unlinked' \subseteq agent[b].wrote \intersect unlinked
      <3>1. CASE Set(a, rec) /\ unlinked' \subseteq unlinked
        BY <3>1 DEF Set, LinksInv, Shaped
      <3>2. ASSUME NEW written, Wrote(a, written, rec), unlinked' \subseteq unlinked \union written
            PROVE  agent'[b].wrote \intersect unlinked' \subseteq agent[b].wrote \intersect unlinked
        BY <3>2 DEF Wrote, LinksInv, Shaped, Fields
      <3> QED  BY <3>1, <3>2
    <2>3. LinksOK(agent[b], unlinked)
      BY DEF LinksInv
    <2> QED  BY <2>1, <2>2, <2>3 DEF LinksOK
  <1> QED  BY <1>1, <1>2, <1>3 DEF LinksInv, Shaped

\* A record that has gone on from another without writing a page.
LEMMA LinksGoOn ==
    ASSUME LinksInv, NEW a \in Agent, NEW rec, DOMAIN rec = Fields, Set(a, rec), LinksOK(rec, unlinked),
           unlinked' \subseteq unlinked, page' = page
    PROVE  LinksInv'
  <1>1. LinksOK(rec, unlinked')
    BY DEF LinksOK
  <1> QED  BY <1>1, LinksStep DEF LinksInv

LEMMA ImportLinks ==
    ASSUME LinksInv, NEW a \in Agent, NEW p \in Path, NEW me, DOMAIN me = Fields, LinksOK(me, unlinked), Import(a, p, me)
    PROVE  LinksInv'
  <1> DEFINE r == [me EXCEPT !.seen = @ \union {p}]
             w == [r EXCEPT !.wrote = @ \union {p}, !.affected = @ \union {p}]
  <1>1. DOMAIN r = Fields /\ LinksOK(r, unlinked)
    BY DEF Fields, LinksOK
  <1>2. DOMAIN w = Fields /\ LinksOK(w, unlinked \union {p})
    BY DEF Fields, LinksOK
  <1>3. CASE Set(a, r) /\ UNCHANGED pages
    <2> HIDE DEF r, w
    <2> QED  BY <1>1, <1>3, LinksGoOn DEF pages
  <1>4. CASE /\ page' = [page EXCEPT ![p] = [text |-> Disk[p], chunks |-> chunker]]
             /\ unlinked' = unlinked \union {p} /\ Wrote(a, {p}, w)
    <2> HIDE DEF r, w
    <2>1. DOMAIN page' = Path /\ {p} \in SUBSET Path
      BY <1>4 DEF LinksInv
    <2> QED  BY <1>2, <1>4, <2>1, LinksStep
  <1> QED  BY <1>3, <1>4 DEF Import

LEMMA NoLongerLinks ==
    ASSUME LinksInv, NEW a \in Agent, NEW p \in Path, NEW me, DOMAIN me = Fields, LinksOK(me, unlinked), NoLonger(a, {p}, me)
    PROVE  LinksInv'
  <1> DEFINE w == [me EXCEPT !.seen = @ \union {p}, !.wrote = @ \union {p}]
  <1>1. DOMAIN w = Fields /\ LinksOK(w, unlinked \ {p})
    BY DEF Fields, LinksOK
  <1>2. Wrote(a, {p}, w) /\ unlinked' = unlinked \ {p} /\ DOMAIN page' = Path
    BY DEF NoLonger
  <1> HIDE DEF w
  <1> QED  BY <1>1, <1>2, LinksStep

LEMMA FilesLinks ==
    ASSUME LinksInv, NEW a \in Agent,
           DropUnsyncable(a) \/ Decide(a) \/ Delete(a) \/ Rename(a) \/ Reimport(a) \/ ImportOne(a) \/ WalkOne(a)
    PROVE  LinksInv'
  <1> DEFINE me == agent[a]
  <1>1. DOMAIN me = Fields /\ LinksOK(me, unlinked)
    BY DEF LinksInv, Shaped
  <1>2. CASE DropUnsyncable(a)
    <2>1. PICK p \in me.drop :
            LET rest == [me EXCEPT !.drop = @ \ {p}] IN
            NoLonger(a, {p}, rest) \/ (Set(a, rest) /\ UNCHANGED pages)
      BY <1>2 DEF DropUnsyncable
    <2> DEFINE rest == [me EXCEPT !.drop = @ \ {p}]
    <2>2. DOMAIN rest = Fields /\ LinksOK(rest, unlinked) /\ p \in Path
      BY <1>1 DEF Fields, LinksOK
    <2>3. NoLonger(a, {p}, rest) \/ (Set(a, rest) /\ UNCHANGED pages)
      BY <2>1
    <2> HIDE DEF rest
    <2> QED  BY <2>2, <2>3, NoLongerLinks, LinksGoOn DEF pages
  <1>3. CASE Decide(a)
    <2> DEFINE rec == IF me.req.dry THEN [me EXCEPT !.pc = "leave", !.outcome = "dry"]
                      ELSE IF me.del = {} /\ me.ren = {} /\ me.imp = {} THEN [me EXCEPT !.pc = "advance"]
                      ELSE [me EXCEPT !.pc = "apply"]
    <2>1. Set(a, rec) /\ UNCHANGED pages /\ me.pc = "drop"
      BY <1>3 DEF Decide
    <2>2. DOMAIN rec = Fields /\ LinksOK(rec, unlinked)
      BY <1>1, <2>1 DEF Fields, LinksOK, Listing
    <2> HIDE DEF rec
    <2> QED  BY <2>1, <2>2, LinksGoOn DEF pages
  <1>4. CASE Delete(a)
    <2>1. PICK p \in me.del :
            \/ NoLonger(a, {p}, [me EXCEPT !.del = @ \ {p}, !.affected = @ \union {p}])
            \/ Set(a, Thrown(me)) /\ UNCHANGED pages
      BY <1>4 DEF Delete
    <2> DEFINE rest == [me EXCEPT !.del = @ \ {p}, !.affected = @ \union {p}]
    <2>2. DOMAIN rest = Fields /\ LinksOK(rest, unlinked) /\ p \in Path
      BY <1>1 DEF Fields, LinksOK
    <2>3. DOMAIN Thrown(me) = Fields /\ LinksOK(Thrown(me), unlinked)
      BY <1>1 DEF Thrown, Fields, LinksOK, Listing
    <2>4. NoLonger(a, {p}, rest) \/ (Set(a, Thrown(me)) /\ UNCHANGED pages)
      BY <2>1
    <2> HIDE DEF rest
    <2> QED  BY <2>2, <2>3, <2>4, NoLongerLinks, LinksGoOn DEF pages
  <1>5. CASE Rename(a)
    <2>1. PICK x \in me.ren :
            LET rest == [me EXCEPT !.ren = @ \ {x}, !.again = {x[2]}] IN
            \/ /\ DOMAIN page' = DOMAIN page
               /\ unlinked' = IF x[1] \in unlinked THEN (unlinked \ {x[1]}) \union {x[2]} ELSE unlinked
               /\ Wrote(a, {x[1], x[2]}, [rest EXCEPT !.seen = (@ \union {x[1]}) \ {x[2]}, !.wrote = @ \union {x[1], x[2]}])
            \/ Set(a, rest) /\ UNCHANGED pages
      BY <1>5 DEF Rename
    <2> DEFINE rest == [me EXCEPT !.ren = @ \ {x}, !.again = {x[2]}]
               w == [rest EXCEPT !.seen = (@ \union {x[1]}) \ {x[2]}, !.wrote = @ \union {x[1], x[2]}]
    <2>2. x[1] \in Path /\ x[2] \in Path /\ me.pc = "apply" /\ me.again = {}
      BY <1>1, <1>5 DEF LinksOK, Rename
    <2>3. DOMAIN rest = Fields /\ LinksOK(rest, unlinked)
      BY <1>1, <2>2 DEF Fields, LinksOK
    <2>4. CASE Set(a, rest) /\ UNCHANGED pages
      <3> HIDE DEF rest
      <3> QED  BY <2>3, <2>4, LinksGoOn DEF pages
    <2>5. CASE /\ DOMAIN page' = DOMAIN page
               /\ unlinked' = IF x[1] \in unlinked THEN (unlinked \ {x[1]}) \union {x[2]} ELSE unlinked
               /\ Wrote(a, {x[1], x[2]}, w)
      <3>1. DOMAIN w = Fields /\ w.wrote = me.wrote \union {x[1], x[2]}
            /\ \A f \in Fields \ {"seen", "wrote"} : w[f] = rest[f]
        <4> HIDE DEF me
        <4> QED BY <1>1 DEF Fields
      <3>2. w.wrote \intersect unlinked' \subseteq w.affected \union w.again \/ w.outcome \notin Listing
        <4>1. w.again = {x[2]} /\ w.affected = me.affected /\ w.outcome = me.outcome
          BY <1>1, <3>1 DEF Fields
        <4> HIDE DEF w, rest
        <4> QED  BY <1>1, <2>2, <2>5, <3>1, <4>1 DEF LinksOK
      <3>3. LinksOK(w, unlinked')
        BY <2>3, <3>1, <3>2 DEF Fields, LinksOK
      <3>4. DOMAIN page' = Path /\ {x[1], x[2]} \in SUBSET Path /\ unlinked' \subseteq unlinked \union {x[1], x[2]}
        BY <2>2, <2>5 DEF LinksInv
      <3> HIDE DEF w, rest
      <3> QED  BY <2>5, <3>1, <3>3, <3>4, LinksStep
    <2> QED  BY <2>1, <2>4, <2>5
  <1>6. CASE Reimport(a)
    <2>1. PICK p \in me.again :
            LET rest == [me EXCEPT !.again = {}, !.affected = @ \union {p}] IN
            \/ Import(a, p, rest)
            \/ Set(a, rest) /\ UNCHANGED pages
            \/ Set(a, Thrown(rest)) /\ UNCHANGED pages
      BY <1>6 DEF Reimport
    <2> DEFINE rest == [me EXCEPT !.again = {}, !.affected = @ \union {p}]
    <2>2. DOMAIN rest = Fields /\ LinksOK(rest, unlinked) /\ p \in Path
      BY <1>1 DEF Fields, LinksOK
    <2>3. Import(a, p, rest) \/ (Set(a, rest) /\ UNCHANGED pages) \/ (Set(a, Thrown(rest)) /\ UNCHANGED pages)
      BY <2>1
    <2> HIDE DEF rest
    <2>4. DOMAIN Thrown(rest) = Fields /\ LinksOK(Thrown(rest), unlinked)
      BY <2>2 DEF Thrown, Fields, LinksOK, Listing
    <2> QED  BY <2>2, <2>3, <2>4, ImportLinks, LinksGoOn DEF pages
  <1>7. CASE ImportOne(a)
    <2>1. PICK p \in me.imp :
            LET rest == [me EXCEPT !.imp = @ \ {p}] IN
            Import(a, p, rest) \/ \E more : Set(a, [rest EXCEPT !.failed = @ \union more]) /\ UNCHANGED pages
      BY <1>7 DEF ImportOne
    <2> DEFINE rest == [me EXCEPT !.imp = @ \ {p}]
    <2>2. DOMAIN rest = Fields /\ LinksOK(rest, unlinked) /\ p \in Path
      BY <1>1 DEF Fields, LinksOK
    <2>3. Import(a, p, rest) \/ \E more : Set(a, [rest EXCEPT !.failed = @ \union more]) /\ UNCHANGED pages
      BY <2>1
    <2> HIDE DEF rest
    <2>4. \A more : DOMAIN [rest EXCEPT !.failed = @ \union more] = Fields /\ LinksOK([rest EXCEPT !.failed = @ \union more], unlinked)
      BY <2>2 DEF Fields, LinksOK
    <2> QED  BY <2>2, <2>3, <2>4, ImportLinks, LinksGoOn DEF pages
  <1>8. CASE WalkOne(a)
    <2>1. PICK p \in me.walk :
            LET rest == [me EXCEPT !.walk = @ \ {p}, !.processed = @ + 1] IN
            \/ Import(a, p, rest)
            \/ \E more, b : Set(a, [rest EXCEPT !.failed = @ \union more, !.threw = b]) /\ UNCHANGED pages
      BY <1>8 DEF WalkOne
    <2> DEFINE rest == [me EXCEPT !.walk = @ \ {p}, !.processed = @ + 1]
    <2>2. DOMAIN rest = Fields /\ LinksOK(rest, unlinked) /\ p \in Path
      BY <1>1 DEF Fields, LinksOK
    <2>3. Import(a, p, rest) \/ \E more, b : Set(a, [rest EXCEPT !.failed = @ \union more, !.threw = b]) /\ UNCHANGED pages
      BY <2>1
    <2> HIDE DEF rest
    <2>4. \A more, b : LET r == [rest EXCEPT !.failed = @ \union more, !.threw = b] IN
             DOMAIN r = Fields /\ LinksOK(r, unlinked)
      BY <2>2 DEF Fields, LinksOK
    <2> QED  BY <2>2, <2>3, <2>4, ImportLinks, LinksGoOn DEF pages
  <1> QED  BY <1>2, <1>3, <1>4, <1>5, <1>6, <1>7, <1>8

\* Walking, as the only full way of performSync and as all of an import.
LEMMA WalkingLinks ==
    ASSUME NEW rec, DOMAIN rec = Fields, LinksOK(rec, unlinked), rec.again = {}
    PROVE  /\ DOMAIN Walking(rec) = Fields /\ LinksOK(Walking(rec), unlinked)
           /\ DOMAIN FullSync(rec) = Fields /\ LinksOK(FullSync(rec), unlinked)
  <1>1. DOMAIN Walking(rec) = Fields /\ LinksOK(Walking(rec), unlinked)
    <2> DEFINE all == {p \in Path : KindOf[p] # "code" /\ Disk[p] # "none"}
               skip == IF checkpoint.total = Cardinality(all) THEN checkpoint.index ELSE 0
               rest == {p \in all : Before(p, all) >= skip}
    <2>1. Walking(rec) = [rec EXCEPT !.pc = "walk", !.head = HEAD, !.outcome = "full",
                                    !.walk = rest, !.total = Cardinality(all), !.start = skip]
      BY DEF Walking
    <2>2. rest \subseteq Path
      OBVIOUS
    <2> HIDE DEF rest, all, skip
    <2> QED  BY <2>1, <2>2 DEF Fields, LinksOK, Listing
  <1>2. rec.req.dry => FullSync(rec) = [rec EXCEPT !.pc = IF rec.stamp THEN "stamp" ELSE "leave", !.outcome = "dry"]
    BY DEF FullSync
  <1>3. DOMAIN [rec EXCEPT !.pc = IF rec.stamp THEN "stamp" ELSE "leave", !.outcome = "dry"] = Fields
        /\ LinksOK([rec EXCEPT !.pc = IF rec.stamp THEN "stamp" ELSE "leave", !.outcome = "dry"], unlinked)
    BY DEF Fields, LinksOK, Listing
  <1> QED  BY <1>1, <1>2, <1>3 DEF FullSync

LEMMA ManifestLinks ==
    ASSUME NEW rec, DOMAIN rec = Fields, LinksOK(rec, unlinked), rec.again = {}, rec.outcome = "none",
           NEW old, NEW R \in Renames(old, Disk)
    PROVE  DOMAIN Manifest(rec, old, R) = Fields /\ LinksOK(Manifest(rec, old, R), unlinked)
  <1> DEFINE wanted == {p \in Path : isSyncable(p, rec.req.kinds)}
             drop == Modified(old, Disk) \ wanted
             del == (Deleted(old, Disk) \ {x[1] : x \in R}) \cap wanted
             ren == {x \in R : x[2] \in wanted}
             imp == ((Added(old, Disk) \ {x[2] : x \in R}) \union Modified(old, Disk)) \cap wanted
  <1>1. Manifest(rec, old, R) = [rec EXCEPT !.pc = "drop", !.outcome = "synced",
                                           !.drop = drop, !.del = del, !.ren = ren, !.imp = imp]
    BY DEF Manifest
  <1>2. drop \subseteq Path /\ del \subseteq Path /\ imp \subseteq Path /\ ren \subseteq Path \X Path
    BY DEF Renames, Deleted, Added, Modified
  <1> HIDE DEF drop, del, ren, imp
  <1> QED  BY <1>1, <1>2 DEF Fields, LinksOK, Listing

LEMMA PlanLinks ==
    ASSUME LinksInv, NEW a \in Agent, Plan(a)
    PROVE  LinksInv'
  <1> DEFINE me == [agent[a] EXCEPT !.head = HEAD]
             old == tree[IF agent[a].req.full THEN 0 ELSE anchor[Scope]]
  <1>1. DOMAIN agent[a] = Fields /\ LinksOK(agent[a], unlinked) /\ agent[a].again = {} /\ agent[a].outcome = "none"
    BY DEF LinksInv, Shaped, LinksOK, Plan
  <1>2. DOMAIN me = Fields /\ LinksOK(me, unlinked) /\ me.again = {} /\ me.outcome = "none"
    BY <1>1 DEF Fields, LinksOK
  <1>3. DOMAIN [me EXCEPT !.stamp = TRUE] = Fields /\ LinksOK([me EXCEPT !.stamp = TRUE], unlinked)
        /\ [me EXCEPT !.stamp = TRUE].again = {}
    BY <1>2 DEF Fields, LinksOK
  <1>4. DOMAIN [me EXCEPT !.pc = "leave", !.outcome = "up_to_date"] = Fields
        /\ LinksOK([me EXCEPT !.pc = "leave", !.outcome = "up_to_date"], unlinked)
    BY <1>2 DEF Fields, LinksOK, Listing
  <1>5. \/ Set(a, FullSync(me)) \/ Set(a, FullSync([me EXCEPT !.stamp = TRUE]))
        \/ Set(a, [me EXCEPT !.pc = "leave", !.outcome = "up_to_date"])
        \/ \E R \in Renames(old, Disk) : Set(a, Manifest(me, old, R))
    BY DEF Plan
  <1>6. UNCHANGED pages
    BY DEF Plan
  <1> HIDE DEF me, old
  <1>7. \E rec : Set(a, rec) /\ DOMAIN rec = Fields /\ LinksOK(rec, unlinked)
    BY <1>2, <1>3, <1>4, <1>5, WalkingLinks, ManifestLinks
  <1> QED  BY <1>6, <1>7, LinksGoOn DEF pages

LEMMA JudgeLinks ==
    ASSUME LinksInv, NEW a \in Agent, NEW me, DOMAIN me = Fields, LinksOK(me, unlinked),
           me.pc \in {"apply", "walked"}, me.again = {}, Judge(a, me), UNCHANGED pages
    PROVE  LinksInv'
  <1> DEFINE on == [me EXCEPT !.pc = "advance"]
             off == [me EXCEPT !.pc = IF me.stamp THEN "stamp" ELSE "leave",
                              !.outcome = IF @ = "full" THEN "full_blocked" ELSE "blocked"]
  <1>1. Set(a, on) \/ Set(a, off)
    BY DEF Judge
  <1>2. DOMAIN on = Fields /\ LinksOK(on, unlinked)
    BY DEF Fields, LinksOK
  <1>3. DOMAIN off = Fields /\ LinksOK(off, unlinked)
    BY DEF Fields, LinksOK, Listing
  <1> HIDE DEF on, off
  <1> QED  BY <1>1, <1>2, <1>3, LinksGoOn DEF pages

\* The statements of performSync that write no page, and the steps of a cycle.
LEMMA OtherLinks ==
    ASSUME LinksInv, NEW a \in Agent,
           \/ StartSync(a) \/ StartImport(a) \/ StartCycle(a) \/ Gate(a) \/ Advance(a) \/ writeChunkerVersion(a)
           \/ Inline(a) \/ LeaveSync(a) \/ WalkEnd(a) \/ WalkGate(a) \/ CycleSync(a) \/ CycleExtract(a)
           \/ EndCycle(a) \/ CycleAborted(a)
    PROVE  LinksInv'
  <1> DEFINE me == agent[a]
  <1>1. DOMAIN me = Fields /\ LinksOK(me, unlinked)
    BY DEF LinksInv, Shaped
  <1>2. DOMAIN Idle = Fields /\ LinksOK(Idle, unlinked) /\ Idle.again = {}
    BY DEF Idle, Fields, LinksOK
  <1>3. ASSUME NEW rec, DOMAIN rec = Fields, LinksOK(rec, unlinked), Set(a, rec), page' = page, unlinked' \subseteq unlinked
        PROVE  LinksInv'
    BY <1>3, LinksGoOn
  <1>4. CASE StartSync(a)
    <2>1. PICK r : Set(a, [Idle EXCEPT !.pc = "plan", !.req = r])
      BY <1>4 DEF StartSync
    <2>2. DOMAIN [Idle EXCEPT !.pc = "plan", !.req = r] = Fields /\ LinksOK([Idle EXCEPT !.pc = "plan", !.req = r], unlinked)
      BY DEF Idle, Fields, LinksOK
    <2> QED  BY <1>3, <1>4, <2>1, <2>2 DEF StartSync, pages
  <1>5. CASE StartImport(a)
    <2> DEFINE rec == [Walking(Idle) EXCEPT !.outcome = "import"]
    <2>1. Walking(Idle).pc = "walk"
      BY <1>2 DEF Walking, Fields
    <2>2. DOMAIN rec = Fields /\ LinksOK(rec, unlinked)
      BY <1>2, <2>1, WalkingLinks DEF Fields, LinksOK, Listing
    <2>3. Set(a, rec) /\ UNCHANGED pages
      BY <1>5 DEF StartImport
    <2> HIDE DEF rec
    <2> QED  BY <1>3, <2>2, <2>3 DEF pages
  <1>6. CASE StartCycle(a)
    <2>1. DOMAIN [Idle EXCEPT !.pc = "phases"] = Fields /\ LinksOK([Idle EXCEPT !.pc = "phases"], unlinked)
      BY DEF Idle, Fields, LinksOK
    <2> QED  BY <1>3, <1>6, <2>1 DEF StartCycle, pages
  <1>7. CASE Gate(a)
    <2> DEFINE judged == [me EXCEPT !.drifted = HEAD # me.head,
                                   !.failed = IF HEAD # me.head THEN @ \union {[path |-> 0, why |-> "drift"]} ELSE @]
    <2>1. Judge(a, judged) /\ UNCHANGED pages /\ me.pc = "apply" /\ me.again = {}
      BY <1>7 DEF Gate
    <2>2. DOMAIN judged = Fields /\ LinksOK(judged, unlinked) /\ judged.pc = "apply" /\ judged.again = {}
      BY <1>1, <2>1 DEF Fields, LinksOK
    <2> HIDE DEF judged
    <2> QED  BY <2>1, <2>2, JudgeLinks
  <1>8. CASE WalkGate(a)
    <2>1. Judge(a, me) /\ UNCHANGED pages /\ me.pc = "walked" /\ me.again = {}
      BY <1>1, <1>8 DEF WalkGate, LinksOK
    <2> QED  BY <1>1, <2>1, JudgeLinks
  <1>9. CASE Advance(a) \/ writeChunkerVersion(a)
    <2>1. PICK pc : Set(a, [me EXCEPT !.pc = pc]) /\ pc \in {"stamp", "inline", "leave"} /\ (pc = "inline" => me.outcome = "synced")
      BY <1>9 DEF Advance, writeChunkerVersion, GoTo, Set
    <2>2. me.pc \in {"advance", "stamp"} /\ UNCHANGED pages
      BY <1>9 DEF Advance, writeChunkerVersion
    <2>3. DOMAIN [me EXCEPT !.pc = pc] = Fields /\ LinksOK([me EXCEPT !.pc = pc], unlinked)
      BY <1>1, <2>1, <2>2 DEF Fields, LinksOK
    <2> QED  BY <1>3, <2>1, <2>2, <2>3 DEF pages
  <1>10. CASE Inline(a) \/ CycleExtract(a)
    <2>1. PICK pc, missed : Set(a, [me EXCEPT !.pc = pc, !.missed = missed]) /\ pc \in {"leave", "release"}
                          /\ (pc = "leave" => me.pc = "inline") /\ unlinked' \subseteq unlinked /\ page' = page
      <3> DEFINE next == [me EXCEPT !.pc = IF me.pc = "inline" THEN "leave" ELSE "release"]
      <3>1. Set(a, next) \/ Set(a, [next EXCEPT !.missed = TRUE])
        BY <1>10 DEF Inline, CycleExtract, Extract
      <3>2. next = [me EXCEPT !.pc = IF me.pc = "inline" THEN "leave" ELSE "release", !.missed = me.missed]
        BY <1>1 DEF Fields
      <3>3. [next EXCEPT !.missed = TRUE] = [me EXCEPT !.pc = IF me.pc = "inline" THEN "leave" ELSE "release", !.missed = TRUE]
        BY <1>1 DEF Fields
      <3>4. unlinked' \subseteq unlinked /\ page' = page
        BY <1>10 DEF Inline, CycleExtract, Extract
      <3> HIDE DEF next
      <3> QED  BY <3>1, <3>2, <3>3, <3>4
    <2>2. me.pc \in {"inline", "extract"}
      BY <1>10 DEF Inline, CycleExtract
    <2> DEFINE rec == [me EXCEPT !.pc = pc, !.missed = missed]
    <2>3. DOMAIN rec = Fields /\ LinksOK(rec, unlinked)
      BY <1>1, <2>1, <2>2 DEF Fields, LinksOK
    <2> HIDE DEF rec
    <2> QED  BY <1>3, <2>1, <2>3 DEF rec
  <1>11. CASE LeaveSync(a) \/ EndCycle(a)
    <2>1. (Set(a, [me EXCEPT !.pc = "extract"]) /\ me.pc = "leave") \/ Set(a, Idle)
      BY <1>11 DEF LeaveSync, EndCycle
    <2>2. me.pc = "leave" => DOMAIN [me EXCEPT !.pc = "extract"] = Fields /\ LinksOK([me EXCEPT !.pc = "extract"], unlinked)
      BY <1>1 DEF Fields, LinksOK
    <2> QED  BY <1>2, <1>3, <1>11, <2>1, <2>2 DEF LeaveSync, EndCycle, pages
  <1>12. CASE WalkEnd(a)
    <2> DEFINE done == [me EXCEPT !.drifted = HEAD # me.head, !.affected = {}]
               rec == [done EXCEPT !.pc = "walked"]
    <2>1. (me.outcome = "import" /\ Set(a, Idle)) \/ (me.outcome # "import" /\ Set(a, rec))
      BY <1>12 DEF WalkEnd
    <2>2. me.pc = "walk" /\ UNCHANGED pages
      BY <1>12 DEF WalkEnd
    <2>3. me.outcome # "import" => DOMAIN rec = Fields /\ LinksOK(rec, unlinked)
      BY <1>1, <2>2 DEF Fields, LinksOK, Listing
    <2> HIDE DEF rec
    <2> QED  BY <1>2, <1>3, <2>1, <2>2, <2>3 DEF pages
  <1>13. CASE CycleSync(a)
    <2>1. Set(a, [me EXCEPT !.pc = "plan"]) \/ Set(a, [me EXCEPT !.pc = "extract", !.outcome = "thrown"])
      BY <1>13 DEF CycleSync, GoTo, Set
    <2>2. me.pc = "phases" /\ UNCHANGED pages
      BY <1>13 DEF CycleSync
    <2>3. /\ DOMAIN [me EXCEPT !.pc = "plan"] = Fields /\ LinksOK([me EXCEPT !.pc = "plan"], unlinked)
          /\ DOMAIN [me EXCEPT !.pc = "extract", !.outcome = "thrown"] = Fields
          /\ LinksOK([me EXCEPT !.pc = "extract", !.outcome = "thrown"], unlinked)
      BY <1>1, <2>2 DEF Fields, LinksOK, Listing
    <2> QED  BY <1>3, <2>1, <2>2, <2>3 DEF pages
  <1>14. CASE CycleAborted(a)
    <2>1. DOMAIN [me EXCEPT !.pc = "release", !.missed = TRUE] = Fields
          /\ LinksOK([me EXCEPT !.pc = "release", !.missed = TRUE], unlinked)
      BY <1>1, <1>14 DEF Fields, LinksOK, CycleAborted
    <2> QED  BY <1>3, <1>14, <2>1 DEF CycleAborted, pages
  <1> QED  BY <1>4, <1>5, <1>6, <1>7, <1>8, <1>9, <1>10, <1>11, <1>12, <1>13, <1>14

LEMMA StepOfOne ==
    ASSUME NEW b \in Agent, StartSync(b) \/ StartImport(b) \/ StartCycle(b) \/ Step(b) \/ CycleAborted(b)
    PROVE  \E rec : StepTo(b, rec)
  <1>1. CASE StartSync(b) \/ StartImport(b) \/ StartCycle(b) \/ CycleAborted(b) \/ EndCycle(b) \/ LeaveSync(b)
    BY <1>1 DEF StepTo, StartSync, StartImport, StartCycle, CycleAborted, EndCycle, LeaveSync
  <1>2. CASE Plan(b)
    BY <1>2 DEF StepTo, Plan
  <1>3. CASE DropUnsyncable(b) \/ Delete(b)
    BY <1>3 DEF StepTo, DropUnsyncable, Delete, NoLonger
  <1>4. CASE Decide(b) \/ Rename(b)
    BY <1>4 DEF StepTo, Decide, Rename
  <1>5. CASE Reimport(b)
    BY <1>5 DEF StepTo, Reimport, Import
  <1>6. CASE ImportOne(b)
    BY <1>6 DEF StepTo, ImportOne, Import
  <1>7. CASE WalkOne(b)
    BY <1>7 DEF StepTo, WalkOne, Import
  <1>8. CASE Gate(b) \/ WalkGate(b)
    BY <1>8 DEF StepTo, Gate, WalkGate, Judge
  <1>9. CASE Advance(b) \/ writeChunkerVersion(b) \/ CycleSync(b)
    BY <1>9 DEF StepTo, Advance, writeChunkerVersion, CycleSync, GoTo, Set
  <1>10. CASE Inline(b) \/ CycleExtract(b)
    BY <1>10 DEF StepTo, Inline, CycleExtract, Extract
  <1>11. CASE WalkEnd(b)
    BY <1>11 DEF StepTo, WalkEnd
  <1> QED  BY <1>1, <1>2, <1>3, <1>4, <1>5, <1>6, <1>7, <1>8, <1>9, <1>10, <1>11 DEF Step

\* An extraction without an error takes every file that is there and on the list.
LEMMA NoLinksLeft ==
    ASSUME LinksInv, NEW a \in Agent, Inline(a) \/ CycleExtract(a)
    PROVE  ~LinksLeft(a, {"synced", "blocked", "thrown", "up_to_date"})
  <1> DEFINE me == agent[a]
             next == [me EXCEPT !.pc = IF me.pc = "inline" THEN "leave" ELSE "release"]
             which == IF me.pc = "extract" /\ me.outcome = "thrown" THEN Path ELSE me.affected
  <1>1. DOMAIN me = Fields /\ LinksOK(me, unlinked) /\ unlinked \subseteq Path /\ DOMAIN agent = Agent
    BY DEF LinksInv, Shaped
  <1>2. \/ unlinked' = unlinked \ {p \in which : Disk[p] # "none"} /\ Set(a, next)
        \/ Set(a, [next EXCEPT !.missed = TRUE])
    BY DEF Inline, CycleExtract, Extract
  <1>3. CASE Set(a, [next EXCEPT !.missed = TRUE])
    <2>1. agent'[a].missed = TRUE
      BY <1>1, <1>3 DEF Set, Fields
    <2> QED  BY <2>1 DEF LinksLeft
  <1>4. CASE unlinked' = unlinked \ {p \in which : Disk[p] # "none"} /\ Set(a, next)
    <2>1. agent'[a].wrote = me.wrote /\ agent'[a].outcome = me.outcome
      BY <1>1, <1>4 DEF Set, Fields
    <2>2. me.again = {} \/ (me.outcome = "thrown" /\ me.pc = "extract")
      <3>1. me.pc \in {"inline", "extract"}
        BY DEF Inline, CycleExtract
      <3> QED  BY <1>1, <3>1 DEF LinksOK
    <2>3. ASSUME me.outcome \in {"synced", "blocked", "thrown", "up_to_date"},
                 NEW p \in me.wrote \cap unlinked', Disk[p] # "none"
          PROVE  FALSE
      <3>1. p \in unlinked /\ p \in Path /\ p \notin which
        BY <1>1, <1>4, <2>3
      <3>2. me.outcome # "thrown"
        BY <1>1, <2>2, <3>1 DEF LinksOK, Inline, CycleExtract
      <3>3. p \in me.affected \union me.again
        BY <1>1, <2>3, <3>1, <3>2 DEF LinksOK, Listing
      <3> QED  BY <2>2, <3>1, <3>2, <3>3
    <2> QED  BY <2>1, <2>3 DEF LinksLeft
  <1> QED  BY <1>2, <1>3, <1>4

LEMMA InitLinks == Init => LinksInv
  <1> SUFFICES ASSUME Init PROVE LinksInv  OBVIOUS
  <1>1. DOMAIN page = Path /\ unlinked \subseteq Path /\ agent = [a \in Agent |-> Idle]
    BY DEF Init
  <1>2. DOMAIN Idle = Fields /\ LinksOK(Idle, unlinked)
    BY DEF Idle, Fields, LinksOK
  <1> QED  BY <1>1, <1>2 DEF LinksInv, Shaped

LEMMA StepLinks ==
    ASSUME LinksInv, [Next]_vars
    PROVE  LinksInv' /\ [\A a \in Agent : ~LinksLeft(a, {"synced", "blocked", "thrown", "up_to_date"})]_vars
  <1>1. ASSUME NEW b \in Agent, StartSync(b) \/ StartImport(b) \/ StartCycle(b) \/ Step(b) \/ CycleAborted(b)
        PROVE  LinksInv' /\ \A a \in Agent : ~LinksLeft(a, {"synced", "blocked", "thrown", "up_to_date"})
    <2>1. LinksInv'
      BY <1>1, PlanLinks, FilesLinks, OtherLinks DEF Step
    <2>2. \A a \in Agent \ {b} : agent'[a].pc = agent[a].pc
      <3>1. "pc" \in Fields \ Shared
        BY DEF Fields, Shared
      <3> QED  BY <1>1, <3>1, StepOfOne, OthersKeep DEF LinksInv
    <2>3. \A a \in Agent \ {b} : ~LinksLeft(a, {"synced", "blocked", "thrown", "up_to_date"})
      BY <2>2 DEF LinksLeft
    <2>4. ~LinksLeft(b, {"synced", "blocked", "thrown", "up_to_date"})
      <3>1. CASE Inline(b) \/ CycleExtract(b)
        BY <3>1, NoLinksLeft
      <3>2. CASE CycleAborted(b)
        <4>1. agent'[b].missed = TRUE
          BY <3>2 DEF CycleAborted, Set, LinksInv, Shaped, Fields
        <4> QED  BY <4>1 DEF LinksLeft
      <3>3. CASE \/ StartSync(b) \/ StartImport(b) \/ StartCycle(b) \/ Plan(b) \/ DropUnsyncable(b) \/ Decide(b)
                 \/ Delete(b) \/ Rename(b) \/ Reimport(b) \/ ImportOne(b)
        <4>1. agent[b].pc \notin {"inline", "extract"}
          BY <3>3 DEF StartSync, StartImport, StartCycle, Plan, DropUnsyncable, Decide, Delete, Rename, Reimport, ImportOne
        <4> QED  BY <4>1 DEF LinksLeft
      <3>4. CASE \/ Gate(b) \/ Advance(b) \/ writeChunkerVersion(b) \/ LeaveSync(b) \/ WalkOne(b) \/ WalkEnd(b)
                 \/ WalkGate(b) \/ CycleSync(b) \/ EndCycle(b)
        <4>1. agent[b].pc \notin {"inline", "extract"}
          BY <3>4 DEF Gate, Advance, writeChunkerVersion, LeaveSync, WalkOne, WalkEnd, WalkGate, CycleSync, EndCycle
        <4> QED  BY <4>1 DEF LinksLeft
      <3> QED  BY <1>1, <3>1, <3>2, <3>3, <3>4 DEF Step
    <2> QED  BY <2>1, <2>3, <2>4
  <1>2. CASE \E pid \in Pid : Crash(pid)
    <2>1. PICK dead \in SUBSET Agent : agent' = [a \in Agent |-> IF a \in dead THEN Idle ELSE agent[a]]
      BY <1>2 DEF Crash
    <2>2. UNCHANGED pages
      BY <1>2 DEF Crash
    <2>3. DOMAIN Idle = Fields /\ LinksOK(Idle, unlinked) /\ Idle.pc = "idle"
      BY DEF Idle, Fields, LinksOK
    <2>4. LinksInv'
      BY <2>1, <2>2, <2>3 DEF LinksInv, Shaped, pages
    <2>5. \A a \in Agent : agent'[a].pc \in {"idle", agent[a].pc}
      BY <2>1, <2>3
    <2> QED  BY <2>4, <2>5 DEF LinksLeft
  <1>3. CASE Commit \/ Rewrite \/ Upgrade \/ (\E i \in LockId : Expire(i)) \/ UNCHANGED vars
    <2>1. UNCHANGED <<agent, page, unlinked>>
      BY <1>3 DEF Commit, Rewrite, Upgrade, Elsewhere, Expire, vars, pages
    <2> QED  BY <2>1 DEF LinksInv, Shaped, LinksLeft
  <1> QED  BY <1>1, <1>2, <1>3 DEF Next

\* A run that has extracted links without an error leaves no page that it was the last to write
\* without its links (sync.ts pagesAffected, cycle.ts "extract"), whoever else syncs, imports or
\* extracts at the same time, with locks or without.
THEOREM LinksFollowHolds == Spec => LinksFollow
  <1>1. Init => LinksInv
    BY InitLinks
  <1>2. LinksInv /\ [Next]_vars =>
          LinksInv' /\ [\A a \in Agent : ~LinksLeft(a, {"synced", "blocked", "thrown", "up_to_date"})]_vars
    BY StepLinks
  <1> QED  BY <1>1, <1>2, PTL DEF Spec, LinksFollow
-----------------------------------------------------------------------------
(* What the bookmark says.  A sync owes every markdown path an account: the *)
(* path is still to do, the run has seen to it, it has failed, somebody has *)
(* written it since, or nothing has happened to it between the bookmark and *)
(* the HEAD that the run has captured.                                     *)

Md == {p \in Path : KindOf[p] = "md"}
Working == {"drop", "apply", "walk", "walked", "advance"}
AtWork(a) == InSync(a) /\ agent[a].pc \in Working

Todo(a) ==
    LET me == agent[a] IN
    me.del \union me.imp \union me.again \union me.walk \union {x[1] : x \in me.ren} \union {x[2] : x \in me.ren}
FailedPaths(a) == {f.path : f \in agent[a].failed}

\* Between the bookmark and the HEAD captured nothing has happened to the file; a walk knows no bookmark.
Settled(a, p) ==
    IF agent[a].outcome = "synced"
    THEN anchor["source"] # 0 /\ tree[agent[a].head][p] = tree[anchor["source"]][p]
    ELSE tree[agent[a].head][p] = "none"

Covered(a) ==
    \A p \in Md : p \in Todo(a) \union agent[a].seen \union FailedPaths(a) \union unsettled \/ Settled(a, p)

\* As long as HEAD stands where it was captured, what the run has seen to is as it should be.
Steady(a) == IF agent[a].pc \in {"drop", "apply", "walk"} THEN HEAD = agent[a].head ELSE ~agent[a].drifted
Right(a) == Steady(a) => \A p \in Md \intersect agent[a].seen : page[p].text = tree[agent[a].head][p]

\* What is to be removed is gone from the tree.
Gone(a) == \A p \in agent[a].del \union {x[1] : x \in agent[a].ren} : tree[agent[a].head][p] = "none"

\* Which of the locals are in use at which statement.
InOrder(a) ==
    LET me == agent[a] IN
    /\ me.pc = "drop" => me.drop \intersect Md = {} /\ me.seen \intersect Md = {} /\ me.failed = {}
    /\ me.pc \in {"drop", "apply"} => me.walk = {}
    /\ me.pc \in {"walk", "walked"} => me.del = {} /\ me.ren = {} /\ me.imp = {} /\ me.again = {}
    /\ me.pc = "walked" => me.walk = {}
    /\ me.pc = "advance" =>
         Todo(a) = {} /\ FailedPaths(a) \subseteq Acknowledged /\ me.outcome \in {"synced", "full"}

\* A sync that has still to look at the repository.
Clean(a) ==
    LET me == agent[a] IN
    /\ me.drop \union me.del \union me.ren \union me.imp \union me.again \union me.walk \union me.seen \union me.failed = {}
    /\ "md" \in me.req.kinds

RunOK(a) ==
    /\ agent[a].pc \in {"phases", "plan"} => Clean(a)
    /\ AtWork(a) => Right(a) /\ Covered(a) /\ Gone(a) /\ InOrder(a)

LedgerOK == \A e \in ledger : DOMAIN e = {"path", "why", "commit", "acked"}

HonestInv == BookmarkInv /\ LinksInv /\ LedgerOK /\ Honest /\ checkpoint = NoCheckpoint /\ \A a \in Agent : RunOK(a)

\* A step that moves no bookmark: what it writes is unsettled.
Stays ==
    /\ anchor'["source"] = anchor["source"]
    /\ \A n \in 1..Len(tree) : tree'[n] = tree[n]
    /\ Acknowledged \subseteq Acknowledged' /\ unsettled \subseteq unsettled'
    /\ \A p \in Path \ unsettled' : page'[p] = page[p]

LEMMA HonestStays ==
    ASSUME Scope = "source", BookmarkInv, Honest, Stays
    PROVE  Honest'
  <1>1. anchor["source"] \in 0..Len(tree)
    BY DEF BookmarkInv
  <1>2. CASE anchor["source"] = 0
    BY <1>2 DEF Stays, Honest
  <1>3. CASE anchor["source"] # 0
    <2>1. anchor["source"] \in 1..Len(tree)
      BY <1>1, <1>3 DEF BookmarkInv, HistoryInv
    <2>2. tree'[anchor'["source"]] = tree[anchor["source"]]
      BY <2>1 DEF Stays
    <2> QED  BY <1>3, <2>2 DEF Stays, Honest
  <1> QED  BY <1>2, <1>3

\* A run that has captured HEAD knows a commit that was made.
LEMMA AtWorkAt ==
    ASSUME BookmarkInv, NEW a \in Agent, AtWork(a)
    PROVE  agent[a].head \in 1..Len(tree) /\ anchor["source"] \in 0..Len(tree) /\ Len(tree) \in Nat
  BY DEF BookmarkInv, AheadOf, AtWork, Captured, Working, HistoryInv

\* A run that does nothing itself, while git or another run goes on.
LEMMA BystanderOK ==
    ASSUME BookmarkInv, NEW b \in Agent, RunOK(b), Stays,
           HEAD' = HEAD \/ HEAD' \notin 1..Len(tree),
           \A f \in Fields \ Shared : agent'[b][f] = agent[b][f],
           agent'[b].seen \subseteq agent[b].seen, agent[b].seen \ agent'[b].seen \subseteq unsettled',
           \A p \in Path \intersect agent'[b].seen : page'[p] = page[p],
           agent[b].pc \in {"phases", "plan"} => agent'[b].seen = agent[b].seen
    PROVE  RunOK(b)'
  <1>1. \A f \in {"pc", "outcome", "head", "drifted", "failed", "drop", "del", "ren", "imp", "again", "walk", "req"} :
          agent'[b][f] = agent[b][f]
    BY DEF Fields, Shared
  <1>2. ASSUME agent[b].pc \in {"phases", "plan"}
        PROVE  Clean(b)'
    BY <1>1, <1>2 DEF RunOK, Clean
  <1>3. ASSUME AtWork(b)
        PROVE  Right(b)' /\ Covered(b)' /\ Gone(b)' /\ InOrder(b)'
    <2>1. agent[b].head \in 1..Len(tree) /\ tree'[agent[b].head] = tree[agent[b].head]
      BY <1>3, AtWorkAt DEF Stays
    <2>2. anchor["source"] # 0 => tree'[anchor["source"]] = tree[anchor["source"]]
      BY <1>3, AtWorkAt DEF Stays
    <2>3. Right(b) /\ Covered(b) /\ Gone(b) /\ InOrder(b)
      BY <1>3 DEF RunOK
    <2>4. Right(b)'
      <3>1. Steady(b)' => Steady(b)
        BY <1>1, <2>1 DEF Steady
      <3> QED  BY <1>1, <2>1, <2>3, <3>1 DEF Right, Md
    <2>5. Covered(b)'
      <3>1. Todo(b)' = Todo(b) /\ FailedPaths(b)' = FailedPaths(b)
        BY <1>1 DEF Todo, FailedPaths
      <3>2. \A p \in Md : Settled(b, p)' <=> Settled(b, p)
        BY <1>1, <2>1, <2>2 DEF Settled, Stays
      <3> QED  BY <2>3, <3>1, <3>2 DEF Covered, Stays
    <2>6. Gone(b)'
      BY <1>1, <2>1, <2>3 DEF Gone
    <2>7. InOrder(b)'
      <3>1. Todo(b)' = Todo(b) /\ FailedPaths(b)' = FailedPaths(b)
        BY <1>1 DEF Todo, FailedPaths
      <3> QED  BY <1>1, <2>3, <3>1 DEF InOrder, Stays
    <2> QED  BY <2>4, <2>5, <2>6, <2>7
  <1>4. AtWork(b)' => AtWork(b)
    BY <1>1 DEF AtWork, InSync
  <1> QED  BY <1>1, <1>2, <1>3, <1>4 DEF RunOK

\* A step of one run, once that run has its account in order.
LEMMA OneRun ==
    ASSUME Scope = "source", HonestInv, NEW a \in Agent, NEW rec,
           \/ Set(a, rec) /\ page' = page /\ unsettled \subseteq unsettled'
           \/ \E written \in SUBSET Path : Wrote(a, written, rec) /\ \A p \in Path \ written : page'[p] = page[p],
           UNCHANGED repo, anchor'["source"] = anchor["source"], Acknowledged \subseteq Acknowledged', RunOK(a)'
    PROVE  Honest' /\ \A b \in Agent : RunOK(b)'
  <1>1. tree' = tree /\ HEAD' = HEAD
    BY DEF repo, HEAD
  <1>2. Stays
    BY <1>1 DEF Stays, Wrote
  <1>3. StepTo(a, rec) /\ Shaped /\ BookmarkInv
    BY DEF StepTo, HonestInv, LinksInv
  <1>4. ASSUME NEW b \in Agent \ {a}
        PROVE  RunOK(b)'
    <2>1. \A f \in Fields \ Shared : agent'[b][f] = agent[b][f]
      BY <1>3, OthersKeep
    <2>2. /\ agent'[b].seen \subseteq agent[b].seen /\ agent[b].seen \ agent'[b].seen \subseteq unsettled'
          /\ \A p \in Path \intersect agent'[b].seen : page'[p] = page[p]
      <3>1. CASE Set(a, rec) /\ page' = page
        BY <1>3, <3>1 DEF Set, Shaped
      <3>2. ASSUME NEW written, Wrote(a, written, rec), \A p \in Path \ written : page'[p] = page[p]
            PROVE  /\ agent'[b].seen \subseteq agent[b].seen /\ agent[b].seen \ agent'[b].seen \subseteq unsettled'
                   /\ \A p \in Path \intersect agent'[b].seen : page'[p] = page[p]
        <4>1. agent'[b].seen = agent[b].seen \ written
          BY <1>3, <3>2 DEF Wrote, Shaped, Fields
        <4> QED  BY <3>2, <4>1 DEF Wrote
      <3> QED  BY <3>1, <3>2
    <2>3. RunOK(b)
      BY DEF HonestInv
    <2>4. agent[b].pc \in {"phases", "plan"} => agent'[b].seen = agent[b].seen
      BY <2>2, <2>3 DEF RunOK, Clean
    <2> QED  BY <1>1, <1>2, <1>3, <2>1, <2>2, <2>3, <2>4, BystanderOK
  <1>5. Honest'
    BY <1>2, HonestStays DEF HonestInv
  <1> QED  BY <1>4, <1>5

\* A run that has gone on to a statement where it owes nothing.
LEMMA NothingOwed ==
    ASSUME NEW a \in Agent, \/ agent'[a].pc \notin Working \union {"phases", "plan"}
                            \/ agent'[a].pc = "walk" /\ agent'[a].outcome = "import"
    PROVE  RunOK(a)'
  BY DEF RunOK, AtWork, InSync, Working

-----------------------------------------------------------------------------
(* Files.                                                                  *)

\* A statement of the diff or of the walk: paths leave the list by being seen to, by failing or by
\* being unsettled, and what the run has seen to is as the tree that it read.
LEMMA FileDone ==
    ASSUME HonestInv, NEW a \in Agent, AtWork(a), agent[a].pc \in {"drop", "apply", "walk"},
           \A f \in {"pc", "outcome", "head"} : agent'[a][f] = agent[a][f],
           UNCHANGED repo, anchor'["source"] = anchor["source"], unsettled \subseteq unsettled',
           \A p \in Md : p \in Todo(a) \union agent[a].seen \union FailedPaths(a)
                           => p \in Todo(a)' \union agent'[a].seen \union FailedPaths(a)' \union unsettled',
           \A p \in Md \intersect agent'[a].seen :
             \/ p \in agent[a].seen /\ page'[p] = page[p]
             \/ page'[p].text = Disk[p]
             \/ page'[p].text = tree[agent[a].head][p],
           agent'[a].del \subseteq agent[a].del, agent'[a].ren \subseteq agent[a].ren, InOrder(a)'
    PROVE  RunOK(a)'
  <1>1. Right(a) /\ Covered(a) /\ Gone(a)
    BY DEF HonestInv, RunOK
  <1>2. tree' = tree /\ HEAD' = HEAD
    BY DEF repo, HEAD
  <1>3. /\ agent'[a].pc = agent[a].pc /\ agent'[a].outcome = agent[a].outcome
        /\ agent'[a].head = agent[a].head
    OBVIOUS
  <1>4. Right(a)'
    BY <1>1, <1>2, <1>3 DEF Right, Steady, Disk
  <1>5. Covered(a)'
    <2>1. \A p \in Md : Settled(a, p)' <=> Settled(a, p)
      BY <1>2, <1>3 DEF Settled
    <2> QED  BY <1>1, <2>1 DEF Covered
  <1>6. Gone(a)'
    BY <1>1, <1>2, <1>3 DEF Gone
  <1> QED  BY <1>3, <1>4, <1>5, <1>6 DEF RunOK, Working

\* What importFile does to a page, and to the locals of its caller.
LEMMA Imports ==
    ASSUME LinksInv, NEW a \in Agent, NEW p \in Path, NEW me, DOMAIN me = Fields, Import(a, p, me)
    PROVE  /\ \E rec : \/ Set(a, rec) /\ page' = page /\ unsettled \subseteq unsettled'
                       \/ \E written \in SUBSET Path : /\ Wrote(a, written, rec)
                                                       /\ \A q \in Path \ written : page'[q] = page[q]
           /\ agent'[a].seen = me.seen \union {p}
           /\ \A f \in Fields \ {"seen", "wrote", "affected"} : agent'[a][f] = me[f]
           /\ page'[p].text = Disk[p] /\ \A q \in Path \ {p} : page'[q] = page[q]
           /\ unsettled \subseteq unsettled'
  <1> DEFINE r == [me EXCEPT !.seen = @ \union {p}]
             w == [r EXCEPT !.wrote = @ \union {p}, !.affected = @ \union {p}]
  <1>1. /\ r.seen = me.seen \union {p} /\ w.seen = me.seen \union {p}
        /\ \A f \in Fields \ {"seen", "wrote", "affected"} : r[f] = me[f] /\ w[f] = me[f]
    BY DEF Fields
  <1>2. DOMAIN page = Path /\ DOMAIN agent = Agent
    BY DEF LinksInv, Shaped
  <1>3. CASE Unchanged(p) /\ Set(a, r) /\ UNCHANGED <<pages, unsettled>>
    <2> HIDE DEF r, w
    <2>1. agent'[a] = r
      BY <1>2, <1>3 DEF Set
    <2> QED  BY <1>1, <1>3, <2>1 DEF Unchanged, pages
  <1>4. CASE page' = [page EXCEPT ![p] = [text |-> Disk[p], chunks |-> chunker]] /\ Wrote(a, {p}, w)
    <2> HIDE DEF r, w
    <2>1. agent'[a] = w /\ unsettled \subseteq unsettled' /\ {p} \in SUBSET Path
      BY <1>4 DEF Wrote
    <2> QED  BY <1>1, <1>2, <1>4, <2>1
  <1> QED  BY <1>3, <1>4 DEF Import

LEMMA Removes ==
    ASSUME LinksInv, NEW a \in Agent, NEW p \in Path, NEW me, DOMAIN me = Fields, NoLonger(a, {p}, me)
    PROVE  /\ \E rec : \E written \in SUBSET Path : /\ Wrote(a, written, rec)
                                                    /\ \A q \in Path \ written : page'[q] = page[q]
           /\ agent'[a].seen = me.seen \union {p}
           /\ \A f \in Fields \ {"seen", "wrote"} : agent'[a][f] = me[f]
           /\ page'[p].text = "none" /\ \A q \in Path \ {p} : page'[q] = page[q]
           /\ unsettled \subseteq unsettled'
  <1> DEFINE w == [me EXCEPT !.seen = @ \union {p}, !.wrote = @ \union {p}]
  <1>1. w.seen = me.seen \union {p} /\ \A f \in Fields \ {"seen", "wrote"} : w[f] = me[f]
    BY DEF Fields
  <1>2. Wrote(a, {p}, w) /\ page' = [q \in Path |-> IF q \in {p} THEN NoPage ELSE page[q]]
    BY DEF NoLonger
  <1> HIDE DEF w
  <1>3. agent'[a] = w /\ unsettled \subseteq unsettled' /\ {p} \in SUBSET Path
    BY <1>2 DEF Wrote
  <1> QED  BY <1>1, <1>2, <1>3 DEF NoPage

LEMMA Here ==
    ASSUME HonestInv, NEW a \in Agent, agent[a].pc \in Working, agent[a].outcome # "import"
    PROVE  /\ AtWork(a) /\ Right(a) /\ Covered(a) /\ Gone(a) /\ InOrder(a)
           /\ DOMAIN agent[a] = Fields /\ DOMAIN agent = Agent /\ DOMAIN page = Path /\ LinksInv
           /\ LinksOK(agent[a], unlinked)
  <1>1. AtWork(a)
    BY DEF AtWork, InSync, Working, Syncing
  <1> QED  BY <1>1 DEF HonestInv, LinksInv, Shaped, RunOK

\* A statement of the diff is that of a sync.
LEMMA NoImport ==
    ASSUME HonestInv, NEW a \in Agent, agent[a].pc \in Syncing \ {"walk"}
    PROVE  agent[a].outcome # "import"
  BY DEF HonestInv, BookmarkInv, LocksInv, Placed

LEMMA DropHonest ==
    ASSUME Scope = "source", HonestInv, NEW a \in Agent, DropUnsyncable(a)
    PROVE  Honest' /\ \A b \in Agent : RunOK(b)'
  <1> DEFINE me == agent[a]
             rest(p) == [me EXCEPT !.drop = @ \ {p}]
  <1>1. me.pc = "drop" /\ me.outcome # "import"
    BY NoImport DEF DropUnsyncable, Syncing
  <1>2. /\ AtWork(a) /\ Covered(a) /\ InOrder(a) /\ DOMAIN me = Fields /\ DOMAIN agent = Agent
        /\ LinksOK(me, unlinked) /\ LinksInv
    BY <1>1, Here DEF Working
  <1>3. PICK p \in me.drop : NoLonger(a, {p}, rest(p)) \/ (Set(a, rest(p)) /\ UNCHANGED <<pages, unsettled>>)
    BY DEF DropUnsyncable
  <1>4. DOMAIN rest(p) = Fields /\ rest(p).drop = me.drop \ {p} /\ \A f \in Fields \ {"drop"} : rest(p)[f] = me[f]
    BY <1>2 DEF Fields
  <1>5. p \in Path /\ p \notin Md
    BY <1>1, <1>2, <1>3 DEF LinksOK, InOrder
  <1> HIDE DEF rest
  <1>6. /\ \E rec : \/ Set(a, rec) /\ page' = page /\ unsettled \subseteq unsettled'
                    \/ \E written \in SUBSET Path : Wrote(a, written, rec) /\ \A q \in Path \ written : page'[q] = page[q]
        /\ agent'[a].seen \in {me.seen, me.seen \union {p}} /\ agent'[a].drop = me.drop \ {p}
        /\ \A f \in Fields \ {"seen", "wrote", "drop"} : agent'[a][f] = me[f]
        /\ \A q \in Path \ {p} : page'[q] = page[q]
        /\ unsettled \subseteq unsettled'
    <2>1. CASE NoLonger(a, {p}, rest(p))
      <3>1. rest(p).seen = me.seen
        BY <1>4 DEF Fields
      <3>2. /\ \E rec : \E written \in SUBSET Path : Wrote(a, written, rec) /\ \A q \in Path \ written : page'[q] = page[q]
            /\ agent'[a].seen = rest(p).seen \union {p}
            /\ \A f \in Fields \ {"seen", "wrote"} : agent'[a][f] = rest(p)[f]
            /\ page'[p].text = "none" /\ \A q \in Path \ {p} : page'[q] = page[q]
            /\ unsettled \subseteq unsettled'
        BY <1>2, <1>4, <1>5, <2>1, Removes
      <3> QED  BY <1>4, <3>1, <3>2 DEF Fields
    <2>2. CASE Set(a, rest(p)) /\ UNCHANGED <<pages, unsettled>>
      BY <1>2, <1>4, <2>2 DEF Set, pages, Fields
    <2> QED  BY <1>3, <2>1, <2>2
  <1>7. \A f \in {"pc", "outcome", "head", "del", "ren", "imp", "again", "walk", "failed"} : agent'[a][f] = me[f]
    BY <1>6 DEF Fields
  <1>8. Todo(a)' = Todo(a) /\ FailedPaths(a)' = FailedPaths(a)
    BY <1>7 DEF Todo, FailedPaths
  <1>9. UNCHANGED repo /\ anchor' = anchor /\ ledger' = ledger
    BY DEF DropUnsyncable, bookmark, files
  <1>10. InOrder(a)'
    BY <1>1, <1>2, <1>5, <1>6, <1>7 DEF InOrder
  <1>11. \A q \in Md \intersect agent'[a].seen : q \in me.seen /\ page'[q] = page[q]
    BY <1>5, <1>6 DEF Md
  <1>12. RunOK(a)'
    BY <1>1, <1>2, <1>6, <1>7, <1>8, <1>9, <1>10, <1>11, FileDone
  <1> QED  BY <1>6, <1>9, <1>12, OneRun DEF Acknowledged

LEMMA DeleteHonest ==
    ASSUME Scope = "source", HonestInv, NEW a \in Agent, Delete(a)
    PROVE  Honest' /\ \A b \in Agent : RunOK(b)'
  <1> DEFINE me == agent[a]
             rest(p) == [me EXCEPT !.del = @ \ {p}, !.affected = @ \union {p}]
  <1>1. me.pc = "apply" /\ me.outcome # "import"
    BY NoImport DEF Delete, Syncing
  <1>2. /\ AtWork(a) /\ Gone(a) /\ InOrder(a) /\ DOMAIN me = Fields /\ DOMAIN agent = Agent
        /\ LinksOK(me, unlinked) /\ LinksInv
    BY <1>1, Here DEF Working
  <1>3. PICK p \in me.del : \/ NoLonger(a, {p}, rest(p))
                            \/ Set(a, Thrown(me)) /\ UNCHANGED <<pages, unsettled>>
    BY DEF Delete
  <1>4. UNCHANGED repo /\ anchor' = anchor /\ ledger' = ledger
    BY DEF Delete, bookmark, files
  <1>5. CASE NoLonger(a, {p}, rest(p))
    <2>1. /\ DOMAIN rest(p) = Fields /\ rest(p).del = me.del \ {p}
          /\ \A f \in Fields \ {"del", "affected"} : rest(p)[f] = me[f]
      BY <1>2 DEF Fields
    <2>2. p \in Path
      BY <1>2, <1>3 DEF LinksOK
    <2> HIDE DEF rest
    <2>3. rest(p).seen = me.seen
      BY <2>1 DEF Fields
    <2>4. /\ \E rec : \E written \in SUBSET Path : Wrote(a, written, rec) /\ \A q \in Path \ written : page'[q] = page[q]
          /\ agent'[a].seen = me.seen \union {p} /\ agent'[a].del = me.del \ {p}
          /\ \A f \in Fields \ {"seen", "wrote", "del", "affected"} : agent'[a][f] = me[f]
          /\ page'[p].text = "none" /\ \A q \in Path \ {p} : page'[q] = page[q]
          /\ unsettled \subseteq unsettled'
      <3>1. /\ \E rec : \E written \in SUBSET Path : Wrote(a, written, rec) /\ \A q \in Path \ written : page'[q] = page[q]
            /\ agent'[a].seen = rest(p).seen \union {p}
            /\ \A f \in Fields \ {"seen", "wrote"} : agent'[a][f] = rest(p)[f]
            /\ page'[p].text = "none" /\ \A q \in Path \ {p} : page'[q] = page[q]
            /\ unsettled \subseteq unsettled'
        BY <1>2, <1>5, <2>1, <2>2, Removes
      <3> QED  BY <2>1, <2>3, <3>1 DEF Fields
    <2>5. \A f \in {"pc", "outcome", "head", "drop", "ren", "imp", "again", "walk", "failed"} : agent'[a][f] = me[f]
      BY <2>4 DEF Fields
    <2>6. Todo(a) \subseteq Todo(a)' \union {p} /\ FailedPaths(a)' = FailedPaths(a)
      BY <2>4, <2>5 DEF Todo, FailedPaths
    <2>7. InOrder(a)'
      BY <1>1, <1>2, <2>5 DEF InOrder
    <2>8. \A q \in Md \intersect agent'[a].seen :
            (q \in me.seen /\ page'[q] = page[q]) \/ page'[q].text = tree[me.head][q]
      BY <1>2, <1>3, <2>4 DEF Md, Gone
    <2>9. RunOK(a)'
      BY <1>1, <1>2, <1>4, <2>4, <2>5, <2>6, <2>7, <2>8, FileDone
    <2> QED  BY <1>4, <2>4, <2>9, OneRun DEF Acknowledged
  <1>6. CASE Set(a, Thrown(me)) /\ UNCHANGED <<pages, unsettled>>
    <2>1. agent'[a].pc = "leave"
      BY <1>2, <1>6 DEF Set, Thrown, Fields
    <2>2. RunOK(a)'
      BY <2>1, NothingOwed DEF Working
    <2> QED  BY <1>4, <1>6, <2>2, OneRun DEF Acknowledged, pages
  <1> QED  BY <1>3, <1>5, <1>6

LEMMA RenameHonest ==
    ASSUME Scope = "source", HonestInv, NEW a \in Agent, Rename(a)
    PROVE  Honest' /\ \A b \in Agent : RunOK(b)'
  <1> DEFINE me == agent[a]
             rest(x) == [me EXCEPT !.ren = @ \ {x}, !.again = {x[2]}]
             moved(x) == [rest(x) EXCEPT !.seen = (@ \union {x[1]}) \ {x[2]}, !.wrote = @ \union {x[1], x[2]}]
  <1>1. me.pc = "apply" /\ me.again = {} /\ me.outcome # "import"
    BY NoImport DEF Rename, Syncing
  <1>2. /\ AtWork(a) /\ Gone(a) /\ InOrder(a) /\ DOMAIN me = Fields /\ DOMAIN agent = Agent
        /\ DOMAIN page = Path /\ LinksOK(me, unlinked)
    BY <1>1, Here DEF Working
  <1>3. PICK x \in me.ren :
          \/ /\ page' = [page EXCEPT ![x[2]] = page[x[1]], ![x[1]] = NoPage]
             /\ Wrote(a, {x[1], x[2]}, moved(x))
          \/ Set(a, rest(x)) /\ unsettled' = unsettled \union {x[1]} /\ UNCHANGED pages
    BY DEF Rename
  <1>4. x[1] \in Path /\ x[2] \in Path
    BY <1>2, <1>3 DEF LinksOK
  <1>5. /\ rest(x).ren = me.ren \ {x} /\ rest(x).again = {x[2]} /\ rest(x).seen = me.seen
        /\ moved(x).ren = me.ren \ {x} /\ moved(x).again = {x[2]} /\ moved(x).seen = (me.seen \union {x[1]}) \ {x[2]}
        /\ \A f \in Fields \ {"ren", "again", "seen", "wrote"} : rest(x)[f] = me[f] /\ moved(x)[f] = me[f]
    BY <1>2 DEF Fields
  <1> HIDE DEF rest, moved
  <1>6. /\ \E rec : \/ Set(a, rec) /\ page' = page /\ unsettled \subseteq unsettled'
                    \/ \E written \in SUBSET Path : Wrote(a, written, rec) /\ \A q \in Path \ written : page'[q] = page[q]
        /\ unsettled \union {x[1]} \subseteq unsettled' /\ agent'[a].ren = me.ren \ {x} /\ agent'[a].again = {x[2]}
        /\ \A f \in Fields \ {"ren", "again", "seen", "wrote"} : agent'[a][f] = me[f]
        /\ \/ agent'[a].seen = me.seen /\ page' = page
           \/ /\ agent'[a].seen = (me.seen \union {x[1]}) \ {x[2]} /\ \A q \in Path \ {x[1], x[2]} : page'[q] = page[q]
              /\ page'[x[1]].text = "none"
    <2>1. CASE /\ page' = [page EXCEPT ![x[2]] = page[x[1]], ![x[1]] = NoPage]
               /\ Wrote(a, {x[1], x[2]}, moved(x))
      <3>1. agent'[a] = moved(x) /\ unsettled \union {x[1]} \subseteq unsettled' /\ {x[1], x[2]} \in SUBSET Path
        BY <1>4, <2>1 DEF Wrote
      <3>2. page'[x[1]].text = "none" /\ \A q \in Path \ {x[1], x[2]} : page'[q] = page[q]
        BY <1>2, <1>4, <2>1 DEF NoPage
      <3> QED  BY <1>5, <2>1, <3>1, <3>2
    <2>2. CASE Set(a, rest(x)) /\ unsettled' = unsettled \union {x[1]} /\ UNCHANGED pages
      <3>1. agent'[a] = rest(x)
        BY <1>2, <2>2 DEF Set
      <3> QED  BY <1>5, <2>2, <3>1 DEF pages
    <2> QED  BY <1>3, <2>1, <2>2
  <1>7. \A f \in {"pc", "outcome", "head", "drop", "del", "imp", "walk", "failed"} : agent'[a][f] = me[f]
    BY <1>6 DEF Fields
  <1>8. UNCHANGED repo /\ anchor' = anchor /\ ledger' = ledger
    BY DEF Rename, bookmark, files
  <1>9. FailedPaths(a)' = FailedPaths(a) /\ Todo(a) \subseteq Todo(a)' \union {x[1]} /\ x[2] \in Todo(a)'
    <2>1. \A y \in me.ren : y = x \/ y \in agent'[a].ren
      BY <1>6
    <2> QED  BY <1>1, <1>6, <1>7, <2>1 DEF Todo, FailedPaths
  <1>10. InOrder(a)'
    BY <1>1, <1>2, <1>7 DEF InOrder
  <1>11. \A q \in Md \intersect agent'[a].seen :
           (q \in me.seen /\ page'[q] = page[q]) \/ page'[q].text = tree[me.head][q]
    BY <1>2, <1>3, <1>6 DEF Md, Gone
  <1>12. \A q \in Md : q \in Todo(a) \union me.seen \union FailedPaths(a)
                        => q \in Todo(a)' \union agent'[a].seen \union FailedPaths(a)' \union unsettled'
    BY <1>6, <1>9
  <1>13. RunOK(a)'
    BY <1>1, <1>2, <1>6, <1>7, <1>8, <1>10, <1>11, <1>12, FileDone
  <1> QED  BY <1>6, <1>8, <1>13, OneRun DEF Acknowledged

\* A file is taken from its list and imported, put down as failed, or left unsettled.
LEMMA TakenUp ==
    ASSUME Scope = "source", HonestInv, NEW a \in Agent, agent[a].pc \in {"apply", "walk"}, agent[a].outcome # "import",
           NEW p \in Path,
           \E rec : \/ Set(a, rec) /\ page' = page /\ unsettled \subseteq unsettled'
                    \/ \E written \in SUBSET Path : Wrote(a, written, rec) /\ \A q \in Path \ written : page'[q] = page[q],
           UNCHANGED repo, anchor'["source"] = anchor["source"], UNCHANGED ledger, unsettled \subseteq unsettled',
           \A f \in {"pc", "outcome", "head", "drop", "del", "ren"} : agent'[a][f] = agent[a][f],
           \A f \in {"imp", "again", "walk"} : agent'[a][f] \subseteq agent[a][f] /\ agent[a][f] \subseteq agent'[a][f] \union {p},
           agent[a].failed \subseteq agent'[a].failed, agent[a].seen \subseteq agent'[a].seen,
           agent'[a].seen \subseteq agent[a].seen \union {p},
           p \in agent'[a].seen \union FailedPaths(a)' \union unsettled',
           page' = page \/ page'[p].text = Disk[p],
           p \in agent'[a].seen => p \in agent[a].seen \/ page'[p].text = Disk[p],
           \A q \in Path \ {p} : page'[q] = page[q]
    PROVE  Honest' /\ \A b \in Agent : RunOK(b)'
  <1>1. AtWork(a) /\ InOrder(a)
    BY Here DEF Working
  <1>2. Todo(a) \subseteq Todo(a)' \union {p}
    BY DEF Todo
  <1>3. FailedPaths(a) \subseteq FailedPaths(a)'
    BY DEF FailedPaths
  <1>4. /\ agent'[a].pc = agent[a].pc
        /\ agent'[a].imp \subseteq agent[a].imp /\ agent'[a].again \subseteq agent[a].again
        /\ agent'[a].walk \subseteq agent[a].walk /\ agent'[a].del = agent[a].del /\ agent'[a].ren = agent[a].ren
    OBVIOUS
  <1>5. InOrder(a)'
    BY <1>1, <1>4 DEF InOrder
  <1>6. \A q \in Md \intersect agent'[a].seen : (q \in agent[a].seen /\ page'[q] = page[q]) \/ page'[q].text = Disk[q]
    BY DEF Md
  <1>7. \A q \in Md : q \in Todo(a) \union agent[a].seen \union FailedPaths(a)
                       => q \in Todo(a)' \union agent'[a].seen \union FailedPaths(a)' \union unsettled'
    BY <1>2, <1>3
  <1>8. \A f \in {"pc", "outcome", "head"} : agent'[a][f] = agent[a][f]
    OBVIOUS
  <1>9. RunOK(a)'
    BY <1>1, <1>4, <1>5, <1>6, <1>7, <1>8, FileDone
  <1>10. Acknowledged' = Acknowledged
    BY DEF Acknowledged
  <1> QED  BY <1>9, <1>10, OneRun

\* The same with the caller's locals, when the file has been imported.
LEMMA ImportedOne ==
    ASSUME Scope = "source", HonestInv, NEW a \in Agent, agent[a].pc \in {"apply", "walk"}, agent[a].outcome # "import",
           NEW p \in Path, NEW me, DOMAIN me = Fields, Import(a, p, me),
           UNCHANGED repo, anchor'["source"] = anchor["source"], UNCHANGED ledger,
           \A f \in {"pc", "outcome", "head", "drop", "del", "ren", "failed", "seen"} : me[f] = agent[a][f],
           \A f \in {"imp", "again", "walk"} : me[f] \subseteq agent[a][f] /\ agent[a][f] \subseteq me[f] \union {p}
    PROVE  Honest' /\ \A b \in Agent : RunOK(b)'
  <1>1. LinksInv
    BY DEF HonestInv
  <1>2. /\ \E rec : \/ Set(a, rec) /\ page' = page /\ unsettled \subseteq unsettled'
                    \/ \E written \in SUBSET Path : Wrote(a, written, rec) /\ \A q \in Path \ written : page'[q] = page[q]
        /\ agent'[a].seen = me.seen \union {p}
        /\ \A f \in Fields \ {"seen", "wrote", "affected"} : agent'[a][f] = me[f]
        /\ page'[p].text = Disk[p] /\ \A q \in Path \ {p} : page'[q] = page[q]
        /\ unsettled \subseteq unsettled'
    BY <1>1, Imports
  <1>3. \A f \in {"pc", "outcome", "head", "drop", "del", "ren", "imp", "again", "walk", "failed"} : agent'[a][f] = me[f]
    BY <1>2 DEF Fields
  <1>4. agent[a].failed = agent'[a].failed /\ agent'[a].seen = agent[a].seen \union {p}
    BY <1>2, <1>3
  <1>5. /\ \A f \in {"pc", "outcome", "head", "drop", "del", "ren"} : agent'[a][f] = agent[a][f]
        /\ \A f \in {"imp", "again", "walk"} : agent'[a][f] \subseteq agent[a][f] /\ agent[a][f] \subseteq agent'[a][f] \union {p}
    BY <1>3
  <1> QED  BY <1>2, <1>4, <1>5, TakenUp

\* ... and when it has not.
LEMMA PutDown ==
    ASSUME Scope = "source", HonestInv, NEW a \in Agent, agent[a].pc \in {"apply", "walk"}, agent[a].outcome # "import",
           NEW p \in Path, NEW me, Set(a, me), UNCHANGED pages, unsettled \subseteq unsettled',
           UNCHANGED repo, anchor'["source"] = anchor["source"], UNCHANGED ledger,
           \A f \in {"pc", "outcome", "head", "drop", "del", "ren", "seen"} : me[f] = agent[a][f],
           \A f \in {"imp", "again", "walk"} : me[f] \subseteq agent[a][f] /\ agent[a][f] \subseteq me[f] \union {p},
           agent[a].failed \subseteq me.failed, (\E f \in me.failed : f.path = p) \/ p \in unsettled'
    PROVE  Honest' /\ \A b \in Agent : RunOK(b)'
  <1>1. agent'[a] = me /\ page' = page
    BY DEF HonestInv, LinksInv, Shaped, Set, pages
  <1>2. p \in FailedPaths(a)' \union unsettled'
    BY <1>1 DEF FailedPaths
  <1>3. agent'[a].seen = agent[a].seen /\ agent[a].failed \subseteq agent'[a].failed
    BY <1>1
  <1>4. /\ \A f \in {"pc", "outcome", "head", "drop", "del", "ren"} : agent'[a][f] = agent[a][f]
        /\ \A f \in {"imp", "again", "walk"} : agent'[a][f] \subseteq agent[a][f] /\ agent[a][f] \subseteq agent'[a][f] \union {p}
    BY <1>1
  <1> QED  BY <1>1, <1>2, <1>3, <1>4, TakenUp

\* An exception on the way.
LEMMA ThrownHonest ==
    ASSUME Scope = "source", HonestInv, NEW a \in Agent, NEW me, DOMAIN me = Fields, Set(a, Thrown(me)),
           UNCHANGED <<pages, unsettled>>, UNCHANGED repo, anchor'["source"] = anchor["source"], UNCHANGED ledger
    PROVE  Honest' /\ \A b \in Agent : RunOK(b)'
  <1>1. agent'[a].pc = "leave"
    BY DEF Set, Thrown, Fields, HonestInv, LinksInv, Shaped
  <1>2. RunOK(a)'
    BY <1>1, NothingOwed DEF Working
  <1> QED  BY <1>2, OneRun DEF Acknowledged, pages

LEMMA ReimportHonest ==
    ASSUME Scope = "source", HonestInv, NEW a \in Agent, Reimport(a)
    PROVE  Honest' /\ \A b \in Agent : RunOK(b)'
  <1> DEFINE rest(p) == [agent[a] EXCEPT !.again = {}, !.affected = @ \union {p}]
  <1>1. agent[a].pc = "apply" /\ agent[a].outcome # "import"
    BY NoImport DEF Reimport, Syncing
  <1>2. DOMAIN agent[a] = Fields /\ LinksOK(agent[a], unlinked)
    BY <1>1, Here DEF Working
  <1>3. PICK p \in agent[a].again :
          \/ Import(a, p, rest(p))
          \/ Set(a, rest(p)) /\ unsettled' = unsettled \union {p} /\ UNCHANGED pages
          \/ Set(a, Thrown(rest(p))) /\ UNCHANGED <<pages, unsettled>>
    BY DEF Reimport
  <1>4. p \in Path /\ agent[a].again = {p}
    BY <1>2, <1>3 DEF LinksOK
  <1>5. DOMAIN rest(p) = Fields /\ rest(p).again = {} /\ \A f \in Fields \ {"again", "affected"} : rest(p)[f] = agent[a][f]
    BY <1>2 DEF Fields
  <1> HIDE DEF rest
  <1>6. /\ \A f \in {"pc", "outcome", "head", "drop", "del", "ren", "failed", "seen"} : rest(p)[f] = agent[a][f]
        /\ \A f \in {"imp", "again", "walk"} : rest(p)[f] \subseteq agent[a][f] /\ agent[a][f] \subseteq rest(p)[f] \union {p}
    BY <1>4, <1>5 DEF Fields
  <1>7. UNCHANGED repo /\ anchor' = anchor /\ ledger' = ledger
    BY DEF Reimport, bookmark, files
  <1>8. CASE Import(a, p, rest(p))
    BY <1>1, <1>4, <1>5, <1>6, <1>7, <1>8, ImportedOne
  <1>9. CASE Set(a, rest(p)) /\ unsettled' = unsettled \union {p} /\ UNCHANGED pages
    <2>1. agent[a].failed \subseteq rest(p).failed /\ p \in unsettled'
      BY <1>6, <1>9
    <2> QED  BY <1>1, <1>4, <1>6, <1>7, <1>9, <2>1, PutDown
  <1>10. CASE Set(a, Thrown(rest(p))) /\ UNCHANGED <<pages, unsettled>>
    BY <1>5, <1>7, <1>10, ThrownHonest
  <1> QED  BY <1>3, <1>8, <1>9, <1>10

LEMMA FailuresNamed ==
    ASSUME NEW p
    PROVE  (~Importable(p) => \E f \in Failures(p) : f.path = p) /\ \E f \in {Exception(p)} : f.path = p
  BY DEF Failures, Exception

LEMMA ImportOneHonest ==
    ASSUME Scope = "source", HonestInv, NEW a \in Agent, ImportOne(a)
    PROVE  Honest' /\ \A b \in Agent : RunOK(b)'
  <1> DEFINE rest(p) == [agent[a] EXCEPT !.imp = @ \ {p}]
             put(p, more) == [rest(p) EXCEPT !.failed = @ \union more]
  <1>1. agent[a].pc = "apply" /\ agent[a].outcome # "import"
    BY NoImport DEF ImportOne, Syncing
  <1>2. DOMAIN agent[a] = Fields /\ LinksOK(agent[a], unlinked)
    BY <1>1, Here DEF Working
  <1>3. PICK p \in agent[a].imp :
          \/ Import(a, p, rest(p))
          \/ ~Importable(p) /\ Set(a, put(p, Failures(p))) /\ UNCHANGED <<pages, unsettled>>
          \/ Set(a, put(p, {Exception(p)})) /\ UNCHANGED <<pages, unsettled>>
    BY DEF ImportOne
  <1>4. p \in Path
    BY <1>2, <1>3 DEF LinksOK
  <1>5. /\ DOMAIN rest(p) = Fields /\ rest(p).imp = agent[a].imp \ {p}
        /\ \A f \in Fields \ {"imp"} : rest(p)[f] = agent[a][f]
    BY <1>2 DEF Fields
  <1>6. UNCHANGED repo /\ anchor' = anchor /\ ledger' = ledger
    BY DEF ImportOne, bookmark, files
  <1>7. CASE Import(a, p, rest(p))
    <2> HIDE DEF rest
    <2>1. /\ \A f \in {"pc", "outcome", "head", "drop", "del", "ren", "failed", "seen"} : rest(p)[f] = agent[a][f]
          /\ \A f \in {"imp", "again", "walk"} : rest(p)[f] \subseteq agent[a][f] /\ agent[a][f] \subseteq rest(p)[f] \union {p}
      BY <1>5 DEF Fields
    <2> QED  BY <1>1, <1>4, <1>5, <1>6, <1>7, <2>1, ImportedOne
  <1>8. ASSUME NEW more, Set(a, put(p, more)), UNCHANGED <<pages, unsettled>>, \E f \in more : f.path = p
        PROVE  Honest' /\ \A b \in Agent : RunOK(b)'
    <2>1. /\ \A f \in Fields \ {"imp", "failed"} : put(p, more)[f] = agent[a][f]
          /\ put(p, more).imp = agent[a].imp \ {p} /\ put(p, more).failed = agent[a].failed \union more
      <3> HIDE DEF rest
      <3> QED  BY <1>5 DEF Fields
    <2> HIDE DEF put
    <2>2. /\ \A f \in {"pc", "outcome", "head", "drop", "del", "ren", "seen"} : put(p, more)[f] = agent[a][f]
          /\ \A f \in {"imp", "again", "walk"} : put(p, more)[f] \subseteq agent[a][f]
                                                 /\ agent[a][f] \subseteq put(p, more)[f] \union {p}
      BY <2>1 DEF Fields
    <2>3. agent[a].failed \subseteq put(p, more).failed /\ \E f \in put(p, more).failed : f.path = p
      BY <1>8, <2>1
    <2>4. unsettled \subseteq unsettled' /\ UNCHANGED pages
      BY <1>8
    <2> QED  BY <1>1, <1>4, <1>6, <1>8, <2>2, <2>3, <2>4, PutDown
  <1> QED  BY <1>3, <1>7, <1>8, FailuresNamed

\* A walk for an import owes nothing: its pages stay unsettled.
LEMMA WalkOneHonest ==
    ASSUME Scope = "source", HonestInv, NEW a \in Agent, WalkOne(a)
    PROVE  Honest' /\ \A b \in Agent : RunOK(b)'
  <1> DEFINE rest(p) == [agent[a] EXCEPT !.walk = @ \ {p}, !.processed = @ + 1]
             put(p, more, t) == [rest(p) EXCEPT !.failed = @ \union more, !.threw = t]
  <1>1. agent[a].pc = "walk" /\ DOMAIN agent[a] = Fields /\ LinksOK(agent[a], unlinked) /\ LinksInv /\ DOMAIN agent = Agent
    BY DEF WalkOne, HonestInv, LinksInv, Shaped
  <1>2. PICK p \in agent[a].walk :
          \/ Import(a, p, rest(p))
          \/ ~Importable(p) /\ (\E t : Set(a, put(p, Failures(p), t))) /\ UNCHANGED <<pages, unsettled>>
          \/ (\E t : Set(a, put(p, {Exception(p)}, t))) /\ UNCHANGED <<pages, unsettled>>
    BY DEF WalkOne
  <1>3. p \in Path
    BY <1>1, <1>2 DEF LinksOK
  <1>4. /\ DOMAIN rest(p) = Fields /\ rest(p).walk = agent[a].walk \ {p}
        /\ \A f \in Fields \ {"walk", "processed"} : rest(p)[f] = agent[a][f]
    BY <1>1 DEF Fields
  <1>5. UNCHANGED repo /\ anchor' = anchor /\ ledger' = ledger
    BY DEF WalkOne, bookmark, files
  <1>6. CASE Import(a, p, rest(p))
    <2> HIDE DEF rest
    <2>1. CASE agent[a].outcome # "import"
      <3>1. /\ \A f \in {"pc", "outcome", "head", "drop", "del", "ren", "failed", "seen"} : rest(p)[f] = agent[a][f]
            /\ \A f \in {"imp", "again", "walk"} : rest(p)[f] \subseteq agent[a][f] /\ agent[a][f] \subseteq rest(p)[f] \union {p}
        BY <1>4 DEF Fields
      <3> QED  BY <1>1, <1>3, <1>4, <1>5, <1>6, <2>1, <3>1, ImportedOne
    <2>2. CASE agent[a].outcome = "import"
      <3>1. /\ \E rec : \/ Set(a, rec) /\ page' = page /\ unsettled \subseteq unsettled'
                        \/ \E written \in SUBSET Path : Wrote(a, written, rec) /\ \A q \in Path \ written : page'[q] = page[q]
            /\ agent'[a].seen = rest(p).seen \union {p}
            /\ \A f \in Fields \ {"seen", "wrote", "affected"} : agent'[a][f] = rest(p)[f]
            /\ page'[p].text = Disk[p] /\ \A q \in Path \ {p} : page'[q] = page[q]
            /\ unsettled \subseteq unsettled'
        BY <1>1, <1>3, <1>4, <1>6, Imports
      <3>2. agent'[a].pc = "walk" /\ agent'[a].outcome = "import"
        BY <1>1, <1>4, <2>2, <3>1 DEF Fields
      <3>3. RunOK(a)'
        BY <3>2, NothingOwed
      <3> QED  BY <1>5, <3>1, <3>3, OneRun DEF Acknowledged
    <2> QED  BY <2>1, <2>2
  <1>7. ASSUME NEW more, NEW t, Set(a, put(p, more, t)), UNCHANGED <<pages, unsettled>>, \E f \in more : f.path = p
        PROVE  Honest' /\ \A b \in Agent : RunOK(b)'
    <2>1. /\ \A f \in Fields \ {"walk", "processed", "failed", "threw"} : put(p, more, t)[f] = agent[a][f]
          /\ put(p, more, t).walk = agent[a].walk \ {p} /\ put(p, more, t).failed = agent[a].failed \union more
      <3> HIDE DEF rest
      <3> QED  BY <1>4 DEF Fields
    <2> HIDE DEF put
    <2>2. /\ \A f \in {"pc", "outcome", "head", "drop", "del", "ren", "seen"} : put(p, more, t)[f] = agent[a][f]
          /\ \A f \in {"imp", "again", "walk"} : put(p, more, t)[f] \subseteq agent[a][f]
                                                 /\ agent[a][f] \subseteq put(p, more, t)[f] \union {p}
      BY <2>1 DEF Fields
    <2>3. agent[a].failed \subseteq put(p, more, t).failed /\ \E f \in put(p, more, t).failed : f.path = p
      BY <1>7, <2>1
    <2>4. unsettled \subseteq unsettled' /\ UNCHANGED pages
      BY <1>7
    <2>5. CASE agent[a].outcome # "import"
      BY <1>1, <1>3, <1>5, <1>7, <2>2, <2>3, <2>4, <2>5, PutDown
    <2>6. CASE agent[a].outcome = "import"
      <3>1. agent'[a].pc = "walk" /\ agent'[a].outcome = "import"
        BY <1>1, <1>7, <2>2, <2>6 DEF Set
      <3>2. RunOK(a)'
        BY <3>1, NothingOwed
      <3> QED  BY <1>5, <1>7, <3>2, OneRun DEF Acknowledged, pages
    <2> QED  BY <2>5, <2>6
  <1> QED  BY <1>2, <1>6, <1>7, FailuresNamed

-----------------------------------------------------------------------------
(* The ledger, and the gates before the bookmark.                          *)

LEMMA RecordKeeps ==
    ASSUME LedgerOK, NEW failed, NEW commit
    PROVE  /\ ledger \subseteq Record(failed, commit)
           /\ \A e \in Record(failed, commit) : DOMAIN e = {"path", "why", "commit", "acked"}
           /\ \A f \in failed : \E e \in Record(failed, commit) : e.path = f.path
  <1> DEFINE row(f) == [path |-> f.path, why |-> f.why, commit |-> commit, acked |-> FALSE]
             known(f) == \E e \in ledger : e.path = f.path /\ e.why = f.why /\ e.commit = commit
  <1>1. Record(failed, commit) = ledger \union {row(f) : f \in {f \in failed : ~known(f)}}
    BY DEF Record
  <1>2. \A f : DOMAIN row(f) = {"path", "why", "commit", "acked"} /\ row(f).path = f.path
    OBVIOUS
  <1>3. \A f \in failed : known(f) => \E e \in ledger : e.path = f.path
    OBVIOUS
  <1> HIDE DEF row, known
  <1> QED  BY <1>1, <1>2, <1>3 DEF LedgerOK

LEMMA AcknowledgeKeeps ==
    ASSUME NEW rows, \A e \in rows : DOMAIN e = {"path", "why", "commit", "acked"}
    PROVE  /\ \A e \in acknowledgeSyncFailures(rows) : DOMAIN e = {"path", "why", "commit", "acked"} /\ e.acked
           /\ \A e \in rows : \E d \in acknowledgeSyncFailures(rows) : d.path = e.path
  <1> DEFINE done(e) == [e EXCEPT !.acked = TRUE]
  <1>1. \A e \in rows : /\ DOMAIN done(e) = {"path", "why", "commit", "acked"}
                        /\ done(e).acked /\ done(e).path = e.path
    <2> TAKE e \in rows
    <2>1. DOMAIN e = {"path", "why", "commit", "acked"}
      OBVIOUS
    <2>2. DOMAIN done(e) = {"path", "why", "commit", "acked"} /\ done(e).path = e.path
      BY <2>1
    <2>3. done(e).acked = TRUE
      BY <2>1
    <2> QED  BY <2>2, <2>3
  <1>2. acknowledgeSyncFailures(rows) = {done(e) : e \in rows}
    BY DEF acknowledgeSyncFailures
  <1> HIDE DEF done
  <1> QED  BY <1>1, <1>2

\* What people have acknowledged stays so, and --skip-failed acknowledges all that failed.
LEMMA JudgeLedger ==
    ASSUME LedgerOK, NEW a \in Agent, NEW me, Judge(a, me)
    PROVE  /\ LedgerOK' /\ Acknowledged \subseteq Acknowledged'
           /\ \E rec : /\ Set(a, rec)
                       /\ \/ rec = [me EXCEPT !.pc = "advance"] /\ \A f \in me.failed : f.path \in Acknowledged'
                          \/ rec = [me EXCEPT !.pc = IF me.stamp THEN "stamp" ELSE "leave",
                                             !.outcome = IF @ = "full" THEN "full_blocked" ELSE "blocked"]
  <1> DEFINE rows == Record(me.failed, me.head)
             on == [me EXCEPT !.pc = "advance"]
             off == [me EXCEPT !.pc = IF me.stamp THEN "stamp" ELSE "leave",
                               !.outcome = IF @ = "full" THEN "full_blocked" ELSE "blocked"]
  <1>1. /\ ledger \subseteq rows /\ \A e \in rows : DOMAIN e = {"path", "why", "commit", "acked"}
        /\ \A f \in me.failed : \E e \in rows : e.path = f.path
    BY RecordKeeps
  <1>2. \/ me.failed = {} /\ Set(a, on) /\ ledger' = ledger
        \/ Set(a, off) /\ ledger' = rows
        \/ Set(a, on) /\ ledger' = acknowledgeSyncFailures(rows)
    BY DEF Judge
  <1> HIDE DEF rows, on, off
  <1>3. CASE me.failed = {} /\ Set(a, on) /\ ledger' = ledger
    BY <1>3 DEF LedgerOK, Acknowledged, on
  <1>4. CASE Set(a, off) /\ ledger' = rows
    BY <1>1, <1>4 DEF LedgerOK, Acknowledged, off
  <1>5. CASE Set(a, on) /\ ledger' = acknowledgeSyncFailures(rows)
    <2>1. \A e \in ledger' : DOMAIN e = {"path", "why", "commit", "acked"} /\ e.acked
      BY <1>1, <1>5, AcknowledgeKeeps
    <2>2. \A e \in rows : \E d \in ledger' : d.path = e.path
      BY <1>1, <1>5, AcknowledgeKeeps
    <2>3. Acknowledged' = {e.path : e \in ledger'}
      BY <2>1 DEF Acknowledged
    <2>4. \A f \in me.failed : f.path \in Acknowledged'
      BY <1>1, <2>2, <2>3
    <2>5. Acknowledged \subseteq Acknowledged'
      <3>1. \A e \in ledger : \E d \in ledger' : d.path = e.path
        BY <1>1, <2>2
      <3> QED  BY <2>3, <3>1 DEF Acknowledged
    <2> QED  BY <1>5, <2>1, <2>4, <2>5 DEF LedgerOK, on
  <1> QED  BY <1>2, <1>3, <1>4, <1>5

\* A run that has nothing left to do comes to the gate.
LEMMA JudgeHonest ==
    ASSUME Scope = "source", HonestInv, NEW a \in Agent, agent[a].pc \in {"apply", "walked"},
           NEW me, DOMAIN me = Fields, Judge(a, me),
           \A f \in {"outcome", "head", "del", "ren", "imp", "again", "walk", "seen"} : me[f] = agent[a][f],
           agent[a].failed \subseteq me.failed, Todo(a) = {}, ~me.drifted => Steady(a),
           UNCHANGED <<repo, pages, unsettled>>, anchor'["source"] = anchor["source"]
    PROVE  Honest' /\ \A b \in Agent : RunOK(b)'
  <1>1. PICK rec : /\ Set(a, rec)
                   /\ \/ rec = [me EXCEPT !.pc = "advance"] /\ \A f \in me.failed : f.path \in Acknowledged'
                      \/ rec = [me EXCEPT !.pc = IF me.stamp THEN "stamp" ELSE "leave",
                                         !.outcome = IF @ = "full" THEN "full_blocked" ELSE "blocked"]
    BY JudgeLedger DEF HonestInv
  <1>2. /\ Right(a) /\ Covered(a) /\ LinksOK(agent[a], unlinked) /\ DOMAIN agent = Agent
        /\ agent[a].outcome \in {"synced", "full"}
    <2>1. agent[a].outcome # "import"
      BY NoImport DEF Syncing
    <2> QED  BY <2>1, Here DEF Working, LinksOK
  <1>3. agent'[a] = rec /\ tree' = tree /\ HEAD' = HEAD /\ page' = page /\ unsettled' = unsettled
    BY <1>1, <1>2 DEF Set, repo, HEAD, pages
  <1>4. RunOK(a)'
    <2>1. CASE agent'[a].pc # "advance"
      <3>1. agent'[a].pc \in {"stamp", "leave"}
        BY <1>1, <1>3, <2>1 DEF Fields
      <3> QED  BY <3>1, NothingOwed DEF Working
    <2>2. CASE agent'[a].pc = "advance"
      <3>1. rec = [me EXCEPT !.pc = "advance"] /\ \A f \in me.failed : f.path \in Acknowledged'
        BY <1>1, <1>3, <2>2 DEF Fields
      <3>2. /\ agent'[a].failed = me.failed /\ agent'[a].drifted = me.drifted
            /\ agent'[a].outcome = agent[a].outcome /\ agent'[a].head = agent[a].head /\ agent'[a].seen = agent[a].seen
            /\ agent'[a].del = agent[a].del /\ agent'[a].ren = agent[a].ren /\ agent'[a].imp = agent[a].imp
            /\ agent'[a].again = agent[a].again /\ agent'[a].walk = agent[a].walk
        BY <1>3, <3>1 DEF Fields
      <3>3. Todo(a)' = {}
        BY <3>2 DEF Todo
      <3>4. Right(a)'
        BY <1>2, <1>3, <2>2, <3>2 DEF Right, Steady
      <3>5. Covered(a)'
        <4>1. FailedPaths(a) \subseteq FailedPaths(a)'
          BY <3>2 DEF FailedPaths
        <4>2. \A p \in Md : Settled(a, p)' <=> Settled(a, p)
          BY <1>3, <3>2 DEF Settled
        <4> QED  BY <1>2, <1>3, <3>2, <4>1, <4>2 DEF Covered
      <3>6. Gone(a)'
        BY <3>3 DEF Gone, Todo
      <3>7. FailedPaths(a)' \subseteq Acknowledged'
        BY <3>1, <3>2 DEF FailedPaths
      <3>8. InOrder(a)'
        BY <1>2, <2>2, <3>2, <3>3, <3>7 DEF InOrder
      <3> QED  BY <2>2, <3>4, <3>5, <3>6, <3>8 DEF RunOK
    <2> QED  BY <2>1, <2>2
  <1>5. Acknowledged \subseteq Acknowledged'
    BY JudgeLedger DEF HonestInv
  <1> QED  BY <1>1, <1>3, <1>4, <1>5, OneRun

LEMMA GateHonest ==
    ASSUME Scope = "source", HonestInv, NEW a \in Agent, Gate(a) \/ WalkGate(a)
    PROVE  Honest' /\ \A b \in Agent : RunOK(b)'
  <1>1. CASE Gate(a)
    <2> DEFINE me == [agent[a] EXCEPT !.drifted = HEAD # agent[a].head,
                           !.failed = IF HEAD # agent[a].head THEN @ \union {[path |-> 0, why |-> "drift"]} ELSE @]
    <2>1. agent[a].pc = "apply" /\ agent[a].outcome # "import"
      BY <1>1, NoImport DEF Gate, Syncing
    <2>2. InOrder(a) /\ DOMAIN agent[a] = Fields
      BY <2>1, Here DEF Working
    <2>3. Todo(a) = {}
      BY <1>1, <2>1, <2>2 DEF Gate, InOrder, Todo
    <2>4. /\ DOMAIN me = Fields /\ me.drifted = (HEAD # agent[a].head) /\ agent[a].failed \subseteq me.failed
          /\ \A f \in {"outcome", "head", "del", "ren", "imp", "again", "walk", "seen"} : me[f] = agent[a][f]
      BY <2>2 DEF Fields
    <2>5. Judge(a, me) /\ UNCHANGED <<repo, pages, unsettled>> /\ anchor'["source"] = anchor["source"]
      BY <1>1 DEF Gate, bookmark
    <2> HIDE DEF me
    <2>6. ~me.drifted => Steady(a)
      BY <2>1, <2>4 DEF Steady
    <2> QED  BY <2>1, <2>3, <2>4, <2>5, <2>6, JudgeHonest
  <1>2. CASE WalkGate(a)
    <2>1. agent[a].pc = "walked" /\ agent[a].outcome # "import"
      BY <1>2, NoImport DEF WalkGate, Syncing
    <2>2. InOrder(a) /\ DOMAIN agent[a] = Fields
      BY <2>1, Here DEF Working
    <2>3. Todo(a) = {}
      BY <2>1, <2>2 DEF InOrder, Todo
    <2>4. ~agent[a].drifted => Steady(a)
      BY <2>1 DEF Steady
    <2>5. Judge(a, agent[a]) /\ UNCHANGED <<repo, pages, unsettled>> /\ anchor'["source"] = anchor["source"]
      BY <1>2 DEF WalkGate, bookmark
    <2> QED  BY <2>1, <2>2, <2>3, <2>4, <2>5, JudgeHonest
  <1> QED  BY <1>1, <1>2

LEMMA DecideHonest ==
    ASSUME Scope = "source", HonestInv, NEW a \in Agent, Decide(a)
    PROVE  Honest' /\ \A b \in Agent : RunOK(b)'
  <1> DEFINE me == agent[a]
  <1>1. me.pc = "drop" /\ me.outcome # "import"
    BY NoImport DEF Decide, Syncing
  <1>2. /\ AtWork(a) /\ Right(a) /\ Covered(a) /\ Gone(a) /\ InOrder(a) /\ DOMAIN me = Fields /\ DOMAIN agent = Agent
        /\ me.outcome = "synced" /\ me.again = {}
    BY <1>1, Here DEF Working, LinksOK
  <1>3. UNCHANGED <<repo, pages, unsettled>> /\ anchor' = anchor /\ ledger' = ledger
    BY DEF Decide, bookmark, files
  <1>4. tree' = tree /\ HEAD' = HEAD /\ page' = page
    BY <1>3 DEF repo, HEAD, pages
  <1>5. \/ Set(a, [me EXCEPT !.pc = "leave", !.outcome = "dry"])
        \/ me.del = {} /\ me.ren = {} /\ me.imp = {} /\ Set(a, [me EXCEPT !.pc = "advance"])
        \/ Set(a, [me EXCEPT !.pc = "apply"])
    BY DEF Decide
  <1>6. CASE Set(a, [me EXCEPT !.pc = "leave", !.outcome = "dry"])
    <2>1. agent'[a].pc = "leave"
      BY <1>2, <1>6 DEF Set, Fields
    <2>2. RunOK(a)'
      BY <2>1, NothingOwed DEF Working
    <2> QED  BY <1>3, <1>4, <1>6, <2>2, OneRun DEF Acknowledged
  <1>7. ASSUME NEW pc \in {"advance", "apply"}, Set(a, [me EXCEPT !.pc = pc]),
               pc = "advance" => me.del = {} /\ me.ren = {} /\ me.imp = {}
        PROVE  Honest' /\ \A b \in Agent : RunOK(b)'
    <2>1. agent'[a].pc = pc /\ \A f \in Fields \ {"pc"} : agent'[a][f] = me[f]
      BY <1>2, <1>7 DEF Set, Fields
    <2>2. /\ agent'[a].head = me.head /\ agent'[a].outcome = me.outcome /\ agent'[a].seen = me.seen
          /\ agent'[a].failed = me.failed /\ agent'[a].del = me.del /\ agent'[a].ren = me.ren /\ agent'[a].imp = me.imp
          /\ agent'[a].again = me.again /\ agent'[a].walk = me.walk
      BY <2>1 DEF Fields
    <2>3. me.seen \intersect Md = {} /\ me.failed = {} /\ me.walk = {}
      BY <1>1, <1>2 DEF InOrder
    <2>4. Todo(a)' = Todo(a) /\ FailedPaths(a)' = {}
      BY <2>2, <2>3 DEF Todo, FailedPaths
    <2>5. Right(a)' /\ Gone(a)'
      BY <1>2, <1>4, <2>2, <2>3 DEF Right, Gone
    <2>6. Covered(a)'
      <3>1. \A p \in Md : Settled(a, p)' <=> Settled(a, p)
        BY <1>3, <1>4, <2>2 DEF Settled
      <3>2. FailedPaths(a) = {}
        BY <2>3 DEF FailedPaths
      <3> QED  BY <1>2, <1>3, <2>2, <2>4, <3>1, <3>2 DEF Covered
    <2>7. pc = "advance" => Todo(a) = {}
      BY <1>2, <1>7, <2>3 DEF Todo
    <2>8. InOrder(a)'
      BY <1>2, <2>1, <2>2, <2>3, <2>4, <2>7 DEF InOrder
    <2>9. RunOK(a)'
      BY <2>1, <2>5, <2>6, <2>8 DEF RunOK
    <2> QED  BY <1>3, <1>4, <1>7, <2>9, OneRun DEF Acknowledged
  <1> QED  BY <1>5, <1>6, <1>7

-----------------------------------------------------------------------------
(* The walk, the plan and the bookmark itself.                             *)

LEMMA WalkEndHonest ==
    ASSUME Scope = "source", HonestInv, NEW a \in Agent, WalkEnd(a)
    PROVE  LedgerOK' /\ Honest' /\ \A b \in Agent : RunOK(b)'
  <1> DEFINE me == agent[a]
             done == [me EXCEPT !.drifted = HEAD # me.head, !.affected = {}]
  <1>1. /\ me.pc = "walk" /\ me.walk = {} /\ DOMAIN me = Fields /\ DOMAIN agent = Agent /\ UNCHANGED <<repo, pages>>
        /\ unsettled' = unsettled /\ anchor'["source"] = anchor["source"]
        /\ ledger' = Record(me.failed, HEAD)
    BY DEF WalkEnd, HonestInv, BookmarkInv, LinksInv, Shaped
  <1>2. LedgerOK' /\ Acknowledged \subseteq Acknowledged'
    <2>1. ledger \subseteq ledger' /\ \A e \in ledger' : DOMAIN e = {"path", "why", "commit", "acked"}
      BY <1>1, RecordKeeps DEF HonestInv
    <2> QED  BY <2>1 DEF LedgerOK, Acknowledged
  <1>3. tree' = tree /\ HEAD' = HEAD /\ page' = page
    BY <1>1 DEF repo, HEAD, pages
  <1>4. CASE me.outcome = "import"
    <2>1. Set(a, Idle)
      BY <1>4 DEF WalkEnd
    <2>2. agent'[a].pc = "idle"
      BY <1>1, <2>1 DEF Set, Idle
    <2>3. RunOK(a)'
      BY <2>2, NothingOwed DEF Working
    <2> QED  BY <1>1, <1>2, <1>3, <2>1, <2>3, OneRun
  <1>5. CASE me.outcome # "import"
    <2>1. Set(a, [done EXCEPT !.pc = "walked"])
      BY <1>5 DEF WalkEnd
    <2>2. /\ agent'[a].pc = "walked" /\ agent'[a].drifted = (HEAD # me.head)
          /\ \A f \in Fields \ {"pc", "drifted", "affected"} : agent'[a][f] = me[f]
      <3>1. /\ DOMAIN done = Fields /\ done.drifted = (HEAD # me.head)
            /\ \A f \in Fields \ {"drifted", "affected"} : done[f] = me[f]
        BY <1>1 DEF Fields
      <3> HIDE DEF done
      <3>2. agent'[a] = [done EXCEPT !.pc = "walked"]
        BY <1>1, <2>1 DEF Set
      <3> QED  BY <3>1, <3>2 DEF Fields
    <2>3. /\ agent'[a].head = me.head /\ agent'[a].outcome = me.outcome /\ agent'[a].seen = me.seen
          /\ agent'[a].failed = me.failed /\ agent'[a].del = me.del /\ agent'[a].ren = me.ren /\ agent'[a].imp = me.imp
          /\ agent'[a].again = me.again /\ agent'[a].walk = me.walk
      BY <2>2 DEF Fields
    <2>4. Right(a) /\ Covered(a) /\ Gone(a) /\ InOrder(a)
      BY <1>1, <1>5, Here DEF Working
    <2>5. Right(a)'
      BY <1>1, <1>3, <2>2, <2>3, <2>4 DEF Right, Steady
    <2>6. Covered(a)'
      <3>1. Todo(a)' = Todo(a) /\ FailedPaths(a)' = FailedPaths(a)
        BY <2>3 DEF Todo, FailedPaths
      <3>2. \A p \in Md : Settled(a, p)' <=> Settled(a, p)
        BY <1>1, <1>3, <2>3 DEF Settled
      <3> QED  BY <1>1, <2>3, <2>4, <3>1, <3>2 DEF Covered
    <2>7. Gone(a)' /\ InOrder(a)'
      BY <1>1, <1>3, <2>2, <2>3, <2>4 DEF Gone, InOrder
    <2>8. RunOK(a)'
      BY <2>2, <2>5, <2>6, <2>7 DEF RunOK
    <2> QED  BY <1>1, <1>2, <1>3, <2>1, <2>8, OneRun
  <1> QED  BY <1>4, <1>5

LEMMA PlanHonest ==
    ASSUME Scope = "source", HonestInv, NEW a \in Agent, Plan(a)
    PROVE  Honest' /\ \A b \in Agent : RunOK(b)'
  <1> DEFINE me == [agent[a] EXCEPT !.head = HEAD]
             up == [me EXCEPT !.stamp = TRUE]
             last == anchor["source"]
             todo == {"drop", "del", "ren", "imp", "again", "walk", "seen", "failed"}
  <1>1. /\ agent[a].pc = "plan" /\ DOMAIN agent[a] = Fields /\ DOMAIN agent = Agent /\ UNCHANGED <<repo, pages, bookmark, files>>
        /\ Clean(a) /\ checkpoint = NoCheckpoint
    BY DEF Plan, HonestInv, LinksInv, Shaped, RunOK
  <1>2. tree' = tree /\ HEAD' = HEAD /\ page' = page /\ anchor' = anchor /\ ledger' = ledger
    BY <1>1 DEF repo, HEAD, pages, bookmark, files
  <1>3. /\ DOMAIN me = Fields /\ me.head = HEAD /\ (\A f \in todo : me[f] = {}) /\ me.req = agent[a].req
        /\ DOMAIN up = Fields /\ up.head = HEAD /\ (\A f \in todo : up[f] = {})
    BY <1>1 DEF Fields, Clean
  <1> HIDE DEF me, up
  <1>4. \/ \E rec \in {me, up} : Set(a, FullSync(rec)) /\ UNCHANGED unsettled
        \/ Set(a, [me EXCEPT !.pc = "leave", !.outcome = "up_to_date"]) /\ UNCHANGED unsettled
        \/ /\ last \in Range(line)
           /\ \E R \in Renames(tree[last], Disk) :
                 /\ Set(a, Manifest(me, tree[last], R))
                 /\ unsettled' = unsettled \union {x[1] : x \in R \ Manifest(me, tree[last], R).ren}
    <2>1. agent[a].req.full \/ (IF agent[a].req.full THEN 0 ELSE anchor[Scope]) = last
      OBVIOUS
    <2>2. 0 \notin Range(line)
      BY LastCommit DEF HonestInv, BookmarkInv
    <2> QED  BY <2>1, <2>2 DEF Plan, me, up
  <1>5. ASSUME NEW rec \in {me, up}, Set(a, FullSync(rec)), UNCHANGED unsettled
        PROVE  Honest' /\ \A b \in Agent : RunOK(b)'
    <2>1. agent'[a] = FullSync(rec) /\ DOMAIN rec = Fields /\ rec.head = HEAD /\ \A f \in todo : rec[f] = {}
      BY <1>1, <1>3, <1>5 DEF Set
    <2>2. CASE rec.req.dry
      <3>1. agent'[a].pc \in {"stamp", "leave"}
        BY <2>1, <2>2 DEF FullSync, Fields
      <3>2. RunOK(a)'
        BY <3>1, NothingOwed DEF Working
      <3> QED  BY <1>1, <1>2, <1>5, <3>2, OneRun DEF Acknowledged
    <2>3. CASE ~rec.req.dry
      <3> DEFINE all == {p \in Path : KindOf[p] # "code" /\ Disk[p] # "none"}
      <3>1. /\ agent'[a].pc = "walk" /\ agent'[a].head = HEAD /\ agent'[a].outcome = "full"
            /\ agent'[a].walk = {p \in all : Before(p, all) >= 0}
            /\ \A f \in todo \ {"walk"} : agent'[a][f] = {}
        <4> DEFINE skip == IF checkpoint.total = Cardinality(all) THEN checkpoint.index ELSE 0
                   from(n) == {p \in all : Before(p, all) >= n}
        <4>1. skip = 0
          BY <1>1 DEF NoCheckpoint
        <4>2. agent'[a] = [rec EXCEPT !.pc = "walk", !.head = HEAD, !.outcome = "full",
                                      !.walk = from(skip), !.total = Cardinality(all), !.start = skip]
          BY <2>1, <2>3 DEF FullSync, Walking
        <4>3. agent'[a].walk = from(0)
          <5> HIDE DEF all, skip, from
          <5> QED  BY <2>1, <4>1, <4>2 DEF Fields
        <4> HIDE DEF all, skip, from
        <4>4. /\ agent'[a].pc = "walk" /\ agent'[a].head = HEAD /\ agent'[a].outcome = "full"
              /\ \A f \in todo \ {"walk"} : agent'[a][f] = {}
          BY <2>1, <4>2 DEF Fields
        <4> QED  BY <4>3, <4>4 DEF from
      <3>2. agent'[a].walk = all
        <4>1. \A p \in all : Before(p, all) \in Nat
          <5> TAKE p \in all
          <5>1. IsFiniteSet({q \in all : q < p})
            BY SyncAssumption, FS_Subset
          <5> QED  BY <5>1, FS_CardinalityType DEF Before
        <4> QED  BY <3>1, <4>1
      <3>3. \A p \in Md : p \in Todo(a)' \/ Settled(a, p)'
        BY <1>2, <3>1, <3>2 DEF Todo, Settled, Md, Disk
      <3>4. RunOK(a)'
        BY <3>1, <3>3 DEF RunOK, Right, Covered, Gone, InOrder
      <3> QED  BY <1>1, <1>2, <1>5, <3>4, OneRun DEF Acknowledged
    <2> QED  BY <2>2, <2>3
  <1>6. CASE Set(a, [me EXCEPT !.pc = "leave", !.outcome = "up_to_date"]) /\ UNCHANGED unsettled
    <2>1. agent'[a].pc = "leave"
      BY <1>1, <1>3, <1>6 DEF Set, Fields
    <2>2. RunOK(a)'
      BY <2>1, NothingOwed DEF Working
    <2> QED  BY <1>1, <1>2, <1>6, <2>2, OneRun DEF Acknowledged
  <1>7. ASSUME NEW R \in Renames(tree[last], Disk), last \in Range(line), Set(a, Manifest(me, tree[last], R)),
               unsettled' = unsettled \union {x[1] : x \in R \ Manifest(me, tree[last], R).ren}
        PROVE  Honest' /\ \A b \in Agent : RunOK(b)'
    <2> DEFINE old == tree[last]
               wanted == {p \in Path : isSyncable(p, me.req.kinds)}
    <2>1. /\ agent'[a].pc = "drop" /\ agent'[a].head = HEAD /\ agent'[a].outcome = "synced"
          /\ agent'[a].drop = Modified(old, Disk) \ wanted
          /\ agent'[a].del = (Deleted(old, Disk) \ {x[1] : x \in R}) \cap wanted
          /\ agent'[a].ren = {x \in R : x[2] \in wanted}
          /\ agent'[a].imp = ((Added(old, Disk) \ {x[2] : x \in R}) \union Modified(old, Disk)) \cap wanted
          /\ agent'[a].again = {} /\ agent'[a].walk = {} /\ agent'[a].seen = {} /\ agent'[a].failed = {}
          /\ Manifest(me, old, R).ren = {x \in R : x[2] \in wanted}
      <3>1. agent'[a] = Manifest(me, old, R)
        BY <1>1, <1>7 DEF Set
      <3> QED  BY <1>3, <3>1 DEF Manifest, Fields
    <2>2. Md \subseteq wanted
      BY <1>1, <1>3 DEF Md, isSyncable, Clean
    <2>3. R \subseteq Deleted(old, Disk) \X Added(old, Disk)
      BY <1>7 DEF Renames
    <2>4. last # 0
      BY <1>7, LastCommit DEF HonestInv, BookmarkInv
    <2>5. \A p \in Md : p \in Todo(a)' \union unsettled' \/ Settled(a, p)'
      <3> TAKE p \in Md
      <3>1. p \in Path /\ p \in wanted
        BY <2>2 DEF Md
      <3>2. CASE old[p] = Disk[p]
        BY <1>2, <2>1, <2>4, <3>2 DEF Settled, Disk
      <3>3. CASE p \in Deleted(old, Disk)
        BY <1>7, <2>1, <3>1, <3>3 DEF Todo
      <3>4. CASE p \in Added(old, Disk)
        BY <2>1, <3>1, <3>4 DEF Todo
      <3>5. CASE p \in Modified(old, Disk)
        BY <2>1, <3>1, <3>5 DEF Todo
      <3> QED  BY <3>1, <3>2, <3>3, <3>4, <3>5 DEF Deleted, Added, Modified
    <2>6. Gone(a)'
      <3>1. \A p \in agent'[a].del \union {x[1] : x \in agent'[a].ren} : p \in Deleted(old, Disk)
        BY <2>1, <2>3
      <3> QED  BY <1>2, <2>1, <3>1 DEF Gone, Deleted, Disk
    <2>7. InOrder(a)' /\ Right(a)' /\ Covered(a)'
      BY <2>1, <2>2, <2>5 DEF InOrder, Right, Covered
    <2>8. RunOK(a)'
      BY <2>1, <2>6, <2>7 DEF RunOK
    <2> QED  BY <1>1, <1>2, <1>7, <2>8, OneRun DEF Acknowledged
  <1> QED  BY <1>4, <1>5, <1>6, <1>7

\* The bookmark moves to a HEAD of which every path has been accounted for.
LEMMA AdvanceHonest ==
    ASSUME Scope = "source", HonestInv, NEW a \in Agent, Advance(a)
    PROVE  Honest' /\ \A b \in Agent : RunOK(b)'
  <1> DEFINE me == agent[a]
             ghosts == IF me.outcome = "synced" THEN {} ELSE {p \in Path : page[p] # NoPage /\ tree[me.head][p] = "none"}
  <1>1. me.pc = "advance" /\ me.outcome # "import"
    BY NoImport DEF Advance, Syncing
  <1>2. /\ AtWork(a) /\ Right(a) /\ Covered(a) /\ InOrder(a) /\ DOMAIN me = Fields /\ DOMAIN agent = Agent
    BY <1>1, Here DEF Working
  <1>3. /\ tree' = tree /\ page' = page /\ Acknowledged' = Acknowledged
        /\ anchor'["source"] = me.head
        /\ unsettled' = (IF me.drifted THEN unsettled \union me.seen ELSE unsettled \ me.seen) \union ghosts
        /\ Set(a, [me EXCEPT !.pc = "stamp"])
    BY DEF Advance, Settle, repo, pages, files, Acknowledged, HonestInv, BookmarkInv
  <1> HIDE DEF ghosts
  <1>4. ASSUME NEW p \in Path \ (unsettled' \union Acknowledged'), KindOf[p] = "md"
        PROVE  page[p].text = tree[me.head][p]
    <2>1. p \in Md /\ p \notin Todo(a) \union FailedPaths(a)
      BY <1>1, <1>2, <1>3, <1>4 DEF Md, InOrder
    <2>2. CASE p \in me.seen
      <3>1. ~me.drifted
        BY <1>3, <1>4, <2>2
      <3> QED  BY <1>1, <1>2, <2>1, <2>2, <3>1 DEF Right, Steady
    <2>3. CASE p \notin me.seen
      <3>1. p \notin unsettled /\ p \notin ghosts
        BY <1>3, <1>4, <2>3
      <3>2. Settled(a, p)
        BY <1>2, <2>1, <2>3, <3>1 DEF Covered
      <3>3. CASE me.outcome = "synced"
        BY <1>3, <1>4, <3>1, <3>2, <3>3 DEF Settled, Honest, HonestInv
      <3>4. CASE me.outcome # "synced"
        BY <1>4, <3>1, <3>2, <3>4 DEF Settled, ghosts, NoPage
      <3> QED  BY <3>3, <3>4
    <2> QED  BY <2>2, <2>3
  <1>5. Honest'
    BY <1>3, <1>4 DEF Honest
  <1>6. ASSUME NEW b \in Agent \ {a}
        PROVE  RunOK(b)'
    <2>1. agent'[b] = agent[b]
      BY <1>2, <1>3 DEF Set
    <2>2. ~InSync(b)
      <3>1. InSync(a)
        BY <1>2 DEF AtWork
      <3> QED  BY <3>1, LockIds DEF HonestInv, BookmarkInv, LocksInv, Guarded, Inside
    <2>3. RunOK(b)
      BY DEF HonestInv
    <2> QED  BY <2>1, <2>2, <2>3 DEF RunOK, Clean, AtWork, InSync
  <1>7. RunOK(a)'
    <2>1. agent'[a].pc = "stamp"
      BY <1>2, <1>3 DEF Set, Fields
    <2> QED  BY <2>1, NothingOwed DEF Working
  <1> QED  BY <1>5, <1>6, <1>7

LEMMA Leaving ==
    ASSUME DOMAIN agent = Agent, NEW a \in Agent, DOMAIN agent[a] = Fields,
           CycleAborted(a) \/ writeChunkerVersion(a) \/ Inline(a) \/ LeaveSync(a) \/ CycleExtract(a) \/ EndCycle(a)
    PROVE  (\E rec : Set(a, rec)) /\ agent'[a].pc \in {"inline", "leave", "extract", "release", "idle"}
  <1>1. CASE CycleAborted(a) \/ LeaveSync(a) \/ EndCycle(a)
    <2>1. \/ Set(a, [agent[a] EXCEPT !.pc = "release", !.missed = TRUE])
          \/ Set(a, [agent[a] EXCEPT !.pc = "extract"])
          \/ Set(a, Idle)
      BY <1>1 DEF CycleAborted, LeaveSync, EndCycle
    <2>2. CASE Set(a, Idle)
      BY <2>2 DEF Set, Idle
    <2>3. CASE Set(a, [agent[a] EXCEPT !.pc = "extract"]) \/ Set(a, [agent[a] EXCEPT !.pc = "release", !.missed = TRUE])
      BY <2>3 DEF Set, Fields
    <2> QED  BY <2>1, <2>2, <2>3
  <1>2. CASE writeChunkerVersion(a)
    BY <1>2 DEF writeChunkerVersion, GoTo, Set, Fields
  <1>3. CASE Inline(a) \/ CycleExtract(a)
    BY <1>3 DEF Inline, CycleExtract, Extract, Set, Fields
  <1> QED  BY <1>1, <1>2, <1>3

\* Runs that start, and runs that have nothing more to do with pages.
LEMMA QuietHonest ==
    ASSUME Scope = "source", \A r \in Requests : "md" \in r.kinds, HonestInv, NEW a \in Agent,
           \/ StartSync(a) \/ StartImport(a) \/ StartCycle(a) \/ CycleAborted(a) \/ writeChunkerVersion(a)
           \/ Inline(a) \/ LeaveSync(a) \/ CycleSync(a) \/ CycleExtract(a) \/ EndCycle(a)
    PROVE  ledger' = ledger /\ Honest' /\ \A b \in Agent : RunOK(b)'
  <1>1. DOMAIN agent = Agent /\ DOMAIN agent[a] = Fields /\ RunOK(a)
    BY DEF HonestInv, LinksInv, Shaped
  <1>2. page' = page /\ unsettled' = unsettled /\ UNCHANGED repo /\ ledger' = ledger /\ anchor' = anchor
    <2>1. CASE StartSync(a) \/ StartImport(a) \/ StartCycle(a) \/ CycleAborted(a) \/ LeaveSync(a)
      BY <2>1 DEF StartSync, StartImport, StartCycle, CycleAborted, LeaveSync, pages, files, bookmark
    <2>2. CASE writeChunkerVersion(a) \/ Inline(a) \/ CycleSync(a) \/ CycleExtract(a) \/ EndCycle(a)
      BY <2>2 DEF writeChunkerVersion, Inline, CycleSync, CycleExtract, EndCycle, pages, files, bookmark
    <2> QED  BY <2>1, <2>2
  <1>3. (\E rec : Set(a, rec)) /\ RunOK(a)'
    <2>1. CASE StartSync(a) \/ StartCycle(a)
      <3> DEFINE empty == {"drop", "del", "ren", "imp", "again", "walk", "seen", "failed"}
      <3>1. CASE StartSync(a)
        <4>1. PICK r \in Requests : Set(a, [Idle EXCEPT !.pc = "plan", !.req = r])
          BY <3>1 DEF StartSync
        <4>2. agent'[a].pc = "plan" /\ agent'[a].req = r /\ \A f \in empty : agent'[a][f] = {}
          BY <1>1, <4>1 DEF Set, Idle
        <4>3. Clean(a)'
          BY <4>2 DEF Clean
        <4> QED  BY <4>1, <4>2, <4>3 DEF RunOK, AtWork, Working
      <3>2. CASE StartCycle(a)
        <4>1. Set(a, [Idle EXCEPT !.pc = "phases"])
          BY <3>2 DEF StartCycle
        <4>2. agent'[a].pc = "phases" /\ agent'[a].req = CycleRequest /\ \A f \in empty : agent'[a][f] = {}
          BY <1>1, <4>1 DEF Set, Idle
        <4>3. Clean(a)'
          BY <4>2 DEF Clean, CycleRequest
        <4> QED  BY <4>1, <4>2, <4>3 DEF RunOK, AtWork, Working
      <3> QED  BY <2>1, <3>1, <3>2
    <2>2. CASE CycleSync(a)
      <3>1. CASE GoTo(a, "plan")
        <4>1. Set(a, [agent[a] EXCEPT !.pc = "plan"])
          BY <1>1, <3>1 DEF GoTo, Set
        <4>2. agent[a].pc = "phases" /\ Clean(a)
          BY <1>1, <2>2 DEF CycleSync, RunOK
        <4>3. agent'[a].pc = "plan" /\ Clean(a)'
          BY <1>1, <4>1, <4>2 DEF Set, Fields, Clean
        <4> QED  BY <4>1, <4>3 DEF RunOK, AtWork, Working
      <3>2. CASE Set(a, [agent[a] EXCEPT !.pc = "extract", !.outcome = "thrown"])
        <4>1. agent'[a].pc = "extract"
          BY <1>1, <3>2 DEF Set, Fields
        <4> QED  BY <3>2, <4>1, NothingOwed DEF Working
      <3> QED  BY <2>2, <3>1, <3>2 DEF CycleSync
    <2>3. CASE StartImport(a)
      <3>1. agent'[a].pc = "walk" /\ agent'[a].outcome = "import"
        BY <1>1, <2>3 DEF StartImport, Walking, Idle, Set
      <3> QED  BY <2>3, <3>1, NothingOwed DEF StartImport
    <2>4. CASE CycleAborted(a) \/ writeChunkerVersion(a) \/ Inline(a) \/ LeaveSync(a) \/ CycleExtract(a) \/ EndCycle(a)
      BY <1>1, <2>4, Leaving, NothingOwed DEF Working
    <2> QED  BY <2>1, <2>2, <2>3, <2>4
  <1> QED  BY <1>2, <1>3, OneRun DEF Acknowledged

\* Git moves HEAD to a commit that no run has captured.
LEMMA HeadIsNew ==
    ASSUME HistoryInv, Commit \/ Rewrite
    PROVE  HEAD' \notin 1..Len(tree) /\ \A n \in 1..Len(tree) : tree'[n] = tree[n]
  <1>1. PICK t \in Trees : tree' = Append(tree, t)
    BY DiskIsTree DEF Commit, Rewrite
  <1>2. \A n \in 1..Len(tree) : tree'[n] = tree[n]
    BY <1>1 DEF HistoryInv
  <1>3. PICK s \in Seq(1..Len(tree)) : line' = Append(s, Len(tree) + 1)
    <2>1. CASE Commit
      BY <2>1 DEF Commit, HistoryInv
    <2>2. CASE Rewrite
      <3>1. PICK keep \in 0..Len(line) - 1 : line' = Append(SubSeq(line, 1, keep), Len(tree) + 1)
        BY <2>2 DEF Rewrite
      <3>2. SubSeq(line, 1, keep) \in Seq(1..Len(tree))
        BY <3>1 DEF HistoryInv
      <3> QED  BY <3>1, <3>2
    <2> QED  BY <2>1, <2>2
  <1>4. HEAD' = Len(tree) + 1
    BY <1>3 DEF HEAD, Last
  <1>5. Len(tree) \in Nat
    BY DEF HistoryInv
  <1> QED  BY <1>2, <1>4, <1>5

LEMMA AroundHonest ==
    ASSUME Scope = "source", HonestInv,
           \/ Commit \/ Rewrite \/ Upgrade \/ UNCHANGED vars
           \/ (\E pid \in Pid : Crash(pid)) \/ (\E i \in LockId : Expire(i))
    PROVE  ledger' = ledger /\ Honest' /\ \A b \in Agent : RunOK(b)'
  <1>1. page' = page /\ unsettled' = unsettled /\ ledger' = ledger /\ anchor' = anchor
    <2>1. CASE Commit \/ Rewrite \/ Upgrade \/ UNCHANGED vars
      BY <2>1 DEF Commit, Rewrite, Upgrade, Elsewhere, vars, pages, files, bookmark
    <2>2. CASE (\E pid \in Pid : Crash(pid)) \/ \E i \in LockId : Expire(i)
      BY <2>2 DEF Crash, Expire, pages, files, bookmark
    <2> QED  BY <2>1, <2>2
  <1>2. (HEAD' = HEAD \/ HEAD' \notin 1..Len(tree)) /\ \A n \in 1..Len(tree) : tree'[n] = tree[n]
    <2>1. CASE Commit \/ Rewrite
      BY <2>1, HeadIsNew DEF HonestInv, BookmarkInv
    <2>2. CASE Upgrade \/ UNCHANGED vars \/ (\E pid \in Pid : Crash(pid)) \/ \E i \in LockId : Expire(i)
      BY <2>2 DEF Upgrade, vars, Crash, Expire, repo, HEAD
    <2> QED  BY <2>1, <2>2
  <1>3. Stays
    BY <1>1, <1>2 DEF Stays, Acknowledged
  <1>4. \A b \in Agent : agent'[b] = agent[b] \/ agent'[b] = Idle
    <2>1. CASE \E pid \in Pid : Crash(pid)
      BY <2>1 DEF Crash
    <2>2. CASE Commit \/ Rewrite \/ Upgrade \/ UNCHANGED vars \/ \E i \in LockId : Expire(i)
      BY <2>2 DEF Commit, Rewrite, Upgrade, Elsewhere, vars, Expire
    <2> QED  BY <2>1, <2>2
  <1>5. ASSUME NEW b \in Agent
        PROVE  RunOK(b)'
    <2>1. CASE agent'[b] = agent[b]
      BY <1>1, <1>2, <1>3, <2>1, BystanderOK DEF HonestInv
    <2>2. CASE agent'[b] = Idle
      BY <2>2, NothingOwed DEF Idle, Working
    <2> QED  BY <1>4, <2>1, <2>2
  <1> QED  BY <1>1, <1>3, <1>5, HonestStays DEF HonestInv

-----------------------------------------------------------------------------
LEMMA InitHonest ==
    ASSUME Scope = "source", Init
    PROVE  HonestInv
  <1>1. BookmarkInv /\ LinksInv
    BY InitBookmark, InitLinks
  <1>2. /\ agent = [a \in Agent |-> Idle] /\ checkpoint = NoCheckpoint /\ ledger = {}
    BY DEF Init
  <1>3. LedgerOK
    BY <1>2 DEF LedgerOK
  <1>4. \A a \in Agent : RunOK(a)
    BY <1>2 DEF RunOK, AtWork, Idle, Working
  <1>5. Honest
    <2>1. PICK t \in FirstTrees :
            /\ tree = <<t>>
            /\ page = [p \in Path |-> IF p \in {q \in Path : ~Fresh /\ KindOf[q] # "code" /\ t[q] # "none"}
                                      THEN [text |-> t[p], chunks |-> 1] ELSE NoPage]
      BY DEF Init
    <2>2. CASE Fresh
      BY <2>2 DEF Init, Honest
    <2>3. CASE ~Fresh
      <3>1. anchor[Scope] = 1 /\ tree[1] = t
        BY <2>1, <2>3 DEF Init
      <3>2. \A p \in Path : KindOf[p] = "md" => page[p].text = t[p]
        BY <2>1, <2>3 DEF NoPage
      <3> QED  BY <3>1, <3>2 DEF Honest
    <2> QED  BY <2>2, <2>3
  <1> QED  BY <1>1, <1>2, <1>3, <1>4, <1>5 DEF HonestInv

LEMMA StepHonest ==
    ASSUME ~LongRuns, Scope = "source", \A r \in Requests : "md" \in r.kinds,
           HonestInv, [Next]_vars, checkpoint' = NoCheckpoint
    PROVE  HonestInv'
  <1>1. BookmarkInv' /\ LinksInv'
    BY StepKeepsBookmark, StepLinks DEF HonestInv
  <1>2. LedgerOK' /\ Honest' /\ \A b \in Agent : RunOK(b)'
    <2>1. ASSUME ledger' = ledger /\ Honest' /\ \A b \in Agent : RunOK(b)'
          PROVE  LedgerOK' /\ Honest' /\ \A b \in Agent : RunOK(b)'
      BY <2>1 DEF HonestInv, LedgerOK
    <2>2. CASE \E a \in Agent : \/ StartSync(a) \/ StartImport(a) \/ StartCycle(a) \/ CycleAborted(a) \/ writeChunkerVersion(a)
                                \/ Inline(a) \/ LeaveSync(a) \/ CycleSync(a) \/ CycleExtract(a) \/ EndCycle(a)
      BY <2>1, <2>2, QuietHonest
    <2>3. CASE \/ Commit \/ Rewrite \/ Upgrade \/ UNCHANGED vars
               \/ (\E pid \in Pid : Crash(pid)) \/ (\E i \in LockId : Expire(i))
      BY <2>1, <2>3, AroundHonest
    <2>4. ASSUME NEW a \in Agent, DropUnsyncable(a) \/ Decide(a) \/ Delete(a) \/ Rename(a) \/ Reimport(a) \/ ImportOne(a)
          PROVE  LedgerOK' /\ Honest' /\ \A b \in Agent : RunOK(b)'
      <3>1. ledger' = ledger
        BY <2>4 DEF DropUnsyncable, Decide, Delete, Rename, Reimport, ImportOne, files
      <3> QED  BY <2>1, <2>4, <3>1, DropHonest, DecideHonest, DeleteHonest, RenameHonest, ReimportHonest, ImportOneHonest
    <2>5. ASSUME NEW a \in Agent, Plan(a) \/ Advance(a) \/ WalkOne(a)
          PROVE  LedgerOK' /\ Honest' /\ \A b \in Agent : RunOK(b)'
      <3>1. ledger' = ledger
        BY <2>5 DEF Plan, Advance, WalkOne, files
      <3> QED  BY <2>1, <2>5, <3>1, PlanHonest, AdvanceHonest, WalkOneHonest
    <2>6. ASSUME NEW a \in Agent, Gate(a) \/ WalkGate(a)
          PROVE  LedgerOK' /\ Honest' /\ \A b \in Agent : RunOK(b)'
      <3>1. LedgerOK'
        BY <2>6, JudgeLedger DEF Gate, WalkGate, HonestInv
      <3> QED  BY <2>6, <3>1, GateHonest
    <2>7. CASE \E a \in Agent : WalkEnd(a)
      BY <2>7, WalkEndHonest
    <2> QED  BY <2>2, <2>3, <2>4, <2>5, <2>6, <2>7 DEF Next, Step
  <1> QED  BY <1>1, <1>2 DEF HonestInv

\* The bookmark of a source tells the truth (the gate of sync.ts, "DO NOT advance"): a path whose
\* failure nobody has acknowledged, and that no unfinished, failed or unlocked run was the last to
\* write, has the page that the tree at last_commit says, however many people and cycles sync and
\* import, whatever fails or crashes and whoever moves HEAD meanwhile.  Where no run outlives its
\* lock and every sync is of a registered source and covers markdown, until a walk saves a
\* checkpoint: to start from one is what runImport gets wrong (import.ts, processedIndex).
THEOREM HonestHolds ==
    ASSUME ~LongRuns, Scope = "source", \A r \in Requests : "md" \in r.kinds
    PROVE  Spec /\ [](checkpoint = NoCheckpoint) => []Honest
  <1>1. Init => HonestInv
    BY InitHonest
  <1>2. HonestInv /\ [Next]_vars /\ (checkpoint = NoCheckpoint)' => HonestInv'
    BY StepHonest
  <1>3. HonestInv => Honest
    BY DEF HonestInv
  <1> QED  BY <1>1, <1>2, <1>3, PTL DEF Spec

-----------------------------------------------------------------------------
(* Where a walk is shorter than the distance between two checkpoints there  *)
(* is never one.                                                           *)

\* Files passed and files to come are never more than there are paths.
Counted(a) ==
    /\ agent[a].pc \in {"phases", "plan"} => agent[a].processed = 0
    /\ agent[a].pc = "walk" =>
         agent[a].processed \in Nat /\ agent[a].processed + Cardinality(agent[a].walk) <= Cardinality(Path)
CountInv == LinksInv /\ checkpoint = NoCheckpoint /\ \A a \in Agent : Counted(a)

LEMMA CountStays ==
    ASSUME LinksInv, NEW a \in Agent, NEW rec, StepTo(a, rec), \A b \in Agent : Counted(b),
           checkpoint' = NoCheckpoint, LinksInv', Counted(a)'
    PROVE  CountInv'
  <1>1. ASSUME NEW b \in Agent \ {a}
        PROVE  Counted(b)'
    <2>1. \A f \in {"pc", "walk", "processed"} : agent'[b][f] = agent[b][f]
      BY OthersKeep DEF LinksInv, Fields, Shared
    <2> QED  BY <2>1 DEF Counted
  <1> QED  BY <1>1 DEF CountInv

LEMMA PathSize ==
    /\ Cardinality(Path) \in Nat
    /\ \A S \in SUBSET Path : /\ Cardinality(S) \in Nat /\ Cardinality(S) <= Cardinality(Path)
                              /\ \A p \in S : Cardinality(S \ {p}) = Cardinality(S) - 1
  <1>1. IsFiniteSet(Path)
    BY SyncAssumption
  <1>2. ASSUME NEW S \in SUBSET Path
        PROVE  /\ Cardinality(S) \in Nat /\ Cardinality(S) <= Cardinality(Path)
               /\ \A p \in S : Cardinality(S \ {p}) = Cardinality(S) - 1
    <2>1. IsFiniteSet(S) /\ Cardinality(S) <= Cardinality(Path)
      BY <1>1, FS_Subset
    <2> QED  BY <2>1, FS_CardinalityType, FS_RemoveElement
  <1> QED  BY <1>1, <1>2, FS_CardinalityType

LEMMA WalkOneCounts ==
    ASSUME Cardinality(Path) < CheckpointEvery, CountInv, LinksInv', NEW a \in Agent, WalkOne(a)
    PROVE  CountInv'
  <1> DEFINE me == agent[a]
             rest(p) == [me EXCEPT !.walk = @ \ {p}, !.processed = @ + 1]
             put(p, more, t) == [rest(p) EXCEPT !.failed = @ \union more, !.threw = t]
  <1>1. me.pc = "walk" /\ DOMAIN me = Fields /\ LinksOK(me, unlinked) /\ LinksInv /\ DOMAIN agent = Agent /\ Counted(a)
    BY DEF WalkOne, CountInv, LinksInv, Shaped
  <1>2. PICK p \in me.walk :
          /\ Import(a, p, rest(p)) \/ \E more, t : Set(a, put(p, more, t))
          /\ checkpoint' = IF rest(p).processed % CheckpointEvery # 0 THEN checkpoint
                           ELSE [total |-> me.total, index |-> me.start + rest(p).processed]
    BY DEF WalkOne
  <1>3. /\ DOMAIN rest(p) = Fields /\ rest(p).walk = me.walk \ {p} /\ rest(p).processed = me.processed + 1
        /\ rest(p).pc = "walk"
    BY <1>1 DEF Fields
  <1> HIDE DEF rest
  <1>4. \E rec : StepTo(a, rec) /\ rec.walk = me.walk \ {p} /\ rec.processed = me.processed + 1 /\ rec.pc = "walk"
    <2>1. CASE Import(a, p, rest(p))
      <3>1. /\ \E rec : \/ Set(a, rec) /\ page' = page /\ unsettled \subseteq unsettled'
                        \/ \E written \in SUBSET Path : Wrote(a, written, rec) /\ \A q \in Path \ written : page'[q] = page[q]
            /\ agent'[a].seen = rest(p).seen \union {p}
            /\ \A f \in Fields \ {"seen", "wrote", "affected"} : agent'[a][f] = rest(p)[f]
            /\ page'[p].text = Disk[p] /\ \A q \in Path \ {p} : page'[q] = page[q]
            /\ unsettled \subseteq unsettled'
        <4>1. p \in Path
          BY <1>1, <1>2 DEF LinksOK
        <4> QED  BY <1>1, <1>3, <2>1, <4>1, Imports
      <3>2. PICK rec : StepTo(a, rec)
        BY <3>1 DEF StepTo
      <3>3. agent'[a] = rec
        BY <1>1, <3>2, OthersKeep DEF LinksInv
      <3> QED  BY <1>3, <3>1, <3>2, <3>3 DEF Fields
    <2>2. ASSUME NEW more, NEW t, Set(a, put(p, more, t))
          PROVE  \E rec : StepTo(a, rec) /\ rec.walk = me.walk \ {p} /\ rec.processed = me.processed + 1 /\ rec.pc = "walk"
      <3>1. /\ put(p, more, t).walk = me.walk \ {p} /\ put(p, more, t).processed = me.processed + 1
            /\ put(p, more, t).pc = "walk"
        BY <1>3 DEF Fields
      <3> HIDE DEF put
      <3> QED  BY <2>2, <3>1 DEF StepTo
    <2> QED  BY <1>2, <2>1, <2>2
  <1>5. PICK rec : StepTo(a, rec) /\ rec.walk = me.walk \ {p} /\ rec.processed = me.processed + 1 /\ rec.pc = "walk"
    BY <1>4
  <1>6. agent'[a] = rec
    BY <1>1, <1>5, OthersKeep DEF LinksInv
  <1>7. /\ me.processed \in Nat /\ me.processed + Cardinality(me.walk) <= Cardinality(Path)
        /\ Cardinality(me.walk) \in Nat /\ Cardinality(me.walk \ {p}) = Cardinality(me.walk) - 1
        /\ Cardinality(me.walk \ {p}) \in Nat
    <2>1. me.walk \subseteq Path /\ me.walk \ {p} \subseteq Path
      BY <1>1 DEF LinksOK
    <2> QED  BY <1>1, <1>2, <2>1, PathSize DEF Counted
  <1>8. /\ me.processed + 1 \in Nat /\ 0 < me.processed + 1 /\ me.processed + 1 <= Cardinality(Path)
        /\ me.processed + 1 + Cardinality(me.walk \ {p}) <= Cardinality(Path)
    BY <1>7, PathSize
  <1>9. Counted(a)'
    BY <1>5, <1>6, <1>8 DEF Counted
  <1>10. checkpoint' = NoCheckpoint
    <2>1. CheckpointEvery \in Nat \ {0} /\ me.processed + 1 < CheckpointEvery
      BY <1>8, SyncAssumption, PathSize
    <2>2. \A x \in Nat, n \in Nat \ {0} : 0 < x /\ x < n => x % n # 0
      OBVIOUS
    <2>3. (me.processed + 1) % CheckpointEvery # 0
      BY <1>8, <2>1, <2>2
    <2> QED  BY <1>2, <1>3, <2>3 DEF CountInv
  <1> QED  BY <1>1, <1>5, <1>9, <1>10, CountStays DEF CountInv

LEMMA JudgeMoves ==
    ASSUME DOMAIN agent = Agent, NEW a \in Agent, NEW me, DOMAIN me = Fields, Judge(a, me)
    PROVE  agent'[a].pc \in {"advance", "stamp", "leave"}
  <1>1. \/ Set(a, [me EXCEPT !.pc = "advance"])
        \/ Set(a, [me EXCEPT !.pc = IF me.stamp THEN "stamp" ELSE "leave",
                            !.outcome = IF @ = "full" THEN "full_blocked" ELSE "blocked"])
    BY DEF Judge
  <1>2. CASE Set(a, [me EXCEPT !.pc = "advance"])
    BY <1>2 DEF Set, Fields
  <1>3. CASE Set(a, [me EXCEPT !.pc = IF me.stamp THEN "stamp" ELSE "leave",
                              !.outcome = IF @ = "full" THEN "full_blocked" ELSE "blocked"])
    <2>1. agent'[a].pc = IF me.stamp THEN "stamp" ELSE "leave"
      BY <1>3 DEF Set, Fields
    <2> QED  BY <2>1
  <1> QED  BY <1>1, <1>2, <1>3

\* A walk that begins has every file before it.
LEMMA PlanCounts ==
    ASSUME CountInv, NEW a \in Agent, Plan(a) \/ StartImport(a)
    PROVE  Counted(a)'
  <1> DEFINE all == {p \in Path : KindOf[p] # "code" /\ Disk[p] # "none"}
             skip == IF checkpoint.total = Cardinality(all) THEN checkpoint.index ELSE 0
             todo == {p \in all : Before(p, all) >= skip}
             on(rec) == [rec EXCEPT !.pc = "walk", !.head = HEAD, !.outcome = "full",
                                    !.walk = todo, !.total = Cardinality(all), !.start = skip]
  <1>1. DOMAIN agent[a] = Fields /\ DOMAIN agent = Agent /\ Counted(a)
    BY DEF CountInv, LinksInv, Shaped
  <1>2. todo \subseteq Path
    OBVIOUS
  <1>3. \A rec : Walking(rec) = on(rec)
    BY DEF Walking
  <1> HIDE DEF all, skip, todo
  <1>4. \A rec : DOMAIN rec = Fields =>
          on(rec).pc = "walk" /\ on(rec).walk = todo /\ on(rec).processed = rec.processed /\ DOMAIN on(rec) = Fields
    BY DEF Fields
  <1> HIDE DEF on
  <1>5. Cardinality(todo) \in Nat /\ Cardinality(todo) <= Cardinality(Path) /\ Cardinality(Path) \in Nat
    BY <1>2, PathSize
  <1>6. CASE Plan(a)
    <2> DEFINE me == [agent[a] EXCEPT !.head = HEAD]
    <2>1. /\ DOMAIN me = Fields /\ me.processed = 0
          /\ DOMAIN [me EXCEPT !.stamp = TRUE] = Fields /\ [me EXCEPT !.stamp = TRUE].processed = 0
      BY <1>1, <1>6 DEF Fields, Plan, Counted
    <2>2. \/ \E rec : Set(a, FullSync(rec)) /\ DOMAIN rec = Fields /\ rec.processed = 0
          \/ Set(a, [me EXCEPT !.pc = "leave", !.outcome = "up_to_date"])
          \/ \E old, R : Set(a, Manifest(me, old, R))
      BY <1>6, <2>1 DEF Plan
    <2> HIDE DEF me
    <2>3. ASSUME NEW rec, Set(a, FullSync(rec)), DOMAIN rec = Fields, rec.processed = 0
          PROVE  Counted(a)'
      <3>1. CASE ~rec.req.dry
        <4>1. agent'[a] = on(rec)
          BY <1>1, <1>3, <2>3, <3>1 DEF Set, FullSync
        <4>2. agent'[a].pc = "walk" /\ agent'[a].walk = todo /\ agent'[a].processed = 0
          BY <1>4, <2>3, <4>1
        <4> QED  BY <1>5, <4>2 DEF Counted
      <3>2. CASE rec.req.dry
        <4>1. agent'[a].pc \in {"stamp", "leave"}
          BY <1>1, <2>3, <3>2 DEF Set, FullSync, Fields
        <4> QED  BY <4>1 DEF Counted
      <3> QED  BY <3>1, <3>2
    <2>4. CASE Set(a, [me EXCEPT !.pc = "leave", !.outcome = "up_to_date"])
      <3>1. agent'[a].pc = "leave"
        BY <1>1, <2>1, <2>4 DEF Set, Fields
      <3> QED  BY <3>1 DEF Counted
    <2>5. ASSUME NEW old, NEW R, Set(a, Manifest(me, old, R))
          PROVE  Counted(a)'
      <3>1. agent'[a].pc = "drop"
        BY <1>1, <2>1, <2>5 DEF Set, Manifest, Fields
      <3> QED  BY <3>1 DEF Counted
    <2> QED  BY <2>2, <2>3, <2>4, <2>5
  <1>7. CASE StartImport(a)
    <2>1. agent'[a] = [on(Idle) EXCEPT !.outcome = "import"]
      BY <1>1, <1>3, <1>7 DEF StartImport, Set
    <2>2. DOMAIN Idle = Fields /\ Idle.processed = 0
      BY DEF Idle, Fields
    <2>3. on(Idle).pc = "walk" /\ on(Idle).walk = todo /\ on(Idle).processed = 0 /\ DOMAIN on(Idle) = Fields
      BY <1>4, <2>2
    <2>4. agent'[a].pc = "walk" /\ agent'[a].walk = todo /\ agent'[a].processed = 0
      BY <2>1, <2>3 DEF Fields
    <2> QED  BY <1>5, <2>4 DEF Counted
  <1> QED  BY <1>6, <1>7

LEMMA StepCounts ==
    ASSUME Cardinality(Path) < CheckpointEvery, LocksInv, CountInv, LinksInv', [Next]_vars
    PROVE  CountInv'
  <1>1. ASSUME NEW a \in Agent, StartSync(a) \/ StartImport(a) \/ StartCycle(a) \/ Step(a) \/ CycleAborted(a)
        PROVE  CountInv'
    <2>1. /\ DOMAIN agent[a] = Fields /\ DOMAIN agent = Agent /\ Counted(a) /\ LinksInv
          /\ \A b \in Agent : Counted(b)
      BY DEF CountInv, LinksInv, Shaped
    <2>2. PICK rec : StepTo(a, rec)
      BY <1>1, StepOfOne
    <2>3. CASE WalkOne(a)
      BY <2>3, WalkOneCounts
    <2>4. CASE Plan(a) \/ StartImport(a)
      <3>1. checkpoint' = NoCheckpoint
        BY <2>4 DEF Plan, StartImport, files, CountInv
      <3> QED  BY <2>1, <2>2, <2>4, <3>1, PlanCounts, CountStays
    <2>5. CASE StartSync(a) \/ StartCycle(a) \/ CycleSync(a)
      <3>1. checkpoint' = NoCheckpoint
        BY <2>5 DEF StartSync, StartCycle, CycleSync, files, CountInv
      <3>2. agent'[a].pc \in {"plan", "phases", "extract"} /\ agent'[a].processed = 0
        <4>1. CASE StartSync(a)
          BY <2>1, <4>1 DEF StartSync, Set, Idle
        <4>2. CASE StartCycle(a)
          BY <2>1, <4>2 DEF StartCycle, Set, Idle
        <4>3. CASE CycleSync(a)
          BY <2>1, <4>3 DEF CycleSync, GoTo, Set, Fields, Counted
        <4> QED  BY <2>5, <4>1, <4>2, <4>3
      <3>3. Counted(a)'
        BY <3>2 DEF Counted
      <3> QED  BY <2>1, <2>2, <3>1, <3>3, CountStays
    <2>6. ASSUME checkpoint' \in {checkpoint, NoCheckpoint}, agent'[a].pc \notin {"phases", "plan", "walk"}
          PROVE  CountInv'
      <3>1. checkpoint' = NoCheckpoint /\ Counted(a)'
        BY <2>6 DEF CountInv, Counted
      <3> QED  BY <2>1, <2>2, <3>1, CountStays
    <2>7. CASE DropUnsyncable(a) \/ Decide(a) \/ Delete(a) \/ Rename(a) \/ Reimport(a) \/ ImportOne(a)
      <3>1. agent[a].pc \in {"drop", "apply"} /\ checkpoint' = checkpoint
        BY <2>7 DEF DropUnsyncable, Decide, Delete, Rename, Reimport, ImportOne, files
      <3>2. agent'[a].pc \in {agent[a].pc, "leave", "apply", "advance"}
        BY <2>7, FilesKeep
      <3> QED  BY <2>6, <3>1, <3>2
    <2>8. CASE Gate(a) \/ WalkGate(a)
      <3>1. agent'[a].pc \in {"advance", "stamp", "leave"}
        <4> DEFINE me == [agent[a] EXCEPT !.drifted = HEAD # agent[a].head,
                             !.failed = IF HEAD # agent[a].head THEN @ \union {[path |-> 0, why |-> "drift"]} ELSE @]
        <4>1. DOMAIN me = Fields
          BY <2>1 DEF Fields
        <4>2. Judge(a, me) \/ Judge(a, agent[a])
          BY <2>8 DEF Gate, WalkGate
        <4> HIDE DEF me
        <4> QED  BY <2>1, <4>1, <4>2, JudgeMoves
      <3> QED  BY <2>6, <2>8, <3>1 DEF Gate, WalkGate
    <2>9. CASE WalkEnd(a)
      <3>1. agent'[a].pc \in {"idle", "walked"}
        BY <2>9, WalkEndWrites
      <3>2. checkpoint' \in {checkpoint, NoCheckpoint}
        BY <2>9 DEF WalkEnd
      <3> QED  BY <2>6, <3>1, <3>2
    <2>10. CASE Advance(a)
      <3>1. agent'[a].pc = "stamp" /\ checkpoint' = checkpoint
        BY <2>1, <2>10 DEF Advance, Set, Fields, files
      <3> QED  BY <2>6, <3>1
    <2>11. CASE CycleAborted(a) \/ writeChunkerVersion(a) \/ Inline(a) \/ LeaveSync(a) \/ CycleExtract(a) \/ EndCycle(a)
      <3>1. agent'[a].pc \in {"inline", "leave", "extract", "release", "idle"}
        BY <2>1, <2>11, Leaving
      <3>2. checkpoint' = checkpoint
        BY <2>11 DEF CycleAborted, writeChunkerVersion, Inline, LeaveSync, CycleExtract, EndCycle, files
      <3> QED  BY <2>6, <3>1, <3>2
    <2> QED  BY <1>1, <2>3, <2>4, <2>5, <2>7, <2>8, <2>9, <2>10, <2>11 DEF Step
  <1>2. CASE \/ Commit \/ Rewrite \/ Upgrade \/ UNCHANGED vars
             \/ (\E pid \in Pid : Crash(pid)) \/ (\E i \in LockId : Expire(i))
    <2>1. checkpoint' = checkpoint
      <3>1. CASE Commit \/ Rewrite \/ Upgrade \/ UNCHANGED vars
        BY <3>1 DEF Commit, Rewrite, Upgrade, Elsewhere, vars, files
      <3>2. CASE (\E pid \in Pid : Crash(pid)) \/ \E i \in LockId : Expire(i)
        BY <3>2 DEF Crash, Expire, files
      <3> QED  BY <1>2, <3>1, <3>2
    <2>2. \A b \in Agent : agent'[b] = agent[b] \/ agent'[b] = Idle
      <3>1. CASE \E pid \in Pid : Crash(pid)
        BY <3>1 DEF Crash
      <3>2. CASE Commit \/ Rewrite \/ Upgrade \/ UNCHANGED vars \/ \E i \in LockId : Expire(i)
        BY <3>2 DEF Commit, Rewrite, Upgrade, Elsewhere, vars, Expire
      <3> QED  BY <1>2, <3>1, <3>2
    <2>3. Idle.pc = "idle"
      BY DEF Idle
    <2> QED  BY <2>1, <2>2, <2>3 DEF CountInv, Counted
  <1> QED  BY <1>1, <1>2 DEF Next


\* The same for a repository whose paths are fewer than the files between two checkpoints, a
\* hundred in the code: no walk of it saves one.
THEOREM HonestInSmall ==
    ASSUME ~LongRuns, Scope = "source", \A r \in Requests : "md" \in r.kinds, Cardinality(Path) < CheckpointEvery
    PROVE  Spec => []Honest
  <1> DEFINE Inv == HonestInv /\ CountInv
  <1>1. Init => Inv
    <2> SUFFICES ASSUME Init PROVE Inv  OBVIOUS
    <2>1. HonestInv
      BY InitHonest
    <2>2. agent = [a \in Agent |-> Idle]
      BY DEF Init
    <2> QED  BY <2>1, <2>2 DEF HonestInv, CountInv, Counted, Idle
  <1>2. Inv /\ [Next]_vars => Inv'
    <2> SUFFICES ASSUME Inv, [Next]_vars PROVE Inv'  OBVIOUS
    <2>1. LocksInv /\ LinksInv'
      BY StepLinks DEF HonestInv, BookmarkInv
    <2>2. CountInv'
      BY <2>1, StepCounts
    <2>3. HonestInv'
      BY <2>2, StepHonest DEF CountInv
    <2> QED  BY <2>2, <2>3
  <1>3. Inv => Honest
    BY DEF HonestInv
  <1> QED  BY <1>1, <1>2, <1>3, PTL DEF Spec
================================================================================
