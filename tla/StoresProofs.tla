----------------------------- MODULE StoresProofs ------------------------------
(***************************************************************************)
(* What holds of the stores whatever they hold and whoever is at them: the *)
(* schema is whole up to the version a brain claims, a brain that has      *)
(* moved to another engine has all that the old one showed, what people    *)
(* last saved of a file can be brought back, what they wrote into a skill  *)
(* stays until they said it may go, what is derived from a page is derived *)
(* from the text the page has, and what a day may cost is not overspent.   *)
(***************************************************************************)
EXTENDS Migrations, EngineMove, FileOffload, Skillpack, PageStore, BudgetLedger, FiniteSetTheorems, TLAPS

-----------------------------------------------------------------------------
(***************************************************************************)
(* Migrations: config.version never claims too much, for any set of runs   *)
(* of any releases that migrate the same brain at once, and even if none   *)
(* of them holds the advisory lock. Every run stamps versions in order and *)
(* only after their statements, so the row may go back but not past a      *)
(* hole.                                                                   *)
(***************************************************************************)

\* The versions that no pooler can swallow are in the schema up to m.
WholeTo(m) == \A v \in Versions \ Columns : v <= m => effect[v] = "yes"

\* A run applies and stamps a version of its own release.
InRelease(r) ==
    runner[r].pc \in {"applying", "stamping"} => runner[r].at \in 2..Latest[r]

\* A run is at a version only when those before it are there, and stamps it
\* only when it is there itself.
Behind(r) ==
    /\ runner[r].pc = "applying" => WholeTo(runner[r].at - 1)
    /\ runner[r].pc = "stamping" => WholeTo(runner[r].at)

Claimed == WholeTo(version)

Healing ==
    version = Top /\ Holed =>
      unverified \/ \E r \in Runner : Latest[r] = Top /\ runner[r].pc = "verifying"

MigrationsInv ==
    /\ MigrationsTypeOK
    /\ \A r \in Runner : InRelease(r) /\ Behind(r)
    /\ Claimed
    /\ Healing

\* The property is the last two parts of the invariant.
LEMMA SchemaWholeParts == MigrationsInv => SchemaWhole
  BY DEF MigrationsInv, SchemaWhole, Claimed, WholeTo, Healing

\* A fresh brain is at version 1, which stands for what schema.sql creates.
LEMMA InitEstablishes == MigrationsInit => MigrationsInv
  <1> SUFFICES ASSUME MigrationsInit PROVE MigrationsInv  OBVIOUS
  <1>1. MigrationsTypeOK
    <2>1. unverified \in BOOLEAN
      BY DEF MigrationsInit
    <2>2. /\ version \in 1..Top /\ lock \in Runner \union {"nobody"}
          /\ effect \in [Versions -> {"no", "part", "yes"}]
      BY MigrationsAssumption DEF MigrationsInit
    <2>3. Away \in [pc : Phases, at : 1..Top]
      BY MigrationsAssumption DEF Away, Phases
    <2>4. runner \in [Runner -> [pc : Phases, at : 1..Top]]
      BY <2>3 DEF MigrationsInit
    <2> QED  BY <2>1, <2>2, <2>4 DEF MigrationsTypeOK
  <1>2. \A r \in Runner : InRelease(r) /\ Behind(r)
    BY DEF MigrationsInit, InRelease, Behind, Away
  <1>3. Claimed
    BY MigrationsAssumption DEF MigrationsInit, Claimed, WholeTo, Versions
  <1>4. Healing
    <2>1. version = Top => Versions = {}
      BY MigrationsAssumption DEF MigrationsInit, Versions
    <2> QED  BY <2>1 DEF Healing, Holed
  <1> QED  BY <1>1, <1>2, <1>3, <1>4 DEF MigrationsInv

\* Every step keeps the types.
LEMMA TypeKept == MigrationsInv /\ [MigrationsNext]_migrationVars => MigrationsTypeOK'
  <1> SUFFICES ASSUME MigrationsInv, [MigrationsNext]_migrationVars
               PROVE  MigrationsTypeOK'
    OBVIOUS
  <1> USE MigrationsAssumption DEF MigrationsInv, MigrationsTypeOK, Enters, Phases, Versions
  <1>1. CASE UNCHANGED migrationVars
    BY <1>1 DEF migrationVars
  <1>2. CASE SessionEnds
    BY <1>2 DEF SessionEnds
  <1>3. ASSUME NEW r \in Runner,
               connectEngine(r) \/ migrateOnly(r) \/ Lock(r)
        PROVE  MigrationsTypeOK'
    BY ZenonT(60), <1>3 DEF connectEngine, migrateOnly, Lock
  <1>4. ASSUME NEW r \in Runner, runMigrations(r)
        PROVE  MigrationsTypeOK'
    <2>1. Latest[r] \in 1..Top /\ version \in 1..Top /\ Top \in Nat
      OBVIOUS
    <2>2. version < Latest[r] => version + 1 \in 1..Top
      BY <2>1
    <2>3. runner' \in [Runner -> [pc : Phases, at : 1..Top]]
      BY <1>4, <2>2 DEF runMigrations
    <2> QED  BY <1>4, <2>3 DEF runMigrations
  <1>5. ASSUME NEW r \in Runner, runMigrationSQL(r)
        PROVE  MigrationsTypeOK'
    BY ZenonT(60), <1>5 DEF runMigrationSQL
  <1>6. ASSUME NEW r \in Runner, setConfig(r)
        PROVE  MigrationsTypeOK'
    <2>1. /\ runner[r].at \in 1..Top
          /\ runner[r].at < Latest[r] => runner[r].at + 1 \in 1..Top
      OBVIOUS
    <2> QED  BY <1>6, <2>1 DEF setConfig
  <1>7. ASSUME NEW r \in Runner, verifySchema(r)
        PROVE  MigrationsTypeOK'
    BY <1>7 DEF verifySchema, Unlocked, Away
  <1>8. ASSUME NEW r \in Runner, Abandons(r)
        PROVE  MigrationsTypeOK'
    <2>1. unverified' \in BOOLEAN
      BY <1>8 DEF Abandons
    <2> QED  BY <1>8, <2>1 DEF Abandons, Unlocked, Away
  <1> QED
    BY <1>1, <1>2, <1>3, <1>4, <1>5, <1>6, <1>7, <1>8 DEF MigrationsNext, RunnerNext

\* What is in the schema stays there.
LEMMA EffectKept ==
    ASSUME MigrationsInv, [MigrationsNext]_migrationVars, NEW v \in Versions,
           effect[v] = "yes"
    PROVE  effect'[v] = "yes"
  <1> USE DEF MigrationsInv, MigrationsTypeOK
  <1>1. CASE UNCHANGED effect
    BY <1>1
  <1>2. ASSUME NEW r \in Runner, runMigrationSQL(r)
        PROVE  effect'[v] = "yes"
    BY <1>2 DEF runMigrationSQL
  <1>3. ASSUME NEW r \in Runner, verifySchema(r)
        PROVE  effect'[v] = "yes"
    BY <1>3 DEF verifySchema
  <1> QED
    BY <1>1, <1>2, <1>3
       DEF MigrationsNext, RunnerNext, migrationVars, SessionEnds, connectEngine,
           migrateOnly, Lock, runMigrations, setConfig, Abandons

\* A process moves to a version only from the one before it, which it has
\* applied and stamped.
LEMMA RunnersKept ==
    MigrationsInv /\ [MigrationsNext]_migrationVars
      => \A q \in Runner : (InRelease(q) /\ Behind(q))'
  <1> SUFFICES ASSUME MigrationsInv, [MigrationsNext]_migrationVars, NEW q \in Runner
               PROVE  (InRelease(q) /\ Behind(q))'
    OBVIOUS
  <1>0. /\ InRelease(q) /\ Behind(q)
        /\ runner \in [Runner -> [pc : Phases, at : 1..Top]]
        /\ version \in 1..Top /\ Latest[q] \in 1..Top /\ Top \in Nat
        /\ effect \in [Versions -> {"no", "part", "yes"}]
    BY MigrationsAssumption DEF MigrationsInv, MigrationsTypeOK
  <1>k. \A v \in Versions : effect[v] = "yes" => effect'[v] = "yes"
    BY EffectKept
  <1>1. CASE runner'[q] = runner[q]
    BY <1>0, <1>1, <1>k DEF InRelease, Behind, WholeTo
  <1>2. CASE runner'[q].pc \in {"idle", "locking", "reading", "verifying"}
    BY <1>2 DEF InRelease, Behind
  <1>3. CASE runMigrations(q)
    <2>1. CASE version < Latest[q]
      <3>1. runner'[q] = [pc |-> "applying", at |-> version + 1]
        BY <1>0, <1>3, <2>1 DEF runMigrations
      <3>2. version + 1 \in 2..Latest[q] /\ (version + 1) - 1 = version
        BY <1>0, <2>1
      <3>3. WholeTo(version)
        BY DEF MigrationsInv, Claimed
      <3> QED  BY <3>1, <3>2, <3>3, <1>k DEF InRelease, Behind, WholeTo
    <2>2. CASE ~(version < Latest[q])
      BY <1>0, <1>2, <1>3, <2>2 DEF runMigrations
    <2> QED  BY <2>1, <2>2
  <1>4. CASE runMigrationSQL(q)
    <2>1. /\ runner[q].pc = "applying" /\ runner[q].at \in 2..Latest[q]
          /\ WholeTo(runner[q].at - 1)
      BY <1>0, <1>4 DEF runMigrationSQL, InRelease, Behind
    <2>2. CASE runner'[q] = runner[q]
      BY <1>1, <2>2
    <2>3. CASE runner'[q] # runner[q]
      <3>1. runner'[q].pc = "stamping" /\ runner'[q].at = runner[q].at
        BY <1>0, <1>4, <2>3 DEF runMigrationSQL, Enters
      <3>2. effect'[runner[q].at] = "yes" \/ runner[q].at \in Columns
        BY <1>0, <1>4, <2>1, <2>3 DEF runMigrationSQL, Versions, Enters
      <3>3. \A v \in Versions \ Columns : v <= runner[q].at - 1 => effect'[v] = "yes"
        BY <1>k, <2>1 DEF WholeTo
      <3>4. \A v \in Versions : v <= runner[q].at => v <= runner[q].at - 1 \/ v = runner[q].at
        BY <1>0, <2>1 DEF Versions
      <3> QED  BY <2>1, <3>1, <3>2, <3>3, <3>4 DEF InRelease, Behind, WholeTo
    <2> QED  BY <2>2, <2>3
  <1>5. CASE setConfig(q)
    <2>1. /\ runner[q].pc = "stamping" /\ runner[q].at \in 2..Latest[q]
          /\ WholeTo(runner[q].at)
      BY <1>0, <1>5 DEF setConfig, InRelease, Behind
    <2>2. CASE runner[q].at < Latest[q]
      <3>1. runner'[q] = [pc |-> "applying", at |-> runner[q].at + 1]
        BY <1>0, <1>5, <2>2 DEF setConfig
      <3>2. /\ runner[q].at + 1 \in 2..Latest[q]
            /\ (runner[q].at + 1) - 1 = runner[q].at
        BY <1>0, <2>1, <2>2
      <3> QED  BY <2>1, <3>1, <3>2, <1>k DEF InRelease, Behind, WholeTo
    <2>3. CASE ~(runner[q].at < Latest[q])
      BY <1>0, <1>2, <1>5, <2>3 DEF setConfig
    <2> QED  BY <2>2, <2>3
  <1>6. \/ runner'[q] = runner[q]
        \/ runner'[q].pc \in {"idle", "locking", "reading", "verifying"}
        \/ runMigrations(q) \/ runMigrationSQL(q) \/ setConfig(q)
    <2>1. CASE UNCHANGED runner
      BY <2>1
    <2>2. ASSUME NEW r \in Runner, r # q, RunnerNext(r)
          PROVE  runner'[q] = runner[q]
      BY <1>0, <2>2
         DEF RunnerNext, connectEngine, migrateOnly, Lock, runMigrations,
             runMigrationSQL, setConfig, verifySchema, Abandons, Enters
    <2>3. CASE connectEngine(q) \/ migrateOnly(q) \/ Lock(q) \/ verifySchema(q) \/ Abandons(q)
      BY <1>0, <2>3
         DEF connectEngine, migrateOnly, Lock, verifySchema, Abandons, Enters, Away
    <2> QED
      BY <2>1, <2>2, <2>3 DEF MigrationsNext, RunnerNext, SessionEnds, migrationVars
  <1> QED  BY <1>1, <1>2, <1>3, <1>4, <1>5, <1>6

\* Only a process that has applied a version and all before it writes the row.
LEMMA ClaimedKept == MigrationsInv /\ [MigrationsNext]_migrationVars => Claimed'
  <1> SUFFICES ASSUME MigrationsInv, [MigrationsNext]_migrationVars
               PROVE  Claimed'
    OBVIOUS
  <1>k. \A v \in Versions : effect[v] = "yes" => effect'[v] = "yes"
    BY EffectKept
  <1>1. CASE version' = version
    BY <1>1, <1>k DEF MigrationsInv, Claimed, WholeTo
  <1>2. ASSUME NEW r \in Runner, setConfig(r)
        PROVE  Claimed'
    <2>1. version' = runner[r].at /\ WholeTo(runner[r].at)
      BY <1>2 DEF setConfig, MigrationsInv, Behind
    <2> QED  BY <2>1, <1>k DEF Claimed, WholeTo
  <1> QED
    BY <1>1, <1>2
       DEF MigrationsNext, RunnerNext, migrationVars, SessionEnds, connectEngine,
           migrateOnly, Lock, runMigrations, runMigrationSQL, verifySchema, Abandons

\* The process that brings the brain to the newest version is of the newest
\* release, and verifies next; what it verifies is whole.
LEMMA HealingKept == MigrationsInv /\ [MigrationsNext]_migrationVars => Healing'
  <1> SUFFICES ASSUME MigrationsInv, [MigrationsNext]_migrationVars,
                      version' = Top, Holed'
               PROVE  \/ unverified'
                      \/ \E q \in Runner : Latest[q] = Top /\ runner'[q].pc = "verifying"
    BY DEF Healing
  <1>0. /\ runner \in [Runner -> [pc : Phases, at : 1..Top]]
        /\ version \in 1..Top /\ Top \in Nat /\ Latest \in [Runner -> 1..Top]
        /\ effect \in [Versions -> {"no", "part", "yes"}]
    BY MigrationsAssumption DEF MigrationsInv, MigrationsTypeOK
  <1>h. Holed
    BY EffectKept DEF Holed
  <1>1. CASE version' = version /\ UNCHANGED <<runner, unverified>>
    BY <1>1, <1>h DEF MigrationsInv, Healing
  <1>2. ASSUME NEW r \in Runner, setConfig(r)
        PROVE  Latest[r] = Top /\ runner'[r].pc = "verifying"
    <2>1. runner[r].at = Top /\ runner[r].at \in 2..Latest[r]
      BY <1>2 DEF setConfig, MigrationsInv, InRelease
    <2>2. Latest[r] = Top /\ ~(runner[r].at < Latest[r])
      BY <2>1, <1>0
    <2> QED  BY <1>0, <1>2, <2>2 DEF setConfig
  <1>3. ASSUME NEW r \in Runner, version' = version, unverified' = unverified,
               runner[r].pc # "verifying", \A q \in Runner \ {r} : runner'[q] = runner[q]
        PROVE  unverified' \/ \E q \in Runner : Latest[q] = Top /\ runner'[q].pc = "verifying"
    BY <1>3, <1>h DEF MigrationsInv, Healing
  <1>4. ASSUME NEW r \in Runner, verifySchema(r)
        PROVE  unverified' \/ \E q \in Runner : Latest[q] = Top /\ runner'[q].pc = "verifying"
    <2>1. CASE Latest[r] = Top
      <3>1. \A v \in Versions : effect'[v] = "yes"
        <4> SUFFICES ASSUME NEW v \in Versions PROVE effect'[v] = "yes"  OBVIOUS
        <4>1. v <= Top  BY <1>0 DEF Versions
        <4>2. version = Top  BY <1>4 DEF verifySchema
        <4>3. v \notin Columns => effect[v] = "yes"
          BY <4>1, <4>2 DEF MigrationsInv, Claimed, WholeTo
        <4> QED  BY <1>4, <2>1, <4>1, <4>3 DEF verifySchema
      <3> QED  BY <3>1 DEF Holed
    <2>2. CASE Latest[r] # Top
      <3>1. unverified' = unverified /\ version' = version
        BY <1>4, <2>2 DEF verifySchema, MigrationsInv, MigrationsTypeOK
      <3>2. \A q \in Runner \ {r} : runner'[q] = runner[q]
        BY <1>0, <1>4 DEF verifySchema
      <3> QED  BY <3>1, <3>2, <2>2, <1>h DEF MigrationsInv, Healing
    <2> QED  BY <2>1, <2>2
  <1>5. ASSUME NEW r \in Runner, Abandons(r)
        PROVE  unverified' \/ \E q \in Runner : Latest[q] = Top /\ runner'[q].pc = "verifying"
    <2>1. CASE runner[r].pc = "verifying"
      BY <1>5, <1>h, <2>1 DEF Abandons
    <2>2. CASE runner[r].pc # "verifying" /\ ~unverified
      <3>1. PICK q \in Runner : Latest[q] = Top /\ runner[q].pc = "verifying"
        BY <1>5, <1>h, <2>2 DEF Abandons, MigrationsInv, Healing
      <3>2. runner'[q] = runner[q]
        BY <1>0, <1>5, <2>2, <3>1 DEF Abandons
      <3> QED  BY <3>1, <3>2
    <2>3. CASE unverified
      BY <1>5, <2>3 DEF Abandons
    <2> QED  BY <2>1, <2>2, <2>3
  <1>6. ASSUME NEW r \in Runner,
               connectEngine(r) \/ migrateOnly(r) \/ Lock(r) \/ runMigrations(r) \/ runMigrationSQL(r)
        PROVE  /\ version' = version /\ unverified' = unverified
               /\ runner[r].pc # "verifying"
               /\ \A q \in Runner \ {r} : runner'[q] = runner[q]
    BY <1>0, <1>6
       DEF connectEngine, migrateOnly, Lock, runMigrations, runMigrationSQL, Enters
  <1> QED
    BY <1>1, <1>2, <1>3, <1>4, <1>5, <1>6
       DEF MigrationsNext, RunnerNext, SessionEnds, migrationVars

\* For any number of processes, of releases and of versions, whichever of them
\* add columns or run statement by statement, and whether or not the advisory
\* lock holds: what config.version claims is in the schema, and a column that a
\* pooler swallowed is healed, about to be, or known to be left.
THEOREM SchemaWholeHolds == MigrationsSpec => []SchemaWhole
  <1>1. MigrationsInv /\ [MigrationsNext]_migrationVars => MigrationsInv'
    BY TypeKept, RunnersKept, ClaimedKept, HealingKept DEF MigrationsInv
  <1> QED  BY <1>1, InitEstablishes, SchemaWholeParts, PTL DEF MigrationsSpec

-----------------------------------------------------------------------------
(***************************************************************************)
(* EngineMove: what the copy of a page is made of is listed once, before   *)
(* the first page is written, so the invariant compares the other brain    *)
(* with the listing and the listing with what the old brain shows.         *)
(***************************************************************************)

MoverState == [pc : {"idle", "wipe", "pages", "rest", "save", "links", "clear"},
               list : Rows, todo : SUBSET Page, at : Page \union {None}]

MoveTypeOK ==
    /\ source \in Rows /\ target \in Rows /\ targetRest \in Rows
    /\ sourceHidden \in SUBSET Page /\ targetHidden \in SUBSET Page
    /\ targetLinks \in SUBSET Linked
    /\ engine \in {"old", "new"} /\ mover \in MoverState
    /\ late \in BOOLEAN /\ resumed \in BOOLEAN

Listed == {p \in Page : mover.list[p] # None}
Copying == mover.pc \in {"pages", "rest", "save"}

\* A link of the other brain has both of its rows there, for the rows cascade.
LinksHaveRows == \A l \in targetLinks : Between(l, HasRow(target))

\* Before the pages are listed the other brain has no visible page left but those still to be wiped.
Wiping == mover.pc = "wipe" => Visible(target, targetHidden) \subseteq mover.todo

\* Only listed pages are to do, or to be seen there.
OnlyListed ==
    /\ Copying => mover.todo \subseteq Listed
    /\ mover.pc \in {"rest", "save"} => mover.at \in mover.todo /\ target[mover.at] = mover.list[mover.at]
    /\ Copying \/ mover.pc = "links" => Visible(target, targetHidden) \subseteq Listed

\* The listing is what the old brain shows, as long as nobody writes to it.
ListedAsShown ==
    (Copying \/ mover.pc = "links") /\ ~late =>
      /\ Listed = Visible(source, sourceHidden)
      /\ \A p \in Listed : mover.list[p] = source[p]

Copied(p) == target[p] = mover.list[p] /\ targetRest[p] = mover.list[p]

PagesCopied ==
    ~late /\ ~resumed =>
      /\ Copying => \A p \in Listed \ mover.todo : Copied(p)
      /\ mover.pc = "save" => targetRest[mover.at] = mover.list[mover.at]
      /\ mover.pc = "links" => \A p \in Listed : Copied(p)

LinksCopied ==
    ~late /\ ~resumed /\ mover.pc = "links" =>
      \A l \in Linked : Between(l, Listed) => l \in targetLinks \/ l[1] \in mover.todo

Settled == engine = "new" => mover.pc \in {"idle", "clear"}

MoveInv ==
    /\ MoveTypeOK /\ LinksHaveRows /\ Wiping /\ OnlyListed /\ ListedAsShown
    /\ PagesCopied /\ LinksCopied /\ Settled /\ MoveComplete

-----------------------------------------------------------------------------
LEMMA MoveInitHolds == MoveInit => MoveInv
  <1> SUFFICES ASSUME MoveInit PROVE MoveInv  OBVIOUS
  <1>1. MoveTypeOK
    BY DEF MoveInit, MoveTypeOK, Rows, NoMover, MoverState, HasRow
  <1>2. LinksHaveRows
    BY DEF MoveInit, LinksHaveRows
  <1>3. mover.pc = "idle" /\ engine = "old"
    BY DEF MoveInit, NoMover
  <1> QED  BY <1>1, <1>2, <1>3 DEF MoveInv, Wiping, OnlyListed, Copying, ListedAsShown, PagesCopied,
                                    LinksCopied, Settled, MoveComplete

\* What is written to the old brain while it is copied, or after, is late.
LEMMA WritesAreLate ==
    ASSUME MoveInv, NEW p \in Page,
           DeletePage(p) \/ PurgePage(p) \/ \E c \in Content : WritePage(p, c)
    PROVE  MoveInv'
  <1>1. /\ UNCHANGED <<target, targetHidden, targetRest, targetLinks, engine, mover, resumed>>
        /\ late' = (late \/ mover.pc \in {"pages", "rest", "save", "links"} \/ engine = "new")
    BY DEF DeletePage, PurgePage, WritePage, Written, TargetUnchanged
  <1>2. source' \in Rows /\ sourceHidden' \in SUBSET Page
    BY DEF MoveInv, MoveTypeOK, Rows, DeletePage, PurgePage, WritePage, Visible
  <1>3. MoveTypeOK'
    BY <1>1, <1>2 DEF MoveInv, MoveTypeOK
  <1>4. LinksHaveRows' /\ Wiping' /\ OnlyListed' /\ Settled'
    BY <1>1 DEF MoveInv, LinksHaveRows, Wiping, OnlyListed, Settled, Copying, Listed
  <1>5. ListedAsShown' /\ PagesCopied' /\ LinksCopied' /\ MoveComplete'
    BY <1>1 DEF ListedAsShown, PagesCopied, LinksCopied, MoveComplete, Copying
  <1> QED  BY <1>3, <1>4, <1>5 DEF MoveInv

\* Every other step leaves the old brain alone, and all but SaveConfig the configuration.
LEMMA StartMoveKeeps ==
    ASSUME MoveInv, NEW force \in BOOLEAN, StartMove(force)
    PROVE  MoveInv'
  <1>1. /\ mover' = [NoMover EXCEPT !.pc = "wipe", !.todo = Visible(target, targetHidden)]
        /\ UNCHANGED <<source, sourceHidden, target, targetHidden, targetRest, targetLinks, engine, late, resumed>>
        /\ engine = "old"
    BY DEF StartMove, Moves, SourceUnchanged, TargetUnchanged
  <1>2. mover' \in MoverState
    BY <1>1 DEF MoverState, NoMover, Visible, Rows
  <1>3. mover'.pc = "wipe" /\ mover'.todo = Visible(target, targetHidden)
    BY <1>1 DEF NoMover
  <1>4. MoveTypeOK' /\ LinksHaveRows'
    BY <1>1, <1>2 DEF MoveInv, MoveTypeOK, LinksHaveRows
  <1> QED  BY <1>1, <1>3, <1>4 DEF MoveInv, Wiping, OnlyListed, ListedAsShown, PagesCopied, LinksCopied,
                                    Settled, MoveComplete, Copying

LEMMA WipePageKeeps ==
    ASSUME MoveInv, NEW p \in Page, WipePage(p)
    PROVE  MoveInv'
  <1>1. mover' = [mover EXCEPT !.todo = @ \ {p}] /\ mover.pc = "wipe" /\ mover \in MoverState
    BY DEF WipePage, Moves, MoveInv, MoveTypeOK
  <1>2. mover'.pc = "wipe" /\ mover'.todo = mover.todo \ {p} /\ mover' \in MoverState
    BY <1>1 DEF MoverState
  <1>3. /\ target' = [target EXCEPT ![p] = None] /\ targetRest' = [targetRest EXCEPT ![p] = None]
        /\ targetLinks' = {l \in targetLinks : p \notin {l[1], l[2]}}
        /\ UNCHANGED <<source, sourceHidden, targetHidden, engine, late, resumed>>
    BY DEF WipePage, SourceUnchanged
  <1>4. MoveTypeOK'
    BY <1>2, <1>3 DEF MoveInv, MoveTypeOK, Rows
  <1>5. \A q \in Page : target'[q] = IF q = p THEN None ELSE target[q]
    BY <1>3 DEF MoveInv, MoveTypeOK, Rows
  <1>6. LinksHaveRows'
    BY <1>3, <1>5 DEF MoveInv, LinksHaveRows, Between, HasRow
  <1>7. Wiping'
    BY <1>1, <1>2, <1>3, <1>5 DEF MoveInv, Wiping, Visible
  <1> QED  BY <1>1, <1>2, <1>3, <1>4, <1>6, <1>7 DEF MoveInv, OnlyListed, ListedAsShown, PagesCopied, LinksCopied,
                                    Settled, MoveComplete, Copying

LEMMA ListPagesKeeps ==
    ASSUME MoveInv, ListPages
    PROVE  MoveInv'
  <1> DEFINE found == Visible(source, sourceHidden)
             list == [p \in Page |-> IF p \in found THEN source[p] ELSE None]
  <1>1. /\ mover' = [mover EXCEPT !.pc = "pages", !.todo = found \ manifest, !.list = list]
        /\ mover.pc = "wipe" /\ mover.todo = {} /\ mover \in MoverState
        /\ late' = FALSE /\ resumed' = (manifest # {})
        /\ UNCHANGED <<source, sourceHidden, target, targetHidden, targetRest, targetLinks, engine>>
    BY DEF ListPages, Moves, SourceUnchanged, TargetUnchanged, MoveInv, MoveTypeOK
  <1>2. list \in Rows /\ \A p \in Page : list[p] = IF p \in found THEN source[p] ELSE None
    BY DEF MoveInv, MoveTypeOK, Rows
  <1>3. mover'.pc = "pages" /\ mover'.todo = found \ manifest /\ mover'.list = list /\ mover' \in MoverState
    BY <1>1, <1>2 DEF MoverState, Visible
  <1> HIDE DEF list
  <1>4. Listed' = found
    BY <1>2, <1>3 DEF Listed, Visible
  <1>5. MoveTypeOK' /\ LinksHaveRows'
    BY <1>1, <1>3 DEF MoveInv, MoveTypeOK, LinksHaveRows
  <1>6. Visible(target, targetHidden) = {}
    BY <1>1 DEF MoveInv, Wiping
  <1>7. OnlyListed' /\ Wiping'
    BY <1>1, <1>3, <1>4, <1>6 DEF OnlyListed, Wiping, Copying
  <1>8. ListedAsShown'
    BY <1>1, <1>2, <1>3, <1>4 DEF ListedAsShown, Visible
  <1>9. PagesCopied' /\ LinksCopied'
    <2>1. resumed' \/ mover'.todo = found
      BY <1>1, <1>3
    <2> QED  BY <1>3, <1>4, <2>1 DEF PagesCopied, LinksCopied
  <1>10. engine' = "old"
    BY <1>1 DEF MoveInv, Settled, MoveTypeOK
  <1> QED  BY <1>5, <1>7, <1>8, <1>9, <1>10 DEF MoveInv, Settled, MoveComplete

LEMMA PutListedKeeps ==
    ASSUME MoveInv, NEW p \in Page, PutListed(p)
    PROVE  MoveInv'
  <1>1. /\ mover' = [mover EXCEPT !.pc = "rest", !.at = p] /\ mover \in MoverState
        /\ mover.pc = "pages" /\ p \in mover.todo
        /\ target' = [target EXCEPT ![p] = mover.list[p]]
        /\ UNCHANGED <<source, sourceHidden, targetHidden, targetRest, targetLinks, engine, late, resumed>>
    BY DEF PutListed, Moves, SourceUnchanged, MoveInv, MoveTypeOK
  <1>2. /\ mover'.pc = "rest" /\ mover'.at = p /\ mover'.todo = mover.todo /\ mover'.list = mover.list
        /\ mover' \in MoverState
    BY <1>1 DEF MoverState
  <1>3. p \in Listed /\ mover.list \in Rows
    BY <1>1 DEF MoveInv, OnlyListed, Copying, MoverState
  <1>4. \A q \in Page : target'[q] = IF q = p THEN mover.list[p] ELSE target[q]
    BY <1>1 DEF MoveInv, MoveTypeOK, Rows
  <1>5. MoveTypeOK'
    BY <1>1, <1>2, <1>3 DEF MoveInv, MoveTypeOK, Rows
  <1>6. Listed' = Listed /\ engine = "old"
    BY <1>1, <1>2 DEF Listed, MoveInv, Settled, MoveTypeOK
  <1>7. LinksHaveRows'
    BY <1>1, <1>3, <1>4 DEF MoveInv, LinksHaveRows, Between, HasRow, Listed
  <1>8. OnlyListed' /\ Wiping'
    BY <1>1, <1>2, <1>3, <1>4, <1>6 DEF MoveInv, OnlyListed, Wiping, Copying, Visible
  <1>9. ListedAsShown'
    BY <1>1, <1>2, <1>6 DEF MoveInv, ListedAsShown, Copying
  <1>10. PagesCopied' /\ LinksCopied'
    BY <1>1, <1>2, <1>4, <1>6 DEF MoveInv, PagesCopied, LinksCopied, Copying, Copied, Listed
  <1> QED  BY <1>1, <1>5, <1>6, <1>7, <1>8, <1>9, <1>10 DEF MoveInv, Settled, MoveComplete

LEMMA CopyRestKeeps ==
    ASSUME MoveInv, CopyRest
    PROVE  MoveInv'
  <1>1. /\ mover' = [mover EXCEPT !.pc = "save"] /\ mover \in MoverState /\ mover.pc = "rest"
        /\ UNCHANGED <<source, sourceHidden, target, targetHidden, targetLinks, engine, late, resumed>>
    BY DEF CopyRest, Moves, SourceUnchanged, MoveInv, MoveTypeOK
  <1>2. /\ mover'.pc = "save" /\ mover'.at = mover.at /\ mover'.todo = mover.todo /\ mover'.list = mover.list
        /\ mover' \in MoverState
    BY <1>1 DEF MoverState
  <1>3. mover.at \in mover.todo /\ mover.at \in Listed /\ mover.at \in Page
    BY <1>1 DEF MoveInv, OnlyListed, Copying, Listed
  <1>4. targetRest' = IF source[mover.at] = None THEN targetRest
                      ELSE [targetRest EXCEPT ![mover.at] = source[mover.at]]
    BY DEF CopyRest
  <1>5. MoveTypeOK'
    BY <1>1, <1>2, <1>3, <1>4 DEF MoveInv, MoveTypeOK, Rows
  <1>6. Listed' = Listed /\ engine = "old"
    BY <1>1, <1>2 DEF Listed, MoveInv, Settled, MoveTypeOK
  <1>7. LinksHaveRows' /\ OnlyListed' /\ Wiping' /\ ListedAsShown'
    BY <1>1, <1>2, <1>6 DEF MoveInv, LinksHaveRows, OnlyListed, Wiping, Copying, ListedAsShown
  <1>8. ASSUME ~late PROVE source[mover.at] = mover.list[mover.at] /\ source[mover.at] # None
    BY <1>1, <1>3, <1>8 DEF MoveInv, ListedAsShown, Copying, Listed
  <1>9. ASSUME ~late
        PROVE  /\ targetRest'[mover.at] = mover.list[mover.at]
               /\ \A q \in Page \ {mover.at} : targetRest'[q] = targetRest[q]
    BY <1>3, <1>4, <1>8, <1>9 DEF MoveInv, MoveTypeOK, Rows
  <1>10. PagesCopied' /\ LinksCopied'
    BY <1>1, <1>2, <1>3, <1>6, <1>9 DEF MoveInv, PagesCopied, LinksCopied, Copying, Copied, Listed
  <1> QED  BY <1>1, <1>5, <1>6, <1>7, <1>10 DEF MoveInv, Settled, MoveComplete

LEMMA SaveManifestKeeps ==
    ASSUME MoveInv, SaveManifest
    PROVE  MoveInv'
  <1>1. /\ mover' = [mover EXCEPT !.pc = "pages", !.todo = @ \ {mover.at}, !.at = None]
        /\ mover \in MoverState /\ mover.pc = "save"
        /\ UNCHANGED <<source, sourceHidden, target, targetHidden, targetRest, targetLinks, engine, late, resumed>>
    BY DEF SaveManifest, Moves, SourceUnchanged, MoveInv, MoveTypeOK
  <1>2. /\ mover'.pc = "pages" /\ mover'.todo = mover.todo \ {mover.at} /\ mover'.list = mover.list
        /\ mover' \in MoverState
    BY <1>1 DEF MoverState
  <1>3. Listed' = Listed /\ engine = "old"
    BY <1>1, <1>2 DEF Listed, MoveInv, Settled, MoveTypeOK
  <1>4. MoveTypeOK' /\ LinksHaveRows' /\ OnlyListed' /\ Wiping' /\ ListedAsShown'
    BY <1>1, <1>2, <1>3 DEF MoveInv, MoveTypeOK, LinksHaveRows, OnlyListed, Wiping, Copying, ListedAsShown
  <1>5. PagesCopied' /\ LinksCopied'
    BY <1>1, <1>2, <1>3 DEF MoveInv, OnlyListed, PagesCopied, LinksCopied, Copying, Copied
  <1> QED  BY <1>1, <1>3, <1>4, <1>5 DEF MoveInv, Settled, MoveComplete

LEMMA StartLinksKeeps ==
    ASSUME MoveInv, StartLinks
    PROVE  MoveInv'
  <1>1. /\ mover' = [mover EXCEPT !.pc = "links", !.todo = {p \in Page : mover.list[p] # None}]
        /\ mover \in MoverState /\ mover.pc = "pages" /\ mover.todo = {}
        /\ UNCHANGED <<source, sourceHidden, target, targetHidden, targetRest, targetLinks, engine, late, resumed>>
    BY DEF StartLinks, Moves, SourceUnchanged, TargetUnchanged, MoveInv, MoveTypeOK
  <1>2. mover'.pc = "links" /\ mover'.todo = Listed /\ mover'.list = mover.list /\ mover' \in MoverState
    BY <1>1 DEF MoverState, Listed
  <1>3. Listed' = Listed /\ engine = "old"
    BY <1>1, <1>2 DEF Listed, MoveInv, Settled, MoveTypeOK
  <1>4. MoveTypeOK' /\ LinksHaveRows' /\ OnlyListed' /\ Wiping' /\ ListedAsShown'
    BY <1>1, <1>2, <1>3 DEF MoveInv, MoveTypeOK, LinksHaveRows, OnlyListed, Wiping, Copying, ListedAsShown
  <1>5. PagesCopied'
    BY <1>1, <1>2, <1>3 DEF MoveInv, PagesCopied, Copying, Copied
  <1>6. LinksCopied'
    BY <1>2, <1>3 DEF LinksCopied, Between
  <1> QED  BY <1>1, <1>3, <1>4, <1>5, <1>6 DEF MoveInv, Settled, MoveComplete

LEMMA CopyLinksKeeps ==
    ASSUME MoveInv, NEW p \in Page, CopyLinks(p)
    PROVE  MoveInv'
  <1> DEFINE mine == {l \in Linked : l[1] = p /\ Between(l, HasRow(source))}
  <1>1. /\ mover' = [mover EXCEPT !.todo = @ \ {p}] /\ mover \in MoverState /\ mover.pc = "links"
        /\ targetLinks' = targetLinks \union mine /\ \A l \in mine : Between(l, HasRow(target))
        /\ UNCHANGED <<source, sourceHidden, target, targetHidden, targetRest, engine, late, resumed>>
    BY DEF CopyLinks, Moves, SourceUnchanged, MoveInv, MoveTypeOK
  <1>2. mover'.pc = "links" /\ mover'.todo = mover.todo \ {p} /\ mover'.list = mover.list /\ mover' \in MoverState
    BY <1>1 DEF MoverState
  <1>3. Listed' = Listed /\ engine = "old"
    BY <1>1, <1>2 DEF Listed, MoveInv, Settled, MoveTypeOK
  <1>4. MoveTypeOK' /\ OnlyListed' /\ Wiping' /\ ListedAsShown'
    BY <1>1, <1>2, <1>3 DEF MoveInv, MoveTypeOK, OnlyListed, Wiping, Copying, ListedAsShown
  <1>5. LinksHaveRows'
    BY <1>1 DEF MoveInv, LinksHaveRows
  <1>6. PagesCopied'
    BY <1>1, <1>2, <1>3 DEF MoveInv, PagesCopied, Copying, Copied
  <1>7. LinksCopied'
    <2> SUFFICES ASSUME ~late, ~resumed, NEW l \in Linked, Between(l, Listed)
                 PROVE  l \in targetLinks' \/ l[1] \in mover'.todo
      BY <1>1, <1>2, <1>3 DEF LinksCopied
    <2>1. Listed \subseteq HasRow(source)
      BY <1>1 DEF MoveInv, ListedAsShown, Visible, HasRow
    <2>2. l[1] = p => l \in mine
      BY <2>1 DEF Between
    <2>3. l \in targetLinks \/ l[1] \in mover.todo
      BY <1>1 DEF MoveInv, LinksCopied
    <2> QED  BY <1>1, <1>2, <2>2, <2>3
  <1> QED  BY <1>1, <1>3, <1>4, <1>5, <1>6, <1>7 DEF MoveInv, Settled, MoveComplete

\* The configuration names the new engine only when everything is there.
LEMMA SaveConfigKeeps ==
    ASSUME MoveInv, SaveConfig
    PROVE  MoveInv'
  <1>1. /\ mover' = [NoMover EXCEPT !.pc = "clear"] /\ engine' = "new"
        /\ mover \in MoverState /\ mover.pc = "links" /\ mover.todo = {}
        /\ UNCHANGED <<source, sourceHidden, target, targetHidden, targetRest, targetLinks, late, resumed>>
    BY DEF SaveConfig, Moves, SourceUnchanged, MoveInv, MoveTypeOK
  <1>2. mover'.pc = "clear" /\ mover' \in MoverState
    BY <1>1 DEF NoMover, MoverState, Rows
  <1>3. MoveTypeOK' /\ LinksHaveRows'
    BY <1>1, <1>2 DEF MoveInv, MoveTypeOK, LinksHaveRows
  <1>4. Wiping' /\ OnlyListed' /\ ListedAsShown' /\ PagesCopied' /\ LinksCopied' /\ Settled'
    BY <1>2 DEF Wiping, OnlyListed, ListedAsShown, PagesCopied, LinksCopied, Settled, Copying
  <1>5. ASSUME ~late, ~resumed PROVE Arrived
    <2> DEFINE here == Visible(source, sourceHidden)
    <2>1. Listed = here /\ \A p \in here : mover.list[p] = source[p]
      BY <1>1, <1>5 DEF MoveInv, ListedAsShown
    <2>2. \A p \in here : target[p] = source[p] /\ targetRest[p] = source[p]
      BY <1>1, <1>5, <2>1 DEF MoveInv, PagesCopied, Copied
    <2>3. \A p \in Page \ targetHidden : p \notin here => target[p] = None
      BY <1>1, <2>1 DEF MoveInv, OnlyListed, Visible
    <2>4. \A l \in Linked : Between(l, here) => l \in targetLinks
      BY <1>1, <1>5, <2>1 DEF MoveInv, LinksCopied
    <2>5. HasRow(target) \subseteq here \union targetHidden
      BY <2>3 DEF HasRow
    <2>6. \A l \in targetLinks : Between(l, here \union targetHidden)
      BY <2>5 DEF MoveInv, LinksHaveRows, Between
    <2> QED  BY <2>2, <2>3, <2>4, <2>6 DEF Arrived
  <1>6. MoveComplete'
    BY <1>1, <1>5 DEF MoveComplete, Arrived
  <1> QED  BY <1>3, <1>4, <1>6 DEF MoveInv

LEMMA MoverEnds ==
    ASSUME MoveInv, ClearManifest \/ MoveDies
    PROVE  MoveInv'
  <1>1. /\ mover' = NoMover
        /\ UNCHANGED <<source, sourceHidden, target, targetHidden, targetRest, targetLinks, engine, late, resumed>>
    BY DEF ClearManifest, MoveDies, Moves, SourceUnchanged
  <1>2. mover'.pc = "idle" /\ mover' \in MoverState
    BY <1>1 DEF NoMover, MoverState, Rows
  <1>3. MoveTypeOK' /\ LinksHaveRows'
    BY <1>1, <1>2 DEF MoveInv, MoveTypeOK, LinksHaveRows
  <1>4. Wiping' /\ OnlyListed' /\ ListedAsShown' /\ PagesCopied' /\ LinksCopied' /\ Settled'
    BY <1>2 DEF Wiping, OnlyListed, ListedAsShown, PagesCopied, LinksCopied, Settled, Copying
  <1>5. MoveComplete'
    BY <1>1 DEF MoveInv, MoveComplete, Arrived
  <1> QED  BY <1>3, <1>4, <1>5 DEF MoveInv

LEMMA MoveStutters ==
    ASSUME MoveInv, UNCHANGED moveVars
    PROVE  MoveInv'
  BY DEF moveVars, MoveInv, MoveTypeOK, LinksHaveRows, Wiping, OnlyListed, Copying, Listed, ListedAsShown,
         PagesCopied, Copied, LinksCopied, Settled, MoveComplete, Arrived

\* A brain that the configuration names after a move has all its pages with what belongs to them,
\* all its links and nothing else, for any pages, links and contents, whatever the target held and
\* wherever moves died before, unless the old brain was written meanwhile or the move resumed one.
THEOREM MoveIsComplete == MoveSpec => []MoveComplete
  <1>1. MoveInit => MoveInv
    BY MoveInitHolds
  <1>2. MoveInv /\ [MoveNext]_moveVars => MoveInv'
    BY WritesAreLate, StartMoveKeeps, WipePageKeeps, ListPagesKeeps, PutListedKeeps, CopyRestKeeps,
       SaveManifestKeeps, StartLinksKeeps, CopyLinksKeeps, SaveConfigKeeps, MoverEnds, MoveStutters DEF MoveNext
  <1>3. MoveInv => MoveComplete
    BY DEF MoveInv
  <1> QED  BY <1>1, <1>2, <1>3, PTL DEF MoveSpec

-----------------------------------------------------------------------------
(***************************************************************************)
(* FileOffload: every removal is preceded by the write of what replaces    *)
(* it, and what is in the bucket of a file that is not excused is what     *)
(* people last saved or a pointer; a chain of pointers can only get longer *)
(* or shorter by a link that is there.                                     *)
(***************************************************************************)

Holds == Text \union {"none", "pointer"}
Verbs == {"none", "mirror", "redirect", "unlink", "restore", "clean"}

FilesTypeOK ==
    /\ disk \in [Entry -> Holds] /\ remote \in [Entry -> Holds]
    /\ marker \in BOOLEAN /\ storage \in BOOLEAN
    /\ command \in [verb : Verbs, todo : SUBSET Entry, at : Entry \union {<<>>}, held : Holds]
    /\ wanted \in [File -> Text \union {"none"}] /\ excused \in SUBSET File

\* What has a suffix is a pointer, on disk and in the bucket.
PointersOnly == \A f \in File, n \in 1..Depth : {disk[<<f, n>>], remote[<<f, n>>]} \subseteq {"none", "pointer"}

\* A file that is not excused is nowhere anything but what people last saved.
NothingStale == \A f \in File \ excused : {disk[<<f, 0>>], remote[<<f, 0>>]} \subseteq {"none", wanted[f]}

InHand == command.at # <<>>
Awaited == command.at[1] \notin excused

Mirroring ==
    command.verb = "mirror" /\ InHand =>
      /\ command.at[2] > 0 => command.held = "pointer"
      /\ command.at[2] = 0 /\ Awaited => command.held = wanted[command.at[1]]

\* What is about to be removed is in the bucket, and its pointer on disk before it goes.
Redirecting ==
    /\ command.verb \in {"redirect", "unlink"} => \A e \in command.todo : e[2] < Depth
    /\ command.verb \in {"redirect", "unlink"} /\ InHand =>
         command.at \in command.todo /\ (Awaited => remote[command.at] # "none")
    /\ command.verb = "unlink" => InHand /\ disk[Suffixed(command.at)] = "pointer"

Restoring ==
    command.verb = "restore" =>
      /\ \A e \in command.todo : e[2] > 0
      /\ InHand => command.at \in command.todo /\ command.held = remote[Stem(command.at)] /\ command.held # "none"

Cleaning == command.verb = "none" => ~InHand

FilesInv ==
    /\ FilesTypeOK /\ PointersOnly /\ NothingStale
    /\ Mirroring /\ Redirecting /\ Restoring /\ Cleaning /\ TextRestorable

Restorable(f) ==
    wanted[f] # "none" =>
      \/ disk[<<f, 0>>] = wanted[f]
      \/ \E n \in 1..Depth : disk[<<f, n>>] = "pointer" /\ LeadsTo(f, n)

LEMMA RestorableAll == TextRestorable <=> \A f \in File \ excused : Restorable(f)
  BY DEF TextRestorable, Restorable

LEMMA Pairs ==
    \A f, n, g, m : /\ <<f, n>>[1] = f /\ <<f, n>>[2] = n
                    /\ <<f, n>> = <<g, m>> <=> f = g /\ n = m
                    /\ <<f, n>> # <<>>
  OBVIOUS

LEMMA Entries_ ==
    /\ <<>> \notin Entry
    /\ \A f \in File, n \in 0..Depth : <<f, n>> \in Entry
    /\ \A e \in Entry : e[1] \in File /\ e[2] \in 0..Depth /\ e = <<e[1], e[2]>>
    /\ \A e \in Entry : e[2] < Depth => Suffixed(e) \in Entry /\ Suffixed(e) # e
    /\ \A e \in Entry : e[2] > 0 => Stem(e) \in Entry /\ Stem(e) # e
  BY FilesAssumption DEF Entry, Suffixed, Stem

LEMMA FilesInitHolds == FilesInit => FilesInv
  <1> SUFFICES ASSUME FilesInit PROVE FilesInv  OBVIOUS
  <1>1. PICK text \in [File -> Text] :
          disk = [e \in Entry |-> IF e[2] = 0 THEN text[e[1]] ELSE "none"] /\ wanted = text
    BY DEF FilesInit
  <1>2. remote = [e \in Entry |-> "none"] /\ marker = FALSE /\ storage = TRUE /\ command = NoCommand /\ excused = {}
    BY DEF FilesInit
  <1>3. FilesTypeOK
    <2>1. disk \in [Entry -> Holds]
      BY <1>1, Entries_ DEF Holds
    <2>2. command \in [verb : Verbs, todo : SUBSET Entry, at : Entry \union {<<>>}, held : Holds]
      BY <1>2 DEF NoCommand, Verbs, Holds
    <2> QED  BY <1>1, <1>2, <2>1, <2>2 DEF FilesTypeOK, Holds
  <1>0. \A f \in File, n \in 0..Depth : disk[<<f, n>>] = IF n = 0 THEN wanted[f] ELSE "none"
    <2> TAKE f \in File, n \in 0..Depth
    <2>1. <<f, n>> \in Entry /\ <<f, n>>[1] = f /\ <<f, n>>[2] = n
      BY Entries_, Pairs
    <2> QED  BY <1>1, <2>1
  <1>4. \A f \in File : disk[<<f, 0>>] = wanted[f]
    <2>1. 0 \in 0..Depth  BY FilesAssumption
    <2> QED  BY <1>0, <2>1
  <1>5. \A f \in File, n \in 1..Depth : disk[<<f, n>>] = "none"
    <2>1. \A n \in 1..Depth : n \in 0..Depth /\ n # 0  BY FilesAssumption
    <2> QED  BY <1>0, <2>1
  <1>6. \A f \in File, n \in 0..Depth : remote[<<f, n>>] = "none"
    BY <1>2, Entries_
  <1>7. PointersOnly /\ NothingStale
    BY <1>4, <1>5, <1>6, FilesAssumption DEF PointersOnly, NothingStale
  <1>8. command.verb = "none" /\ command.at = <<>>
    BY <1>2 DEF NoCommand
  <1> QED  BY <1>3, <1>4, <1>7, <1>8 DEF FilesInv, Mirroring, Redirecting, Restoring, Cleaning, InHand, TextRestorable

-----------------------------------------------------------------------------
\* People save or remove a file; what has been uploaded of it by then is stale.
LEMMA SaveKeeps ==
    ASSUME FilesInv, NEW f \in File, NEW text \in Text \union {"none"}, Save(f, text)
    PROVE  FilesInv'
  <1>1. /\ disk' = [disk EXCEPT ![<<f, 0>>] = text] /\ wanted' = [wanted EXCEPT ![f] = text]
        /\ excused' = (IF remote[<<f, 0>>] # "none" \/ Uploading(f) THEN excused \union {f} ELSE excused)
        /\ UNCHANGED <<remote, marker, storage, command>>
    BY DEF Save
  <1>2. <<f, 0>> \in Entry
    BY Entries_, FilesAssumption
  <1>3. /\ \A e \in Entry : disk'[e] = IF e = <<f, 0>> THEN text ELSE disk[e]
        /\ \A g \in File : wanted'[g] = IF g = f THEN text ELSE wanted[g]
    BY <1>1, <1>2 DEF FilesInv, FilesTypeOK
  <1>4. FilesTypeOK'
    BY <1>1, <1>2 DEF FilesInv, FilesTypeOK, Holds
  <1>5. excused \subseteq excused'
    BY <1>1
  <1>6. PointersOnly'
    <2> SUFFICES ASSUME NEW g \in File, NEW n \in 1..Depth
                 PROVE  {disk'[<<g, n>>], remote'[<<g, n>>]} \subseteq {"none", "pointer"}
      BY DEF PointersOnly
    <2>1. <<g, n>> \in Entry /\ <<g, n>> # <<f, 0>>
      BY Entries_, Pairs, FilesAssumption
    <2> QED  BY <1>1, <1>3, <2>1 DEF FilesInv, PointersOnly
  <1>7. ASSUME f \notin excused' PROVE remote[<<f, 0>>] = "none" /\ ~Uploading(f)
    BY <1>1, <1>7
  <1>8. NothingStale'
    <2> SUFFICES ASSUME NEW g \in File \ excused'
                 PROVE  {disk'[<<g, 0>>], remote'[<<g, 0>>]} \subseteq {"none", wanted'[g]}
      BY DEF NothingStale
    <2>1. <<g, 0>> \in Entry /\ (<<g, 0>> = <<f, 0>> <=> g = f)
      BY Entries_, Pairs, FilesAssumption
    <2> QED  BY <1>1, <1>3, <1>5, <1>7, <2>1 DEF FilesInv, NothingStale
  <1>9. Mirroring'
    <2> SUFFICES ASSUME command.verb = "mirror", InHand
                 PROVE  /\ command.at[2] > 0 => command.held = "pointer"
                        /\ command.at[2] = 0 /\ command.at[1] \notin excused' => command.held = wanted'[command.at[1]]
      BY <1>1 DEF Mirroring, InHand, Awaited
    <2>1. command.at \in Entry
      BY DEF FilesInv, FilesTypeOK, InHand
    <2>2. command.at[2] = 0 /\ command.at[1] = f => Uploading(f)
      BY <2>1, Entries_ DEF Uploading
    <2> QED  BY <1>3, <1>5, <1>7, <2>1, <2>2, Entries_ DEF FilesInv, Mirroring, Awaited
  <1>10. Redirecting'
    <2>1. command.verb = "unlink" => Suffixed(command.at) \in Entry /\ Suffixed(command.at) # <<f, 0>>
      <3> SUFFICES ASSUME command.verb = "unlink" PROVE Suffixed(command.at) \in Entry /\ Suffixed(command.at) # <<f, 0>>
        OBVIOUS
      <3>1. command.at \in Entry /\ command.at[2] < Depth
        BY DEF FilesInv, FilesTypeOK, Redirecting, InHand
      <3> QED  BY <3>1, Entries_ DEF Suffixed
    <2> QED  BY <1>1, <1>3, <1>5, <2>1 DEF FilesInv, Redirecting, InHand, Awaited
  <1>11. Restoring' /\ Cleaning'
    BY <1>1 DEF FilesInv, Restoring, Cleaning, InHand
  <1>12. TextRestorable'
    <2> SUFFICES ASSUME NEW g \in File \ excused' PROVE Restorable(g)'
      BY RestorableAll DEF TextRestorable, Restorable
    <2>1. CASE g = f
      BY <1>2, <1>3, <2>1 DEF Restorable
    <2>2. CASE g # f
      <3>1. \A n \in 0..Depth : disk'[<<g, n>>] = disk[<<g, n>>] /\ remote'[<<g, n>>] = remote[<<g, n>>]
        BY <1>1, <1>3, <2>2, Entries_
      <3>2. wanted'[g] = wanted[g] /\ Restorable(g)
        BY <1>3, <1>5, <2>2, RestorableAll DEF FilesInv
      <3>3. 0 \in 0..Depth /\ \A n \in 1..Depth : n \in 0..Depth /\ \A k \in 0..(n - 1) : k \in 0..Depth
        BY FilesAssumption
      <3>4. \A n \in 1..Depth : LeadsTo(g, n) => LeadsTo(g, n)'
        BY <3>1, <3>2, <3>3 DEF LeadsTo
      <3>5. disk'[<<g, 0>>] = disk[<<g, 0>>] /\ \A n \in 1..Depth : disk'[<<g, n>>] = disk[<<g, n>>]
        BY <3>1, <3>3
      <3> QED  BY <3>2, <3>4, <3>5 DEF Restorable
    <2> QED  BY <2>1, <2>2
  <1> QED  BY <1>4, <1>6, <1>8, <1>9, <1>10, <1>11, <1>12 DEF FilesInv

-----------------------------------------------------------------------------
LEMMA Suffixes ==
    /\ 0 \in 0..Depth /\ 1 \in 1..Depth
    /\ \A n \in 1..Depth : n \in 0..Depth /\ n # 0 /\ n - 1 \in 0..Depth
    /\ \A n \in 0..Depth : /\ n < Depth => n + 1 \in 1..Depth
                           /\ n # 0 => n \in 1..Depth /\ n > 0
                           /\ n > 0 => n \in 1..Depth /\ n # 0
  BY FilesAssumption

\* A step that leaves the disk, the bucket and the wanted texts, and excuses no file less.
LEMMA FilesSame ==
    ASSUME FilesInv, UNCHANGED <<disk, remote, wanted>>, excused \subseteq excused', excused' \in SUBSET File,
           marker' \in BOOLEAN, storage' \in BOOLEAN,
           command' \in [verb : Verbs, todo : SUBSET Entry, at : Entry \union {<<>>}, held : Holds],
           Mirroring', Redirecting', Restoring', Cleaning'
    PROVE  FilesInv'
  <1>1. FilesTypeOK'
    BY DEF FilesInv, FilesTypeOK
  <1>2. PointersOnly'
    BY DEF FilesInv, PointersOnly
  <1>3. NothingStale'
    BY DEF FilesInv, NothingStale
  <1>4. TextRestorable'
    BY DEF FilesInv, TextRestorable, LeadsTo
  <1> QED  BY <1>1, <1>2, <1>3, <1>4 DEF FilesInv

LEMMA ConfigureKeeps == ASSUME FilesInv, Configure PROVE FilesInv'
  <1>1. UNCHANGED <<disk, remote, marker, command, wanted, excused>> /\ storage' = ~storage
    BY DEF Configure
  <1>2. Mirroring' /\ Redirecting' /\ Restoring' /\ Cleaning'
    BY <1>1 DEF FilesInv, Mirroring, Redirecting, Restoring, Cleaning, InHand, Awaited
  <1> QED  BY <1>1, <1>2, FilesSame DEF FilesInv, FilesTypeOK

\* No command, or one that has just begun, holds nothing.
LEMMA NothingHeld ==
    ASSUME FilesInv, UNCHANGED <<disk, remote, wanted, excused>>, marker' \in BOOLEAN, storage' \in BOOLEAN,
           NEW verb \in Verbs, NEW todo \in SUBSET Entry, verb # "unlink",
           command' \in [verb : {verb}, todo : {todo}, at : {<<>>}, held : {"none"}],
           verb = "redirect" => \A e \in todo : e[2] < Depth,
           verb = "restore" => \A e \in todo : e[2] > 0
    PROVE  FilesInv'
  <1>1. command'.verb = verb /\ command'.todo = todo /\ command'.at = <<>> /\ command'.held = "none"
    OBVIOUS
  <1>2. command' \in [verb : Verbs, todo : SUBSET Entry, at : Entry \union {<<>>}, held : Holds]
    BY DEF Holds
  <1>3. Mirroring' /\ Redirecting' /\ Restoring' /\ Cleaning'
    BY <1>1 DEF Mirroring, Redirecting, Restoring, Cleaning, InHand, Awaited
  <1> QED  BY <1>2, <1>3, FilesSame DEF FilesInv, FilesTypeOK

LEMMA BeginKeeps ==
    ASSUME FilesInv, NEW verb \in {"mirror", "redirect", "restore", "clean"}, Begin(verb)
    PROVE  FilesInv'
  <1> DEFINE todo == CASE verb = "mirror" -> collectFiles
                       [] verb = "redirect" -> {e \in collectFiles : e[2] < Depth}
                       [] OTHER -> findRedirects
  <1>1. command' = [NoCommand EXCEPT !.verb = verb, !.todo = todo] /\ UNCHANGED <<disk, remote, marker, storage, wanted, excused>>
    BY DEF Begin
  <1>2. todo \in SUBSET Entry /\ verb \in Verbs /\ verb # "unlink"
    BY DEF collectFiles, findRedirects, Verbs
  <1>3. verb = "redirect" => \A e \in todo : e[2] < Depth
    OBVIOUS
  <1>4. verb = "restore" => \A e \in todo : e[2] > 0
    BY DEF findRedirects
  <1>5. command' \in [verb : {verb}, todo : {todo}, at : {<<>>}, held : {"none"}]
    <2> HIDE DEF todo
    <2> QED  BY <1>1 DEF NoCommand
  <1> HIDE DEF todo
  <1> QED  BY <1>1, <1>2, <1>3, <1>4, <1>5, NothingHeld DEF FilesInv, FilesTypeOK

LEMMA EndKeeps == ASSUME FilesInv, Finish \/ unmirror \/ FilesDie PROVE FilesInv'
  <1>1. CASE Finish \/ FilesDie
    <2>1. command' \in [verb : {"none"}, todo : {{}}, at : {<<>>}, held : {"none"}]
      BY <1>1 DEF Finish, FilesDie, NoCommand
    <2>2. UNCHANGED <<disk, remote, wanted, excused, storage>> /\ marker' \in BOOLEAN
      BY <1>1 DEF Finish, FilesDie, FilesInv, FilesTypeOK
    <2>3. /\ "none" \in Verbs /\ {} \in SUBSET Entry
          /\ storage' \in BOOLEAN
      BY <2>2 DEF Verbs, FilesInv, FilesTypeOK
    <2>4. \A e \in {} : e[2] < Depth /\ e[2] > 0
      OBVIOUS
    <2> QED  BY <2>1, <2>2, <2>3, <2>4, NothingHeld
  <1>2. CASE unmirror
    <2>1. UNCHANGED <<disk, remote, storage, command, wanted, excused>> /\ marker' = FALSE
      BY <1>2 DEF unmirror
    <2>2. Mirroring' /\ Redirecting' /\ Restoring' /\ Cleaning'
      BY <2>1 DEF FilesInv, Mirroring, Redirecting, Restoring, Cleaning, InHand, Awaited
    <2> QED  BY <2>1, <2>2, FilesSame DEF FilesInv, FilesTypeOK
  <1> QED  BY <1>1, <1>2

LEMMA SkipKeeps == ASSUME FilesInv, NEW e \in Entry, Skip(e) PROVE FilesInv'
  <1>1. /\ command' = [command EXCEPT !.todo = @ \ {e}] /\ command.at = <<>>
        /\ command.verb \in {"redirect", "restore"}
        /\ UNCHANGED <<disk, remote, marker, storage, wanted, excused>>
    BY DEF Skip
  <1>2. /\ command'.verb = command.verb /\ command'.at = <<>> /\ command'.todo \subseteq command.todo
        /\ command' \in [verb : Verbs, todo : SUBSET Entry, at : Entry \union {<<>>}, held : Holds]
    BY <1>1 DEF FilesInv, FilesTypeOK
  <1>3. Mirroring' /\ Redirecting' /\ Restoring' /\ Cleaning'
    BY <1>1, <1>2 DEF FilesInv, Mirroring, Redirecting, Restoring, Cleaning, InHand, Awaited
  <1> QED  BY <1>1, <1>2, <1>3, FilesSame DEF FilesInv, FilesTypeOK

\* What is read of an entry is what people saved of it, or a pointer.
LEMMA TakenHolds ==
    ASSUME FilesInv, NEW e \in Entry, Taken(e), command.verb \in {"mirror", "redirect", "restore"},
           command.verb = "restore" => remote[Stem(e)] # "none"
    PROVE  /\ UNCHANGED <<disk, remote, marker, storage, wanted>> /\ e \in command.todo
           /\ command'.verb = command.verb /\ command'.todo = command.todo /\ command'.at = e
           /\ command' \in [verb : Verbs, todo : SUBSET Entry, at : Entry \union {<<>>}, held : Holds]
           /\ command.verb # "restore" =>
                 /\ e[2] > 0 => command'.held = "pointer"
                 /\ e[2] = 0 /\ e[1] \notin excused => command'.held = wanted[e[1]]
           /\ command.verb = "restore" => command'.held = remote[Stem(e)] /\ command'.held # "none"
  <1>1. /\ command' = [command EXCEPT !.at = e, !.held = IF command.verb = "restore" THEN remote[Stem(e)] ELSE disk[e]]
        /\ UNCHANGED <<disk, remote, marker, storage, wanted>> /\ e \in command.todo /\ disk[e] # "none"
    BY DEF Taken
  <1>2. /\ command'.verb = command.verb /\ command'.todo = command.todo /\ command'.at = e
        /\ command'.held = IF command.verb = "restore" THEN remote[Stem(e)] ELSE disk[e]
    BY <1>1 DEF FilesInv, FilesTypeOK
  <1>3. command.verb = "restore" => Stem(e) \in Entry
    BY <1>1, Entries_ DEF FilesInv, Restoring
  <1>4. (IF command.verb = "restore" THEN remote[Stem(e)] ELSE disk[e]) \in Holds
    BY <1>3 DEF FilesInv, FilesTypeOK
  <1>5. command' \in [verb : Verbs, todo : SUBSET Entry, at : Entry \union {<<>>}, held : Holds]
    BY <1>1, <1>4 DEF FilesInv, FilesTypeOK
  <1>6. e[1] \in File /\ e[2] \in 0..Depth /\ e = <<e[1], e[2]>>
    BY Entries_
  <1>7. e[2] > 0 => disk[e] = "pointer"
    <2> SUFFICES ASSUME e[2] > 0 PROVE disk[e] = "pointer"  OBVIOUS
    <2>1. e[2] \in 1..Depth
      BY <1>6, Suffixes
    <2>2. disk[<<e[1], e[2]>>] \in {"none", "pointer"}
      BY <2>1, <1>6 DEF FilesInv, PointersOnly
    <2> QED  BY <2>2, <1>1, <1>6
  <1>8. e[2] = 0 /\ e[1] \notin excused => disk[e] = wanted[e[1]]
    <2> SUFFICES ASSUME e[2] = 0, e[1] \notin excused PROVE disk[e] = wanted[e[1]]  OBVIOUS
    <2>1. disk[<<e[1], 0>>] \in {"none", wanted[e[1]]}
      BY <1>6 DEF FilesInv, NothingStale
    <2> QED  BY <2>1, <1>1, <1>6
  <1> QED  BY <1>1, <1>2, <1>5, <1>7, <1>8

LEMMA TakeKeeps == ASSUME FilesInv, NEW e \in Entry, Take(e) PROVE FilesInv'
  <1>1. /\ command.verb \in {"mirror", "restore"} /\ Taken(e) /\ UNCHANGED excused
        /\ command.verb = "restore" => remote[Stem(e)] # "none"
    BY DEF Take
  <1>2. Mirroring'
    BY <1>1, TakenHolds DEF Mirroring, Awaited
  <1>3. Redirecting' /\ Cleaning'
    BY <1>1, TakenHolds DEF Redirecting, Cleaning
  <1>4. Restoring'
    BY <1>1, TakenHolds DEF FilesInv, Restoring
  <1> QED  BY <1>1, <1>2, <1>3, <1>4, TakenHolds, FilesSame DEF FilesInv, FilesTypeOK

LEMMA TakeToRedirectKeeps == ASSUME FilesInv, NEW e \in Entry, TakeToRedirect(e) PROVE FilesInv'
  <1>1. /\ command.verb = "redirect" /\ Taken(e)
        /\ storage => remote[e] # "none"
        /\ excused' = IF ~storage /\ remote[e] = "none" THEN excused \union {e[1]} ELSE excused
    BY DEF TakeToRedirect
  <1>2. excused \subseteq excused' /\ excused' \in SUBSET File
    BY <1>1, Entries_ DEF FilesInv, FilesTypeOK
  <1>3. Mirroring' /\ Restoring' /\ Cleaning'
    BY <1>1, TakenHolds DEF Mirroring, Restoring, Cleaning
  <1>4. Redirecting'
    <2>1. e[1] \notin excused' => remote[e] # "none"
      BY <1>1 DEF FilesInv, FilesTypeOK
    <2> QED  BY <2>1, <1>1, TakenHolds DEF FilesInv, Redirecting, InHand, Awaited
  <1> QED  BY <1>1, <1>2, <1>3, <1>4, TakenHolds, FilesSame DEF FilesInv, FilesTypeOK

-----------------------------------------------------------------------------
\* A write of an entry on disk that is no worse than the invariant allows.
LEMMA DiskWritten ==
    ASSUME FilesInv, NEW e \in Entry, NEW v \in Holds, disk' = [disk EXCEPT ![e] = v],
           UNCHANGED <<remote, wanted>>, excused \subseteq excused',
           e[2] > 0 => v \in {"none", "pointer"},
           e[2] = 0 /\ e[1] \notin excused' => v \in {"none", wanted[e[1]]}
    PROVE  /\ disk' \in [Entry -> Holds] /\ PointersOnly' /\ NothingStale'
           /\ \A f \in File, n \in 0..Depth :
                disk'[<<f, n>>] = IF f = e[1] /\ n = e[2] THEN v ELSE disk[<<f, n>>]
           /\ v # "none" => TextRestorable'
  <1>1. disk' \in [Entry -> Holds]
    BY DEF FilesInv, FilesTypeOK
  <1>2. ASSUME NEW f \in File, NEW n \in 0..Depth
        PROVE  disk'[<<f, n>>] = IF f = e[1] /\ n = e[2] THEN v ELSE disk[<<f, n>>]
    <2>1. <<f, n>> \in Entry /\ e = <<e[1], e[2]>>
      BY Entries_
    <2>2. <<f, n>> = e <=> f = e[1] /\ n = e[2]
      BY <2>1, Pairs
    <2> QED  BY <2>1, <2>2 DEF FilesInv, FilesTypeOK
  <1>3. PointersOnly'
    <2> SUFFICES ASSUME NEW f \in File, NEW n \in 1..Depth
                 PROVE  {disk'[<<f, n>>], remote'[<<f, n>>]} \subseteq {"none", "pointer"}
      BY DEF PointersOnly
    <2>1. n \in 0..Depth /\ n > 0
      BY Suffixes
    <2> QED  BY <1>2, <2>1 DEF FilesInv, PointersOnly
  <1>4. NothingStale'
    <2> SUFFICES ASSUME NEW f \in File \ excused'
                 PROVE  {disk'[<<f, 0>>], remote'[<<f, 0>>]} \subseteq {"none", wanted'[f]}
      BY DEF NothingStale
    <2> QED  BY <1>2, Suffixes DEF FilesInv, NothingStale
  <1>5. ASSUME v # "none" PROVE TextRestorable'
    <2> SUFFICES ASSUME NEW f \in File \ excused', wanted[f] # "none"
                 PROVE  \/ disk'[<<f, 0>>] = wanted[f]
                        \/ \E n \in 1..Depth : disk'[<<f, n>>] = "pointer" /\ LeadsTo(f, n)
      BY DEF TextRestorable, LeadsTo
    <2>1. CASE disk[<<f, 0>>] = wanted[f]
      BY <1>2, <1>5, <2>1, Suffixes
    <2>2. CASE \E n \in 1..Depth : disk[<<f, n>>] = "pointer" /\ LeadsTo(f, n)
      <3>1. PICK n \in 1..Depth : disk[<<f, n>>] = "pointer" /\ LeadsTo(f, n)
        BY <2>2
      <3>2. disk'[<<f, n>>] = "pointer"
        BY <1>2, <1>5, <3>1, Suffixes
      <3> QED  BY <3>1, <3>2
    <2> QED  BY <2>1, <2>2 DEF FilesInv, TextRestorable
  <1> QED  BY <1>1, <1>2, <1>3, <1>4, <1>5

\* The entry in hand, with the suffix it has.
LEMMA AtHand ==
    ASSUME FilesInv, command.at # <<>>
    PROVE  /\ command.at \in Entry /\ command.at[1] \in File /\ command.at[2] \in 0..Depth
           /\ command.at = <<command.at[1], command.at[2]>>
  BY Entries_ DEF FilesInv, FilesTypeOK

\* Done leaves a command of the same kind with nothing in hand.
LEMMA DoneKeeps ==
    ASSUME FilesInv, Done
    PROVE  /\ command' \in [verb : Verbs, todo : SUBSET Entry, at : Entry \union {<<>>}, held : Holds]
           /\ command'.verb = command.verb /\ command'.todo = command.todo \ {command.at}
           /\ command'.at = <<>>
           /\ command.verb \in {"mirror", "restore"} => Mirroring' /\ Redirecting' /\ Restoring' /\ Cleaning'
  <1>1. /\ command' \in [verb : Verbs, todo : SUBSET Entry, at : Entry \union {<<>>}, held : Holds]
        /\ command'.verb = command.verb /\ command'.todo = command.todo \ {command.at} /\ command'.at = <<>>
    BY DEF FilesInv, FilesTypeOK, Done, Holds
  <1>2. command.verb \in {"mirror", "restore"} => Mirroring' /\ Redirecting' /\ Restoring' /\ Cleaning'
    BY <1>1 DEF FilesInv, Mirroring, Redirecting, Restoring, Cleaning, InHand, Awaited
  <1> QED  BY <1>1, <1>2

LEMMA UploadKeeps == ASSUME FilesInv, Upload PROVE FilesInv'
  <1> DEFINE e == command.at
  <1>1. /\ command.verb = "mirror" /\ e # <<>>
        /\ remote' = [remote EXCEPT ![e] = command.held]
        /\ excused' = IF e[2] = 0 /\ command.held = wanted[e[1]] /\ disk[e] = command.held
                      THEN excused \ {e[1]} ELSE excused
        /\ Done /\ UNCHANGED <<disk, marker, storage, wanted>>
    BY DEF Upload
  <1>2. e \in Entry /\ e[1] \in File /\ e[2] \in 0..Depth /\ e = <<e[1], e[2]>>
    BY <1>1, AtHand
  <1>3. command.held \in Holds
    BY DEF FilesInv, FilesTypeOK
  <1>4. e[2] > 0 => command.held = "pointer"
    BY <1>1 DEF FilesInv, Mirroring, InHand
  <1>5. e[2] = 0 /\ e[1] \notin excused' => command.held = wanted[e[1]]
    BY <1>1, <1>2 DEF FilesInv, Mirroring, InHand, Awaited
  <1>6. ASSUME NEW f \in File, NEW n \in 0..Depth
        PROVE  remote'[<<f, n>>] = IF f = e[1] /\ n = e[2] THEN command.held ELSE remote[<<f, n>>]
    <2>1. <<f, n>> \in Entry
      BY Entries_
    <2>2. <<f, n>> = e <=> f = e[1] /\ n = e[2]
      BY <1>2, Pairs
    <2> QED  BY <1>1, <2>1, <2>2 DEF FilesInv, FilesTypeOK
  <1> HIDE DEF e
  <1>7. FilesTypeOK'
    <2>1. remote' \in [Entry -> Holds]
      BY <1>1, <1>2, <1>3 DEF FilesInv, FilesTypeOK
    <2>2. excused' \in SUBSET File
      BY <1>1 DEF FilesInv, FilesTypeOK
    <2> QED  BY <1>1, <2>1, <2>2, DoneKeeps DEF FilesInv, FilesTypeOK
  <1>8. PointersOnly'
    <2> SUFFICES ASSUME NEW f \in File, NEW n \in 1..Depth
                 PROVE  {disk'[<<f, n>>], remote'[<<f, n>>]} \subseteq {"none", "pointer"}
      BY DEF PointersOnly
    <2>1. n \in 0..Depth /\ n > 0
      BY Suffixes
    <2> QED  BY <1>1, <1>4, <1>6, <2>1 DEF FilesInv, PointersOnly
  \* A file that is no longer excused is on disk and in the bucket as it should be.
  <1>9. ASSUME NEW f \in File \ excused', f \in excused
        PROVE  f = e[1] /\ e[2] = 0 /\ command.held = wanted[f] /\ disk[<<f, 0>>] = wanted[f]
    BY <1>1, <1>2, <1>9
  <1>10. NothingStale'
    <2> SUFFICES ASSUME NEW f \in File \ excused'
                 PROVE  {disk[<<f, 0>>], remote'[<<f, 0>>]} \subseteq {"none", wanted[f]}
      BY <1>1 DEF NothingStale
    <2>1. remote'[<<f, 0>>] = IF f = e[1] /\ 0 = e[2] THEN command.held ELSE remote[<<f, 0>>]
      BY <1>6, Suffixes
    <2>2. CASE f \in excused
      BY <1>9, <2>1, <2>2
    <2>3. CASE f \notin excused
      BY <1>5, <2>1, <2>3 DEF FilesInv, NothingStale
    <2> QED  BY <2>2, <2>3
  <1>11. TextRestorable'
    <2> SUFFICES ASSUME NEW f \in File \ excused', wanted[f] # "none"
                 PROVE  \/ disk[<<f, 0>>] = wanted[f]
                        \/ \E n \in 1..Depth : disk[<<f, n>>] = "pointer" /\ LeadsTo(f, n)'
      BY <1>1 DEF TextRestorable, LeadsTo
    <2>1. CASE f \in excused
      BY <1>9, <2>1
    <2>2. CASE f \notin excused /\ disk[<<f, 0>>] = wanted[f]
      BY <2>2
    <2>3. CASE f \notin excused /\ \E n \in 1..Depth : disk[<<f, n>>] = "pointer" /\ LeadsTo(f, n)
      <3>1. PICK n \in 1..Depth : disk[<<f, n>>] = "pointer" /\ LeadsTo(f, n)
        BY <2>3
      <3>2. ASSUME NEW k \in 0..(n - 1)
            PROVE  remote'[<<f, k>>] = IF k = 0 THEN wanted[f] ELSE "pointer"
        <4>1. k \in 0..Depth /\ (k # 0 => k > 0)
          BY FilesAssumption
        <4>2. remote[<<f, k>>] = IF k = 0 THEN wanted[f] ELSE "pointer"
          BY <3>1 DEF LeadsTo
        <4> QED  BY <1>4, <1>5, <1>6, <4>1, <4>2
      <3>3. LeadsTo(f, n)'
        BY <1>1, <3>2 DEF LeadsTo
      <3> QED  BY <3>1, <3>3
    <2> QED  BY <2>1, <2>2, <2>3 DEF FilesInv, TextRestorable
  <1>12. Mirroring' /\ Redirecting' /\ Restoring' /\ Cleaning'
    BY <1>1, DoneKeeps
  <1> QED  BY <1>7, <1>8, <1>10, <1>11, <1>12 DEF FilesInv

LEMMA WritePointerKeeps == ASSUME FilesInv, WritePointer PROVE FilesInv'
  <1> DEFINE e == command.at
  <1>1. /\ command.verb = "redirect" /\ e # <<>>
        /\ disk' = [disk EXCEPT ![Suffixed(e)] = "pointer"]
        /\ command' = [command EXCEPT !.verb = "unlink"]
        /\ UNCHANGED <<remote, marker, storage, wanted, excused>>
    BY DEF WritePointer
  <1>2. e \in Entry /\ e \in command.todo /\ (e[1] \notin excused => remote[e] # "none") /\ e[2] < Depth
    BY <1>1, AtHand DEF FilesInv, Redirecting, InHand, Awaited
  <1>3. Suffixed(e) \in Entry /\ Suffixed(e)[2] > 0 /\ Suffixed(e)[2] # 0
    BY <1>2, AtHand, Entries_, FilesAssumption DEF Suffixed, Entry
  <1>4. "pointer" \in Holds /\ "pointer" # "none"
    BY DEF Holds
  <1>5. disk' \in [Entry -> Holds] /\ PointersOnly' /\ NothingStale' /\ TextRestorable'
    <2> DEFINE at == Suffixed(e)
    <2>1. /\ disk' = [disk EXCEPT ![at] = "pointer"] /\ at \in Entry /\ at[2] > 0 /\ at[2] # 0
          /\ excused \subseteq excused' /\ UNCHANGED <<remote, wanted>>
      BY <1>1, <1>3
    <2> HIDE DEF at
    <2> QED  BY <2>1, <1>4, DiskWritten
  <1>6. /\ command' \in [verb : Verbs, todo : SUBSET Entry, at : Entry \union {<<>>}, held : Holds]
        /\ command'.verb = "unlink" /\ command'.todo = command.todo /\ command'.at = e
    BY <1>1 DEF FilesInv, FilesTypeOK, Verbs
  <1>7. disk'[Suffixed(e)] = "pointer"
    BY <1>1, <1>3 DEF FilesInv, FilesTypeOK
  <1>8. Redirecting'
    BY <1>1, <1>2, <1>6, <1>7 DEF FilesInv, Redirecting, InHand, Awaited
  <1>9. Mirroring' /\ Restoring' /\ Cleaning'
    BY <1>6 DEF Mirroring, Restoring, Cleaning
  <1> QED  BY <1>1, <1>5, <1>6, <1>8, <1>9 DEF FilesInv, FilesTypeOK

\* The original goes: the bucket has it, and its pointer leads there.
LEMMA UnlinkKeeps == ASSUME FilesInv, Unlink PROVE FilesInv'
  <1> DEFINE e == command.at
  <1>1. /\ command.verb = "unlink" /\ disk' = [disk EXCEPT ![e] = "none"]
        /\ command' = [command EXCEPT !.verb = "redirect", !.todo = @ \ {e}, !.at = <<>>, !.held = "none"]
        /\ UNCHANGED <<remote, marker, storage, wanted, excused>>
    BY DEF Unlink
  <1>2. /\ e # <<>> /\ e \in command.todo /\ (e[1] \notin excused => remote[e] # "none")
        /\ e[2] < Depth /\ disk[Suffixed(e)] = "pointer"
    BY <1>1 DEF FilesInv, Redirecting, InHand, Awaited
  <1>3. e \in Entry /\ e[1] \in File /\ e[2] \in 0..Depth /\ e = <<e[1], e[2]>>
    BY <1>2, AtHand
  <1>4. "none" \in Holds
    BY DEF Holds
  <1>5. /\ disk' \in [Entry -> Holds] /\ PointersOnly' /\ NothingStale'
        /\ \A f \in File, n \in 0..Depth :
             disk'[<<f, n>>] = IF f = e[1] /\ n = e[2] THEN "none" ELSE disk[<<f, n>>]
    BY <1>1, <1>3, <1>4, DiskWritten
  <1>6. /\ command' \in [verb : Verbs, todo : SUBSET Entry, at : Entry \union {<<>>}, held : Holds]
        /\ command'.verb = "redirect" /\ command'.todo \subseteq command.todo /\ command'.at = <<>>
    BY <1>1 DEF FilesInv, FilesTypeOK, Verbs, Holds
  <1>7. Mirroring' /\ Redirecting' /\ Restoring' /\ Cleaning'
    BY <1>1, <1>6 DEF FilesInv, Mirroring, Redirecting, Restoring, Cleaning, InHand
  <1> HIDE DEF e
  <1>8. TextRestorable'
    <2> SUFFICES ASSUME NEW f \in File \ excused, wanted[f] # "none"
                 PROVE  \/ disk'[<<f, 0>>] = wanted[f]
                        \/ \E n \in 1..Depth : disk'[<<f, n>>] = "pointer" /\ LeadsTo(f, n)
      BY <1>1 DEF TextRestorable, LeadsTo
    <2> DEFINE next == e[2] + 1
    <2>1. next \in 1..Depth /\ next \in 0..Depth /\ next # e[2] /\ e[2] \in 0..(next - 1)
      BY <1>2, <1>3, FilesAssumption
    <2>2. f = e[1] => disk'[<<f, next>>] = "pointer" /\ remote[<<f, e[2]>>] # "none"
      BY <1>2, <1>3, <1>5, <2>1 DEF Suffixed
    <2>3. CASE f = e[1] /\ e[2] = 0
      <3>1. remote[<<f, 0>>] = wanted[f]
        BY <2>2, <2>3 DEF FilesInv, NothingStale
      <3>2. LeadsTo(f, next)
        BY <3>1, <2>3 DEF LeadsTo
      <3> QED  BY <2>1, <2>2, <2>3, <3>2
    <2>4. CASE f # e[1] \/ e[2] # 0
      <3>1. disk'[<<f, 0>>] = disk[<<f, 0>>]
        BY <1>5, <2>4, Suffixes
      <3>2. CASE disk[<<f, 0>>] = wanted[f]
        BY <3>1, <3>2
      <3>3. CASE \E n \in 1..Depth : disk[<<f, n>>] = "pointer" /\ LeadsTo(f, n)
        <4>1. PICK n \in 1..Depth : disk[<<f, n>>] = "pointer" /\ LeadsTo(f, n)
          BY <3>3
        <4>2. CASE f # e[1] \/ n # e[2]
          <5>1. disk'[<<f, n>>] = "pointer"
            BY <1>5, <4>1, <4>2, Suffixes
          <5> QED  BY <4>1, <5>1
        <4>3. CASE f = e[1] /\ n = e[2]
          <5>1. remote[<<f, n>>] = "pointer"
            BY <2>2, <4>3 DEF FilesInv, PointersOnly
          <5>2. ASSUME NEW k \in 0..(next - 1)
                PROVE  remote[<<f, k>>] = IF k = 0 THEN wanted[f] ELSE "pointer"
            <6>1. k = n \/ k \in 0..(n - 1)
              BY <4>3
            <6> QED  BY <4>1, <5>1, <6>1 DEF LeadsTo
          <5>3. LeadsTo(f, next)
            BY <5>2 DEF LeadsTo
          <5> HIDE DEF next
          <5> QED  BY <2>1, <2>2, <4>3, <5>3
        <4> QED  BY <4>2, <4>3
      <3> QED  BY <3>2, <3>3 DEF FilesInv, TextRestorable
    <2> QED  BY <2>3, <2>4
  <1> QED  BY <1>1, <1>5, <1>6, <1>7, <1>8 DEF FilesInv, FilesTypeOK

LEMMA WriteOriginalKeeps == ASSUME FilesInv, WriteOriginal PROVE FilesInv'
  <1> DEFINE e == command.at
  <1>1. /\ command.verb = "restore" /\ e # <<>> /\ disk' = [disk EXCEPT ![Stem(e)] = command.held]
        /\ UNCHANGED <<remote, marker, storage, command, wanted, excused>>
    BY DEF WriteOriginal
  <1>2. e \in Entry /\ e[2] > 0 /\ command.held = remote[Stem(e)] /\ command.held # "none" /\ command.held \in Holds
    BY <1>1, AtHand DEF FilesInv, FilesTypeOK, Restoring, InHand
  <1>3. /\ Stem(e) \in Entry /\ Stem(e)[1] \in File /\ Stem(e)[2] \in 0..Depth
        /\ Stem(e) = <<Stem(e)[1], Stem(e)[2]>>
    BY <1>2, Entries_
  <1>4. Stem(e)[2] > 0 => command.held \in {"none", "pointer"}
    <2> SUFFICES ASSUME Stem(e)[2] > 0 PROVE remote[<<Stem(e)[1], Stem(e)[2]>>] \in {"none", "pointer"}
      BY <1>2, <1>3
    <2> QED  BY <1>3, Suffixes DEF FilesInv, PointersOnly
  <1>5. Stem(e)[2] = 0 /\ Stem(e)[1] \notin excused => command.held \in {"none", wanted[Stem(e)[1]]}
    <2> SUFFICES ASSUME Stem(e)[2] = 0, Stem(e)[1] \notin excused
                 PROVE  remote[<<Stem(e)[1], 0>>] \in {"none", wanted[Stem(e)[1]]}
      BY <1>2, <1>3
    <2> QED  BY <1>3 DEF FilesInv, NothingStale
  <1>6. disk' \in [Entry -> Holds] /\ PointersOnly' /\ NothingStale' /\ TextRestorable'
    BY <1>1, <1>2, <1>3, <1>4, <1>5, DiskWritten
  <1>7. Mirroring' /\ Redirecting' /\ Restoring' /\ Cleaning'
    BY <1>1 DEF FilesInv, Mirroring, Redirecting, Restoring, Cleaning, InHand
  <1> QED  BY <1>1, <1>6, <1>7 DEF FilesInv, FilesTypeOK

\* The pointer goes: what it stood for is back, the text or a pointer one suffix down.
LEMMA UnlinkPointerKeeps == ASSUME FilesInv, UnlinkPointer PROVE FilesInv'
  <1> DEFINE e == command.at
  <1>1. /\ command.verb = "restore" /\ e # <<>> /\ disk[Stem(e)] = command.held
        /\ disk' = [disk EXCEPT ![e] = "none"] /\ Done
        /\ UNCHANGED <<remote, marker, storage, wanted, excused>>
    BY DEF UnlinkPointer
  <1>2. e \in Entry /\ e[1] \in File /\ e[2] \in 0..Depth /\ e = <<e[1], e[2]>>
    BY <1>1, AtHand
  <1>3. e[2] > 0 /\ command.held = remote[Stem(e)]
    BY <1>1 DEF FilesInv, Restoring, InHand
  <1>4. "none" \in Holds
    BY DEF Holds
  <1>5. /\ disk' \in [Entry -> Holds] /\ PointersOnly' /\ NothingStale'
        /\ \A f \in File, n \in 0..Depth :
             disk'[<<f, n>>] = IF f = e[1] /\ n = e[2] THEN "none" ELSE disk[<<f, n>>]
    BY <1>1, <1>2, <1>4, DiskWritten
  <1>6. Mirroring' /\ Redirecting' /\ Restoring' /\ Cleaning'
    BY <1>1, DoneKeeps
  <1>7. disk[<<e[1], e[2] - 1>>] = remote[<<e[1], e[2] - 1>>]
    BY <1>1, <1>3 DEF Stem
  <1>8. command' \in [verb : Verbs, todo : SUBSET Entry, at : Entry \union {<<>>}, held : Holds]
    BY <1>1, DoneKeeps
  <1> HIDE DEF e
  <1>9. TextRestorable'
    <2> SUFFICES ASSUME NEW f \in File \ excused, wanted[f] # "none"
                 PROVE  \/ disk'[<<f, 0>>] = wanted[f]
                        \/ \E n \in 1..Depth : disk'[<<f, n>>] = "pointer" /\ LeadsTo(f, n)
      BY <1>1 DEF TextRestorable, LeadsTo
    <2>1. disk'[<<f, 0>>] = disk[<<f, 0>>]
      BY <1>3, <1>5, Suffixes
    <2>2. CASE disk[<<f, 0>>] = wanted[f]
      BY <2>1, <2>2
    <2>3. CASE \E n \in 1..Depth : disk[<<f, n>>] = "pointer" /\ LeadsTo(f, n)
      <3>1. PICK n \in 1..Depth : disk[<<f, n>>] = "pointer" /\ LeadsTo(f, n)
        BY <2>3
      <3>2. CASE f # e[1] \/ n # e[2]
        <4>1. disk'[<<f, n>>] = "pointer"
          BY <1>5, <3>1, <3>2, Suffixes
        <4> QED  BY <3>1, <4>1
      <3>3. CASE f = e[1] /\ n = e[2]
        <4> DEFINE m == n - 1
        <4>1. m \in 0..(n - 1) /\ m \in 0..Depth /\ m # e[2] /\ (m # 0 => m \in 1..Depth)
          BY <3>3, FilesAssumption
        <4>2. disk[<<f, m>>] = IF m = 0 THEN wanted[f] ELSE "pointer"
          BY <1>7, <3>1, <3>3, <4>1 DEF LeadsTo
        <4>3. disk'[<<f, m>>] = disk[<<f, m>>]
          BY <1>5, <4>1
        <4>4. LeadsTo(f, m)
          <5>1. \A k \in 0..(m - 1) : k \in 0..(n - 1)
            OBVIOUS
          <5> QED  BY <3>1, <5>1 DEF LeadsTo
        <4> HIDE DEF m
        <4> QED  BY <4>1, <4>2, <4>3, <4>4
      <3> QED  BY <3>2, <3>3
    <2> QED  BY <2>2, <2>3 DEF FilesInv, TextRestorable
  <1> QED  BY <1>1, <1>5, <1>6, <1>8, <1>9 DEF FilesInv, FilesTypeOK

LEMMA CleanKeeps == ASSUME FilesInv, NEW e \in Entry, Clean(e) PROVE FilesInv'
  <1>1. /\ command.verb = "clean" /\ disk' = [disk EXCEPT ![e] = "none"] /\ excused' = excused \union {e[1]}
        /\ command' = [command EXCEPT !.todo = @ \ {e}] /\ UNCHANGED <<remote, marker, storage, wanted>>
    BY DEF Clean
  <1>2. e[1] \in File /\ e[2] \in 0..Depth /\ e = <<e[1], e[2]>> /\ "none" \in Holds
    BY Entries_ DEF Holds
  <1>3. /\ disk' \in [Entry -> Holds] /\ PointersOnly' /\ NothingStale'
        /\ \A f \in File, n \in 0..Depth :
             disk'[<<f, n>>] = IF f = e[1] /\ n = e[2] THEN "none" ELSE disk[<<f, n>>]
    BY <1>1, <1>2, DiskWritten
  <1>4. /\ command' \in [verb : Verbs, todo : SUBSET Entry, at : Entry \union {<<>>}, held : Holds]
        /\ command'.verb = "clean"
    BY <1>1 DEF FilesInv, FilesTypeOK
  <1>5. Mirroring' /\ Redirecting' /\ Restoring' /\ Cleaning'
    BY <1>4 DEF Mirroring, Redirecting, Restoring, Cleaning
  <1>6. TextRestorable'
    <2> SUFFICES ASSUME NEW f \in File \ excused', wanted[f] # "none"
                 PROVE  \/ disk'[<<f, 0>>] = wanted[f]
                        \/ \E n \in 1..Depth : disk'[<<f, n>>] = "pointer" /\ LeadsTo(f, n)
      BY <1>1 DEF TextRestorable, LeadsTo
    <2>1. \A n \in 0..Depth : disk'[<<f, n>>] = disk[<<f, n>>]
      BY <1>1, <1>3
    <2>2. \A n \in 1..Depth : disk'[<<f, n>>] = disk[<<f, n>>]
      BY <2>1, Suffixes
    <2> QED  BY <1>1, <2>1, <2>2, Suffixes DEF FilesInv, TextRestorable
  <1>7. excused' \in SUBSET File
    BY <1>1, <1>2 DEF FilesInv, FilesTypeOK
  <1> QED  BY <1>1, <1>3, <1>4, <1>5, <1>6, <1>7 DEF FilesInv, FilesTypeOK

LEMMA FilesStep == ASSUME FilesInv, [FilesNext]_fileVars PROVE FilesInv'
  <1>1. CASE UNCHANGED fileVars
    <2>1. UNCHANGED <<disk, remote, marker, storage, command, wanted, excused>>
      BY <1>1 DEF fileVars
    <2>2. Mirroring' /\ Redirecting' /\ Restoring' /\ Cleaning'
      BY <2>1 DEF FilesInv, Mirroring, Redirecting, Restoring, Cleaning, InHand, Awaited
    <2> QED  BY <2>1, <2>2, FilesSame DEF FilesInv, FilesTypeOK
  <1>2. CASE \E f \in File : Remove(f) \/ \E text \in Text : Save(f, text)
    BY <1>2, SaveKeeps DEF Remove
  <1>3. CASE \E verb \in {"mirror", "redirect", "restore", "clean"} : Begin(verb)
    BY <1>3, BeginKeeps
  <1>4. CASE \E e \in Entry : Take(e) \/ TakeToRedirect(e) \/ Skip(e) \/ Clean(e)
    BY <1>4, TakeKeeps, TakeToRedirectKeeps, SkipKeeps, CleanKeeps
  <1>5. CASE Configure \/ Upload \/ WritePointer \/ Unlink \/ WriteOriginal \/ UnlinkPointer
    BY <1>5, ConfigureKeeps, UploadKeeps, WritePointerKeeps, UnlinkKeeps, WriteOriginalKeeps, UnlinkPointerKeeps
  <1>6. CASE Finish \/ unmirror \/ FilesDie
    BY <1>6, EndKeeps
  <1> QED  BY <1>1, <1>2, <1>3, <1>4, <1>5, <1>6 DEF FilesNext

\* For any files, any texts and any number of suffixes, with people editing while the commands run and
\* a death between any two of their steps: what was last saved of a file that is not excused is on
\* disk, or a pointer is there from which restores bring it back.
THEOREM TextRestorableHolds == FilesSpec => []TextRestorable
  <1>1. FilesInv /\ [FilesNext]_fileVars => FilesInv'
    BY FilesStep
  <1>2. FilesInv => TextRestorable
    BY DEF FilesInv
  <1> QED  BY <1>1, <1>2, FilesInitHolds, PTL DEF FilesSpec

-----------------------------------------------------------------------------
(***************************************************************************)
(* Skillpack: the command that holds the fence is the only one that        *)
(* writes, so what it has read of the workspace is what is there, and what *)
(* it has yet to write is over nobody's work but what it was told to give  *)
(* up.                                                                     *)
(***************************************************************************)

Slugs == Skill \union Others
Releases == 1..Len(Bundle)
Fence == [file : BOOLEAN, receipted : BOOLEAN, rows : SUBSET Slugs, receipt : SUBSET Slugs, version : Nat]
Command == [pc : {"idle", "lock", "steal", "take", "write", "scan", "unlink", "fence", "release"},
            ask : Asked \union {NoAsk}, manifest : Nat, todo : SUBSET SkillFile, read : Fence]

SkillpackTypeOK ==
    /\ placed \in [SkillFile -> 0..Own] /\ fence \in Fence /\ release \in Releases
    /\ doing \in [Installer -> Command]
    /\ owed \in [files : SUBSET SkillFile, rows : SUBSET Others]

\* A command is about a skill or all of them, and where it needs a manifest it has read one.
Briefed(cmd) ==
    /\ cmd.pc # "idle" => cmd.ask \in Asked
    /\ cmd.pc = "write" => cmd.ask.op = "install"
    /\ cmd.pc \in {"unlink", "fence"} \/ (cmd.pc # "idle" /\ cmd.ask.op = "install") => cmd.manifest \in Releases

\* What it is about to write or remove is nobody's work, unless it was told to overwrite.
Permitted(cmd, o) == \A f \in cmd.todo : f \in o.files => cmd.ask.overwrite

\* The resolver file it has read has the rows that are owed, and not as gbrain's.
Informed(cmd, o) ==
    cmd.pc = "fence" =>
      /\ o.rows \subseteq cmd.read.rows /\ o.rows \intersect cmd.read.receipt = {}
      /\ o.rows # {} => cmd.read.receipted

CommandOK(cmd, o) == Briefed(cmd) /\ Permitted(cmd, o) /\ Informed(cmd, o)

FenceOK ==
    /\ fence.receipt \subseteq fence.rows /\ owed.rows \intersect fence.receipt = {}
    /\ owed.rows # {} => fence.receipted

SkillpackInv ==
    /\ SkillpackTypeOK /\ FenceOK /\ WorkKept
    /\ \A c \in Installer : CommandOK(doing[c], owed)

LEMMA SkillpackConstants ==
    /\ Len(Bundle) \in Nat \ {0} /\ Own \in Nat /\ Own \notin Releases /\ Own # Nothing
    /\ Releases \subseteq 0..Own /\ Nothing \in 0..Own /\ Own \in 0..Own /\ 1 \in Releases
    /\ \A r \in Releases : r \in Nat /\ Bundle[r] \subseteq Skill
  <1>1. /\ Bundle \in Seq(SUBSET Skill) /\ Bundle # <<>>
    BY SkillpackAssumption
  <1>2. Len(Bundle) \in Nat /\ Len(Bundle) # 0 /\ \A r \in Releases : Bundle[r] \in SUBSET Skill
    BY <1>1 DEF Releases
  <1> QED BY <1>2 DEF Releases, Own, Nothing

LEMMA NotRunningOK ==
    /\ NotRunning \in Command /\ NoFence \in Fence
    /\ \A o : CommandOK(NotRunning, o)
  <1>1. NoFence \in Fence
    BY DEF NoFence, Fence
  <1>2. NotRunning \in Command
    BY <1>1 DEF NotRunning, Command
  <1> QED BY <1>1, <1>2 DEF NotRunning, CommandOK, Briefed, Permitted, Informed, NoAsk

LEMMA SkillpackStarts == SkillpackInit => SkillpackInv
  <1> SUFFICES ASSUME SkillpackInit PROVE SkillpackInv
    OBVIOUS
  <1> USE SkillpackConstants
  <1>1. release \in Releases /\ doing \in [Installer -> Command] /\ \A c \in Installer : CommandOK(doing[c], owed)
    BY NotRunningOK DEF SkillpackInit
  <1>2. owed \in [files : SUBSET SkillFile, rows : SUBSET Others] /\ owed.files = {} /\ owed.rows = {}
    BY DEF SkillpackInit
  <1>3. fence \in Fence /\ fence.receipt \subseteq fence.rows
    <2>1. CASE \E file \in BOOLEAN : fence = [NoFence EXCEPT !.file = file]
      BY <2>1, NotRunningOK DEF NoFence, Fence
    <2>2. CASE \E s \in Bundle[1] : fence \in {[NoFence EXCEPT !.rows = {s}], Block({s}, 1)}
      <3>1. PICK s \in Bundle[1] : fence \in {[NoFence EXCEPT !.rows = {s}], Block({s}, 1)}
        BY <2>2
      <3>2. s \in Slugs /\ 1 \in Nat
        BY DEF Slugs
      <3>3. CASE fence = [NoFence EXCEPT !.rows = {s}]
        BY <3>2, <3>3 DEF NoFence, Fence
      <3>4. CASE fence = Block({s}, 1)
        BY <3>2, <3>4 DEF Fence, Block
      <3> QED BY <3>1, <3>3, <3>4
    <2> QED BY <2>1, <2>2 DEF SkillpackInit
  <1>4. placed \in [SkillFile -> 0..Own]
    BY DEF SkillpackInit, Releases
  <1> QED BY <1>1, <1>2, <1>3, <1>4 DEF SkillpackInv, SkillpackTypeOK, FenceOK, WorkKept

\* A command goes on, and no more is owed than before: the others are none the worse.
LEMMA OthersGoOn ==
    ASSUME SkillpackInv, NEW c \in Installer, NEW new \in Command,
           doing' = [doing EXCEPT ![c] = new],
           owed' \in [files : SUBSET SkillFile, rows : SUBSET Others],
           owed'.files \subseteq owed.files, owed'.rows \subseteq owed.rows,
           CommandOK(new, owed')
    PROVE  /\ doing' \in [Installer -> Command]
           /\ \A d \in Installer : CommandOK(doing'[d], owed')
  <1>1. doing' \in [Installer -> Command]
    BY DEF SkillpackInv, SkillpackTypeOK
  <1>2. ASSUME NEW d \in Installer PROVE CommandOK(doing'[d], owed')
    <2>1. CASE d = c
      BY <2>1 DEF SkillpackInv, SkillpackTypeOK
    <2>2. CASE d # c
      <3>1. doing'[d] = doing[d] /\ CommandOK(doing[d], owed)
        BY <2>2 DEF SkillpackInv, SkillpackTypeOK
      <3> QED BY <3>1 DEF CommandOK, Briefed, Permitted, Informed
    <2> QED BY <2>1, <2>2
  <1> QED BY <1>1, <1>2

\* The steps of a command that touch neither the files nor the resolver file.
LEMMA OneGoesOn ==
    ASSUME SkillpackInv, NEW c \in Installer, NEW new \in Command,
           doing' = [doing EXCEPT ![c] = new], CommandOK(new, owed),
           UNCHANGED <<placed, fence, release, owed>>
    PROVE  SkillpackInv'
  <1>1. owed' \in [files : SUBSET SkillFile, rows : SUBSET Others] /\ owed' = owed
    BY DEF SkillpackInv, SkillpackTypeOK
  <1>2. doing' \in [Installer -> Command] /\ \A d \in Installer : CommandOK(doing'[d], owed')
    BY <1>1, OthersGoOn
  <1>3. SkillpackTypeOK' /\ FenceOK' /\ WorkKept'
    BY <1>1, <1>2 DEF SkillpackInv, SkillpackTypeOK, FenceOK, WorkKept
  <1> QED BY <1>2, <1>3 DEF SkillpackInv

LEMMA CommandFacts ==
    ASSUME SkillpackInv, NEW c \in Installer
    PROVE  doing[c] \in Command /\ CommandOK(doing[c], owed)
  BY DEF SkillpackInv, SkillpackTypeOK

LEMMA PlanKeeps ==
    ASSUME SkillpackInv, NEW c \in Installer, NEW ask \in Asked, planInstall(c, ask) \/ applyUninstall(c, ask)
    PROVE  SkillpackInv'
  <1> USE SkillpackConstants
  <1>0. release \in Releases /\ owed.files \subseteq SkillFile /\ \A f \in owed.files : placed[f] = Own
    BY DEF SkillpackInv, SkillpackTypeOK, WorkKept
  <1>1. CASE planInstall(c, ask)
    <2> DEFINE skills == IF ask.slug = "all" THEN Bundle[release] ELSE {ask.slug}
               new == [NotRunning EXCEPT !.pc = "lock", !.ask = ask, !.manifest = release,
                                         !.todo = Replaced(Source(skills), ask)]
    <2>1. doing' = [doing EXCEPT ![c] = new] /\ UNCHANGED <<placed, fence, release, owed>> /\ skills \subseteq Bundle[release]
      BY <1>1 DEF planInstall
    <2>2. Source(skills) \subseteq SkillFile
      BY <2>1, <1>0, SkillpackAssumption DEF Source, Shared
    <2>3. Replaced(Source(skills), ask) \subseteq SkillFile
      BY <2>2 DEF Replaced
    <2> HIDE DEF skills
    <2>4. new \in Command
      BY <2>3, <1>0, NotRunningOK DEF Command, NotRunning
    <2>5. new.todo = Replaced(Source(skills), ask) /\ new.ask = ask /\ new.pc = "lock" /\ new.manifest = release
      BY DEF NotRunning
    <2> HIDE DEF new
    <2>6. CommandOK(new, owed)
      BY <2>5, <1>0 DEF CommandOK, Briefed, Permitted, Informed, Replaced
    <2> QED BY <2>1, <2>4, <2>6, OneGoesOn
  <1>2. CASE applyUninstall(c, ask)
    <2> DEFINE new == [NotRunning EXCEPT !.pc = "lock", !.ask = ask]
    <2>1. doing' = [doing EXCEPT ![c] = new] /\ UNCHANGED <<placed, fence, release, owed>>
      BY <1>2 DEF applyUninstall
    <2>2. new \in Command
      BY NotRunningOK DEF Command, NotRunning
    <2>3. new.todo = {} /\ new.ask = ask /\ new.pc = "lock" /\ ask.op # "install"
      BY <1>2 DEF NotRunning, applyUninstall
    <2> HIDE DEF new
    <2>4. CommandOK(new, owed)
      BY <2>3 DEF CommandOK, Briefed, Permitted, Informed
    <2> QED BY <2>1, <2>2, <2>4, OneGoesOn
  <1> QED BY <1>1, <1>2

\* From one wait of the command to another, with what it has set out to do.
LEMMA LockStepsKeep ==
    ASSUME SkillpackInv, NEW c \in Installer,
           \/ CheckLock(c) \/ StealLock(c) \/ TakeLock(c)
           \/ releaseLock(c) \/ Throws(c) \/ InstallerDies(c)
    PROVE  SkillpackInv'
  <1> DEFINE here(pc) == [doing[c] EXCEPT !.pc = pc]
  <1>1. UNCHANGED <<placed, fence, release, owed>>
    BY DEF CheckLock, StealLock, TakeLock, releaseLock, Throws, InstallerDies, Stays
  <1>2. ASSUME doing' = [doing EXCEPT ![c] = NotRunning] PROVE SkillpackInv'
    BY <1>1, <1>2, NotRunningOK, OneGoesOn
  <1>3. ASSUME NEW pc \in {"steal", "take"}, doing' = [doing EXCEPT ![c].pc = pc],
               doing[c].pc \in {"lock", "steal"}
        PROVE  SkillpackInv'
    <2>1. here(pc) \in Command /\ here(pc).pc = pc /\ here(pc).ask = doing[c].ask
          /\ here(pc).manifest = doing[c].manifest /\ here(pc).todo = doing[c].todo
      BY CommandFacts DEF Command
    <2>2. CommandOK(here(pc), owed)
      BY <2>1, <1>3, CommandFacts DEF CommandOK, Briefed, Permitted, Informed
    <2> QED BY <2>1, <2>2, <1>1, <1>3, OneGoesOn
  <1>4. CASE TakeLock(c)
    <2> DEFINE pc == IF doing[c].ask.op = "install" THEN "write" ELSE "scan"
    <2>1. doing' = [doing EXCEPT ![c] = here(pc)] /\ doing[c].pc = "take"
      BY <1>4 DEF TakeLock, Proceeds
    <2>2. here(pc) \in Command /\ here(pc).pc = pc /\ here(pc).ask = doing[c].ask
          /\ here(pc).manifest = doing[c].manifest /\ here(pc).todo = doing[c].todo
      BY CommandFacts DEF Command
    <2>3. CommandOK(here(pc), owed)
      BY <2>1, <2>2, CommandFacts DEF CommandOK, Briefed, Permitted, Informed
    <2> QED BY <2>1, <2>2, <2>3, <1>1, OneGoesOn
  <1>5. CASE Throws(c)
    <2> DEFINE new == [doing[c] EXCEPT !.pc = "release", !.todo = {}]
    <2>1. doing' = [doing EXCEPT ![c] = new] /\ doing[c].pc \in {"write", "fence", "unlink"}
      BY <1>5, CommandFacts DEF Throws
    <2>2. new \in Command /\ new.pc = "release" /\ new.ask = doing[c].ask
          /\ new.manifest = doing[c].manifest /\ new.todo = {}
      BY CommandFacts DEF Command
    <2>3. CommandOK(new, owed)
      BY <2>1, <2>2, CommandFacts DEF CommandOK, Briefed, Permitted, Informed
    <2> QED BY <2>1, <2>2, <2>3, <1>1, OneGoesOn
  <1>6. CASE CheckLock(c)
    BY <1>6, <1>2, <1>3 DEF CheckLock, Proceeds
  <1>7. CASE StealLock(c)
    BY <1>7, <1>3 DEF StealLock, Proceeds
  <1>8. CASE releaseLock(c)
    BY <1>8, <1>2 DEF releaseLock
  <1>9. CASE InstallerDies(c)
    BY <1>9, <1>2 DEF InstallerDies
  <1> QED BY <1>4, <1>5, <1>6, <1>7, <1>8, <1>9

\* A file is written or removed: it is nobody's work, or the command was told to overwrite.
LEMMA FileStepsKeep ==
    ASSUME SkillpackInv, NEW c \in Installer, WriteFile(c) \/ UnlinkFile(c)
    PROVE  SkillpackInv'
  <1> USE SkillpackConstants
  <1>1. PICK f \in doing[c].todo :
          /\ doing[c].pc \in {"write", "unlink"}
          /\ placed' \in {placed, [placed EXCEPT ![f] = release], [placed EXCEPT ![f] = Nothing]}
          /\ doing' = [doing EXCEPT ![c].todo = @ \ {f}]
          /\ owed' = IF doing[c].ask.overwrite THEN [owed EXCEPT !.files = @ \ {f}] ELSE owed
          /\ UNCHANGED <<release, fence>>
    <2>1. CASE WriteFile(c)
      BY <2>1 DEF WriteFile, Stays
    <2>2. CASE UnlinkFile(c)
      BY <2>2 DEF UnlinkFile, Stays
    <2> QED BY <2>1, <2>2
  <1> DEFINE new == [doing[c] EXCEPT !.todo = @ \ {f}]
  <1>2. new \in Command /\ new.pc = doing[c].pc /\ new.ask = doing[c].ask
        /\ new.manifest = doing[c].manifest /\ new.todo = doing[c].todo \ {f} /\ new.read = doing[c].read
    BY CommandFacts DEF Command
  <1>3. doing' = [doing EXCEPT ![c] = new]
    BY <1>1
  <1>4. owed \in [files : SUBSET SkillFile, rows : SUBSET Others] /\ f \in SkillFile
        /\ (f \in owed.files => doing[c].ask.overwrite)
    BY CommandFacts DEF SkillpackInv, SkillpackTypeOK, Command, CommandOK, Permitted
  <1>5. /\ owed' \in [files : SUBSET SkillFile, rows : SUBSET Others]
        /\ owed'.files = owed.files \ {f} /\ owed'.rows = owed.rows
    BY <1>1, <1>4
  <1> HIDE DEF new
  <1>6. CommandOK(new, owed')
    BY <1>1, <1>2, <1>5, CommandFacts DEF CommandOK, Briefed, Permitted, Informed
  <1>7. doing' \in [Installer -> Command] /\ \A d \in Installer : CommandOK(doing'[d], owed')
    BY <1>2, <1>3, <1>5, <1>6, OthersGoOn
  <1>8. placed' \in [SkillFile -> 0..Own] /\ \A g \in SkillFile \ {f} : placed'[g] = placed[g]
    BY <1>1, <1>4 DEF SkillpackInv, SkillpackTypeOK
  <1>9. SkillpackTypeOK' /\ FenceOK' /\ WorkKept'
    BY <1>1, <1>5, <1>7, <1>8 DEF SkillpackInv, SkillpackTypeOK, FenceOK, WorkKept
  <1> QED BY <1>7, <1>9 DEF SkillpackInv

LEMMA ReadStepsKeep ==
    ASSUME SkillpackInv, NEW c \in Installer, Scan(c) \/ ReadFence(c)
    PROVE  SkillpackInv'
  <1> USE SkillpackConstants
  <1>0. /\ release \in Releases /\ owed.files \subseteq SkillFile /\ fence \in Fence
        /\ \A f \in owed.files : placed[f] = Own
    BY DEF SkillpackInv, SkillpackTypeOK, WorkKept
  <1>1. CASE Scan(c)
    <2> DEFINE files == {f \in FilesOf[doing[c].ask.slug] : placed[f] # Nothing}
    <2>0. doing[c].pc = "scan" /\ doing[c].ask \in Asked
      BY <1>1, CommandFacts DEF Scan, CommandOK, Briefed
    <2>1. PICK pc \in {"unlink", "release"}, todo \in {files, {}} :
            /\ doing' = [doing EXCEPT ![c].pc = pc, ![c].todo = todo, ![c].manifest = release]
            /\ todo # {} => /\ \A f \in files : placed[f] = release \/ doing[c].ask.overwrite
                           /\ doing[c].ask.slug \in Bundle[release]
      BY <1>1, Zenon DEF Scan
    <2> DEFINE new == [doing[c] EXCEPT !.pc = pc, !.todo = todo, !.manifest = release]
    <2>2. todo \subseteq SkillFile
      BY <2>1, <1>0, SkillpackAssumption
    <2>3. new \in Command /\ new.pc = pc /\ new.ask = doing[c].ask /\ new.manifest = release /\ new.todo = todo
      BY <2>2, <1>0, CommandFacts DEF Command
    <2>4. doing' = [doing EXCEPT ![c] = new]
      BY <2>1
    <2> HIDE DEF new
    <2>5. CommandOK(new, owed)
      BY <2>0, <2>1, <2>3, <1>0 DEF CommandOK, Briefed, Permitted, Informed
    <2>6. UNCHANGED <<placed, fence, release, owed>>
      BY <1>1 DEF Scan, Stays
    <2> QED BY <2>3, <2>4, <2>5, <2>6, OneGoesOn
  <1>2. CASE ReadFence(c)
    <2> DEFINE pc == IF fence.file THEN "fence" ELSE "release"
               new == [doing[c] EXCEPT !.pc = pc, !.read = fence]
    <2>1. doing' = [doing EXCEPT ![c] = new] /\ doing[c].pc \in {"write", "unlink"}
          /\ UNCHANGED <<placed, fence, release, owed>>
      BY <1>2 DEF ReadFence, Stays
    <2>2. new \in Command /\ new.pc = pc /\ new.ask = doing[c].ask
          /\ new.manifest = doing[c].manifest /\ new.todo = doing[c].todo /\ new.read = fence
      BY <1>0, CommandFacts DEF Command
    <2> HIDE DEF new
    <2>3. Informed(new, owed)
      BY <2>2 DEF Informed, SkillpackInv, FenceOK, WorkKept
    <2>4. CommandOK(new, owed)
      BY <2>1, <2>2, <2>3, CommandFacts DEF CommandOK, Briefed, Permitted
    <2> QED BY <2>1, <2>2, <2>4, OneGoesOn
  <1> QED BY <1>1, <1>2

\* What a command writes into the resolver file has every row that is owed.
LEMMA BlockHasAll ==
    ASSUME NEW cmd \in Command, NEW o \in [files : SUBSET SkillFile, rows : SUBSET Others],
           CommandOK(cmd, o), cmd.pc = "fence"
    PROVE  LET slugs == IF cmd.ask.op = "install" THEN applyManagedBlock(cmd) ELSE applyManagedBlockUninstall(cmd)
           IN  slugs \subseteq Slugs /\ o.rows \subseteq slugs
  <1>1. /\ cmd.ask \in Asked /\ cmd.manifest \in Releases /\ cmd.read \in Fence
        /\ o.rows \subseteq Others /\ o.rows \subseteq cmd.read.rows /\ o.rows \intersect cmd.read.receipt = {}
        /\ o.rows # {} => cmd.read.receipted
    BY DEF CommandOK, Briefed, Informed, Command
  <1>2. Bundle[cmd.manifest] \subseteq Skill
    BY <1>1, SkillpackConstants
  <1>3. Wanted(cmd) \subseteq Skill /\ (cmd.ask.op # "install" => cmd.ask.slug \in Skill)
    BY <1>1, <1>2, SkillpackAssumption DEF Wanted
  <1>4. Prior(cmd.read) \subseteq Slugs /\ cmd.read.rows \subseteq Slugs
        /\ (cmd.read.receipted => Prior(cmd.read) = cmd.read.receipt)
    BY <1>1 DEF Prior, Fence
  <1>5. Skill \intersect Others = {}
    BY SkillpackAssumption
  <1>6. CASE cmd.ask.op = "install"
    BY <1>1, <1>2, <1>3, <1>4, <1>5, <1>6 DEF applyManagedBlock, Slugs
  <1>7. CASE cmd.ask.op # "install"
    BY <1>1, <1>2, <1>3, <1>4, <1>5, <1>7 DEF applyManagedBlockUninstall, Slugs
  <1> QED BY <1>6, <1>7

LEMMA WriteFenceKeeps ==
    ASSUME SkillpackInv, NEW c \in Installer, WriteFence(c)
    PROVE  SkillpackInv'
  <1> DEFINE cmd == doing[c]
             slugs == IF cmd.ask.op = "install" THEN applyManagedBlock(cmd) ELSE applyManagedBlockUninstall(cmd)
             block == Block(slugs, cmd.manifest)
             new == [doing[c] EXCEPT !.pc = "release"]
  <1>1. /\ cmd.pc = "fence" /\ doing' = [doing EXCEPT ![c] = new]
        /\ fence' = IF block = cmd.read THEN fence ELSE block
        /\ owed' = [owed EXCEPT !.rows = @ \ fence'.receipt]
        /\ UNCHANGED <<placed, release>>
    BY DEF WriteFence, Proceeds, Stays
  <1>2. owed \in [files : SUBSET SkillFile, rows : SUBSET Others] /\ fence \in Fence /\ cmd \in Command /\ CommandOK(cmd, owed)
    BY CommandFacts DEF SkillpackInv, SkillpackTypeOK
  <1>3. slugs \subseteq Slugs /\ owed.rows \subseteq slugs
    BY <1>1, <1>2, BlockHasAll
  <1>4. new \in Command /\ new.pc = "release" /\ new.ask = cmd.ask /\ new.manifest = cmd.manifest /\ new.todo = cmd.todo
    BY CommandFacts DEF Command
  <1>5. /\ owed' \in [files : SUBSET SkillFile, rows : SUBSET Others]
        /\ owed'.files = owed.files /\ owed'.rows = owed.rows \ fence'.receipt
    BY <1>1, <1>2
  <1> HIDE DEF slugs
  <1>6. block \in Fence /\ block.rows = slugs /\ block.receipt = slugs /\ block.receipted
    BY <1>2, <1>3 DEF Block, Fence, Command
  <1> HIDE DEF new, cmd, block
  <1>7. CommandOK(new, owed')
    BY <1>1, <1>2, <1>4, <1>5 DEF CommandOK, Briefed, Permitted, Informed
  <1>8. doing' \in [Installer -> Command] /\ \A d \in Installer : CommandOK(doing'[d], owed')
    BY <1>1, <1>4, <1>5, <1>7, OthersGoOn
  <1>9. fence' \in Fence /\ FenceOK' /\ WorkKept'
    <2>1. CASE block = cmd.read
      BY <1>1, <1>2, <1>5, <2>1 DEF SkillpackInv, FenceOK, WorkKept
    <2>2. CASE block # cmd.read
      BY <1>1, <1>2, <1>3, <1>5, <1>6, <2>2 DEF SkillpackInv, FenceOK, WorkKept
    <2> QED BY <2>1, <2>2
  <1>10. SkillpackTypeOK'
    BY <1>1, <1>5, <1>8, <1>9 DEF SkillpackInv, SkillpackTypeOK
  <1> QED BY <1>8, <1>9, <1>10 DEF SkillpackInv

\* A release is installed, or somebody edits a file or adds a row.
LEMMA PeopleKeep ==
    ASSUME SkillpackInv,
           \/ LockGrowsOld \/ Upgrades
           \/ \E f \in SkillFile : EditFile(f)
           \/ \E s \in Skill \union Others : AddRow(s)
    PROVE  SkillpackInv'
  <1> USE SkillpackConstants
  <1>0. owed \in [files : SUBSET SkillFile, rows : SUBSET Others] /\ fence \in Fence /\ release \in Releases
    BY DEF SkillpackInv, SkillpackTypeOK
  <1>1. CASE LockGrowsOld \/ Upgrades
    <2>1. UNCHANGED <<placed, fence, doing, owed>> /\ release' \in Releases
      BY <1>1, <1>0 DEF LockGrowsOld, Upgrades, Stays, Releases
    <2> QED BY <2>1 DEF SkillpackInv, SkillpackTypeOK, FenceOK, WorkKept
  <1>2. ASSUME NEW f \in SkillFile, EditFile(f) PROVE SkillpackInv'
    <2>1. /\ placed' \in [SkillFile -> 0..Own] /\ placed'[f] = Own
          /\ \A g \in SkillFile \ {f} : placed'[g] = placed[g]
          /\ UNCHANGED <<fence, doing, release>>
      BY <1>2 DEF EditFile, SkillpackInv, SkillpackTypeOK
    <2>2. /\ owed' \in [files : SUBSET SkillFile, rows : SUBSET Others] /\ owed'.rows = owed.rows
          /\ \/ owed'.files = owed.files
             \/ owed'.files = owed.files \union {f} /\ \A c \in Installer : f \notin doing[c].todo
      BY <1>2, <1>0 DEF EditFile
    <2>3. \A c \in Installer : CommandOK(doing[c], owed')
      BY <2>2 DEF SkillpackInv, CommandOK, Briefed, Permitted, Informed
    <2>4. SkillpackTypeOK' /\ FenceOK' /\ WorkKept'
      BY <2>1, <2>2, <1>0 DEF SkillpackInv, SkillpackTypeOK, FenceOK, WorkKept
    <2> QED BY <2>1, <2>3, <2>4 DEF SkillpackInv
  <1>3. ASSUME NEW s \in Skill \union Others, AddRow(s) PROVE SkillpackInv'
    <2>1. /\ fence' = [fence EXCEPT !.rows = @ \union {s}] /\ s \notin fence.rows
          /\ UNCHANGED <<placed, doing, release>>
      BY <1>3 DEF AddRow
    <2>2. /\ fence' \in Fence /\ fence'.rows = fence.rows \union {s} /\ fence'.receipt = fence.receipt
          /\ fence'.receipted = fence.receipted
      BY <2>1, <1>0 DEF Fence, Slugs
    <2>3. /\ owed' \in [files : SUBSET SkillFile, rows : SUBSET Others] /\ owed'.files = owed.files
          /\ \/ owed'.rows = owed.rows
             \/ /\ owed'.rows = owed.rows \union {s} /\ fence.receipted
                /\ \A c \in Installer : doing[c].pc # "fence"
      BY <1>3, <1>0 DEF AddRow
    <2>4. \A c \in Installer : CommandOK(doing[c], owed')
      BY <2>3 DEF SkillpackInv, CommandOK, Briefed, Permitted, Informed
    <2>5. SkillpackTypeOK' /\ FenceOK' /\ WorkKept'
      BY <2>1, <2>2, <2>3, <1>0 DEF SkillpackInv, SkillpackTypeOK, FenceOK, WorkKept
    <2> QED BY <2>1, <2>4, <2>5 DEF SkillpackInv
  <1> QED BY <1>1, <1>2, <1>3

\* Nothing that people wrote and that gbrain was given no leave to touch is overwritten or
\* removed (installer.ts compares before it writes and has --overwrite-local), whatever the
\* releases hold, the flags are and the commands that steal each other's lock do.
THEOREM WorkKeptHolds == SkillpackSpec => []WorkKept
  <1>1. SkillpackInit => SkillpackInv
    BY SkillpackStarts
  <1>2. SkillpackInv /\ [SkillpackNext]_skillVars => SkillpackInv'
    <2> SUFFICES ASSUME SkillpackInv, [SkillpackNext]_skillVars PROVE SkillpackInv'
      OBVIOUS
    <2>1. CASE UNCHANGED skillVars
      BY <2>1 DEF skillVars, SkillpackInv, SkillpackTypeOK, FenceOK, WorkKept
    <2>2. CASE SkillpackNext
      BY <2>2, PlanKeeps, LockStepsKeep, FileStepsKeep, ReadStepsKeep, WriteFenceKeeps, PeopleKeep
      DEF SkillpackNext
    <2> QED BY <2>1, <2>2
  <1>3. SkillpackInv => WorkKept
    BY DEF SkillpackInv
  <1> QED BY <1>1, <1>2, <1>3, PTL DEF SkillpackSpec

-----------------------------------------------------------------------------
(***************************************************************************)
(* PageStore: a call that nobody overtook leaves rows that agree with the  *)
(* page; one that was overtaken leaves doubt, and the doubt says of which  *)
(* table. Between its read and its last write a call keeps either of the   *)
(* two, for every table it has already written.                            *)
(***************************************************************************)

Vector == Body \union {"none"}
Chunk == [ix : Nat, body : Body, vec : Vector]
Row == [id : Nat, body : Vector, hash : Vector, hidden : {"no", "recent", "old"}]
Call == [pc : {"idle", "write", "link", "revert", "merge", "trim", "upsert"}, body : Vector,
         seen : BOOLEAN, local : BOOLEAN, chunks : SUBSET Chunk, id : Nat, alone : BOOLEAN]

PageTypes ==
    /\ row \in Row /\ chunk \subseteq Chunk /\ born \in Nat
    /\ session \in [Session -> Call] /\ doubt \in {"no", "vectors", "all"} /\ linkless \in BOOLEAN

\* An index is used once, in the table and in what a call holds.
Distinct(cs) == \A c, d \in cs : c.ix = d.ix => c = d
IndexedOnce == Distinct(chunk) /\ \A u \in Session : Distinct(session[u].chunks)

NoOrphans == row.id = 0 => row = NoRow /\ chunk = {}

\* What each call must know, whoever else is at the page.
CallOK(s) ==
    /\ s.pc = "idle" => s = NoSession
    /\ s.pc = "write" => s.body \in Body
    /\ s.pc \in {"upsert", "revert"} => s.id # 0

\* A call that is alone is the only one; one that is not has raised the doubt.
Company ==
    \A u \in Session : session[u].pc # "idle" =>
        IF session[u].alone THEN \A v \in Session \ {u} : session[v].pc = "idle" ELSE doubt = "all"

\* The chunks of a body, none missing and none left over.
CutFrom(cs, b) ==
    /\ \A c \in cs : c.body = b /\ c.ix \in 1..ChunkCount[b]
    /\ \A i \in 1..ChunkCount[b] : \E c \in cs : c.ix = i

TableAgrees ==
    /\ CutFrom(chunk, row.hash)
    /\ doubt = "no" => \A c \in chunk : c.vec \in {"none", row.hash}
    /\ linkless \/ links = row.hash

\* What a call that is alone is about to write is of the text last imported.
CallAgrees(s) ==
    /\ s.pc = "link" => s.body = row.hash
    /\ s.pc \in {"trim", "upsert"} => CutFrom(s.chunks, row.hash) /\ \A c \in s.chunks : c.vec \in {"none", row.hash}
    /\ s.pc = "merge" => \A c \in s.chunks : c.body = row.hash

Agreement == doubt # "all" /\ Exists => row.hash \in Body /\ TableAgrees /\ \A u \in Session : CallAgrees(session[u])

\* A revert has made a version of what it is about to write over.
RevertKeeps ==
    \A u \in Session : session[u].pc = "revert" /\ session[u].alone /\ row.id = session[u].id => row.body \in versions

PageInv ==
    /\ PageTypes /\ IndexedOnce /\ NoOrphans /\ Company /\ Agreement /\ RevertKeeps /\ versions \subseteq Vector
    /\ \A u \in Session : CallOK(session[u])

-----------------------------------------------------------------------------
\* What the statements do to chunks.

LEMMA TrimmedFacts ==
    ASSUME NEW cs \in SUBSET Chunk, NEW new \in SUBSET Chunk, Distinct(cs)
    PROVE  /\ Trimmed(cs, new) \subseteq cs /\ Distinct(Trimmed(cs, new))
           /\ \A b : CutFrom(cs, b) /\ CutFrom(new, b) => Trimmed(cs, new) = cs
  BY DEF Trimmed, Distinct, CutFrom

\* What a new chunk puts in the table: the old one where the text stays and there is no new vector.
PutIn(cs, n) ==
    IF \E c \in cs : c.ix = n.ix /\ c.body = n.body /\ n.vec = "none" THEN CHOOSE c \in cs : c.ix = n.ix ELSE n

LEMMA PutInFacts ==
    ASSUME NEW cs \in SUBSET Chunk, NEW n \in Chunk, Distinct(cs)
    PROVE  /\ PutIn(cs, n) \in Chunk /\ PutIn(cs, n).ix = n.ix /\ PutIn(cs, n).body = n.body
           /\ PutIn(cs, n) = n \/ PutIn(cs, n) \in cs
  <1>1. CASE \E c \in cs : c.ix = n.ix /\ c.body = n.body /\ n.vec = "none"
    <2>1. PICK c \in cs : c.ix = n.ix /\ c.body = n.body
      BY <1>1
    <2>2. (CHOOSE d \in cs : d.ix = n.ix) = c
      BY <2>1 DEF Distinct
    <2> QED BY <1>1, <2>1, <2>2 DEF PutIn
  <1>2. CASE ~\E c \in cs : c.ix = n.ix /\ c.body = n.body /\ n.vec = "none"
    BY <1>2 DEF PutIn
  <1> QED BY <1>1, <1>2

LEMMA UpsertedFacts ==
    ASSUME NEW cs \in SUBSET Chunk, NEW new \in SUBSET Chunk, Distinct(cs), Distinct(new)
    PROVE  /\ Upserted(cs, new) \subseteq Chunk /\ Distinct(Upserted(cs, new))
           /\ \A x \in Upserted(cs, new) :
                \/ x \in cs /\ \A n \in new : n.ix # x.ix
                \/ \E n \in new : x = PutIn(cs, n)
           /\ \A n \in new : PutIn(cs, n) \in Upserted(cs, new)
  <1>1. Upserted(cs, new) = {c \in cs : \A n \in new : n.ix # c.ix} \union {PutIn(cs, n) : n \in new}
    BY DEF Upserted, PutIn
  <1>2. \A x \in Upserted(cs, new) :
          \/ x \in cs /\ \A n \in new : n.ix # x.ix
          \/ \E n \in new : x = PutIn(cs, n)
    BY <1>1
  <1>3. Upserted(cs, new) \subseteq Chunk
    BY <1>2, PutInFacts
  <1>4. \A n \in new : PutIn(cs, n).ix = n.ix
    BY PutInFacts
  <1>5. Distinct(Upserted(cs, new))
    <2> SUFFICES ASSUME NEW x \in Upserted(cs, new), NEW y \in Upserted(cs, new), x.ix = y.ix PROVE x = y
      BY DEF Distinct
    <2>1. CASE \E n \in new : x = PutIn(cs, n)
      BY <2>1, <1>2, <1>4 DEF Distinct
    <2>2. CASE x \in cs /\ \A n \in new : n.ix # x.ix
      BY <2>2, <1>2, <1>4 DEF Distinct
    <2> QED BY <2>1, <2>2, <1>2
  <1>6. \A n \in new : PutIn(cs, n) \in Upserted(cs, new)
    BY <1>1
  <1> QED BY <1>2, <1>3, <1>5, <1>6

\* A whole text upserted over what has no other indices is that text.
LEMMA UpsertedCut ==
    ASSUME NEW cs \in SUBSET Chunk, NEW new \in SUBSET Chunk, Distinct(cs), Distinct(new), NEW b,
           CutFrom(new, b), \A c \in cs : \E n \in new : n.ix = c.ix
    PROVE  /\ CutFrom(Upserted(cs, new), b)
           /\ (\A n \in new : n.vec \in {"none", b}) /\ (\A c \in cs : c.body = b => c.vec \in {"none", b})
                => \A x \in Upserted(cs, new) : x.vec \in {"none", b}
  <1>1. \A x \in Upserted(cs, new) : \E n \in new : x = PutIn(cs, n)
    BY UpsertedFacts
  <1>2. \A n \in new : /\ PutIn(cs, n).ix = n.ix /\ PutIn(cs, n).body = b
                       /\ PutIn(cs, n) = n \/ PutIn(cs, n) \in cs
    BY PutInFacts DEF CutFrom
  <1>3. \A n \in new : PutIn(cs, n) \in Upserted(cs, new)
    BY UpsertedFacts
  <1>4. CutFrom(Upserted(cs, new), b)
    BY <1>1, <1>2, <1>3 DEF CutFrom
  <1> QED BY <1>1, <1>2, <1>4

LEMMA CutFacts ==
    ASSUME NEW b \in Body, NEW vec \in Vector
    PROVE  /\ Cut(b, vec) \subseteq Chunk /\ Distinct(Cut(b, vec)) /\ CutFrom(Cut(b, vec), b)
           /\ \A c \in Cut(b, vec) : c.vec = vec
  <1> DEFINE piece(i) == [ix |-> i, body |-> b, vec |-> vec]
  <1>1. 1..ChunkCount[b] \subseteq Nat
    BY PageAssumption
  <1>2. \A i \in 1..ChunkCount[b] : /\ piece(i) \in Chunk /\ piece(i).ix = i /\ piece(i).body = b /\ piece(i).vec = vec
    BY <1>1 DEF Chunk
  <1>3. Cut(b, vec) = {piece(i) : i \in 1..ChunkCount[b]}
    BY DEF Cut
  <1> HIDE DEF piece
  <1> QED BY <1>2, <1>3 DEF Distinct, CutFrom

LEMMA EmbeddedFacts ==
    ASSUME NEW cs \in SUBSET Chunk, Distinct(cs), NEW ixs
    PROVE  /\ Embedded(cs, ixs) \subseteq Chunk /\ Distinct(Embedded(cs, ixs))
           /\ \A b : CutFrom(cs, b) => CutFrom(Embedded(cs, ixs), b) /\ \A c \in Embedded(cs, ixs) : c.vec \in {"none", b}
  <1> DEFINE e(c) == [c EXCEPT !.vec = IF c.ix \in ixs THEN c.body ELSE "none"]
  <1>1. \A c \in cs : e(c) \in Chunk /\ e(c).ix = c.ix /\ e(c).body = c.body /\ e(c).vec \in {"none", c.body}
    BY DEF Chunk, Vector
  <1>2. Embedded(cs, ixs) = {e(c) : c \in cs}
    BY DEF Embedded
  <1> HIDE DEF e
  <1> QED BY <1>1, <1>2 DEF Distinct, CutFrom

-----------------------------------------------------------------------------

LEMMA PageStarts == PageInit => PageInv
  <1> SUFFICES ASSUME PageInit PROVE PageInv
    OBVIOUS
  <1>1. NoRow \in Row /\ NoSession \in Call /\ NoRow.id = 0 /\ NoSession.pc = "idle" /\ NoSession.chunks = {}
    BY DEF NoRow, NoSession, Row, Call, Vector
  <1>2. PageTypes /\ IndexedOnce /\ NoOrphans
    BY <1>1 DEF PageInit, PageTypes, IndexedOnce, NoOrphans, Distinct
  <1> QED BY <1>1, <1>2 DEF PageInit, PageInv, Company, Agreement, RevertKeeps, CallOK, Exists

LEMMA OnlyCall ==
    ASSUME PageInv, NEW u \in Session, session[u].pc # "idle", session[u].alone \/ doubt # "all"
    PROVE  session[u].alone /\ \A v \in Session \ {u} : session[v].pc = "idle"
  BY DEF PageInv, Company

\* One call goes on or ends; whoever else is there is still in doubt.
LEMMA OneCallMoves ==
    ASSUME PageInv, NEW u \in Session, session[u].pc # "idle", NEW new \in Call,
           session' = [session EXCEPT ![u] = new],
           new.pc = "idle" \/ new.alone = session[u].alone,
           doubt' \in {doubt, "all"} \/ session[u].alone, CallOK(new), Distinct(new.chunks)
    PROVE  /\ session' \in [Session -> Call] /\ Company'
           /\ \A v \in Session : CallOK(session'[v]) /\ Distinct(session'[v].chunks)
           /\ session'[u] = new /\ \A v \in Session \ {u} : session'[v] = session[v]
           /\ doubt # "all" \/ session[u].alone => \A v \in Session \ {u} : CallAgrees(session[v])' /\ session'[v].pc = "idle"
  <1>1. session' \in [Session -> Call] /\ session'[u] = new /\ \A v \in Session \ {u} : session'[v] = session[v]
    BY DEF PageInv, PageTypes
  <1>2. Company'
    BY <1>1 DEF PageInv, Company
  <1>3. \A v \in Session : CallOK(session'[v]) /\ Distinct(session'[v].chunks)
    BY <1>1 DEF PageInv, IndexedOnce
  <1>4. doubt # "all" \/ session[u].alone => \A v \in Session \ {u} : CallAgrees(session[v])' /\ session'[v].pc = "idle"
    BY <1>1, OnlyCall DEF CallAgrees
  <1> QED BY <1>1, <1>2, <1>3, <1>4

LEMMA NoSessionOK ==
    /\ NoSession \in Call /\ NoSession.pc = "idle" /\ NoSession.chunks = {} /\ CallOK(NoSession) /\ Distinct(NoSession.chunks)
    /\ CallAgrees(NoSession)
  BY DEF NoSession, Call, CallOK, CallAgrees, Distinct, Vector

LEMMA BeginsKeeps ==
    ASSUME PageInv, NEW u \in Session, NEW rec \in Call, Begins(u, rec),
           UNCHANGED <<row, chunk, links, born, linkless>>,
           versions \subseteq versions', versions' \subseteq Vector, CallOK(rec), Distinct(rec.chunks),
           Resting /\ doubt # "all" /\ Exists => CallAgrees(rec),
           rec.pc = "revert" => row.body \in versions'
    PROVE  PageInv'
  <1> DEFINE new(v) == IF v = u THEN [rec EXCEPT !.alone = Resting]
                       ELSE IF session[v].pc = "idle" THEN NoSession ELSE [session[v] EXCEPT !.alone = FALSE]
  <1>1. /\ session' = [v \in Session |-> new(v)] /\ doubt' = IF Resting THEN doubt ELSE "all"
        /\ rec.pc # "idle" /\ session[u].pc = "idle"
    BY DEF Begins
  <1>2. /\ new(u) \in Call /\ new(u).pc = rec.pc /\ new(u).body = rec.body /\ new(u).chunks = rec.chunks
        /\ new(u).id = rec.id /\ new(u).alone = Resting
    BY DEF Call, Resting
  <1>3. ASSUME NEW v \in Session, v # u, session[v].pc # "idle"
        PROVE  /\ new(v) \in Call /\ new(v).pc = session[v].pc /\ new(v).body = session[v].body /\ ~new(v).alone
               /\ new(v).chunks = session[v].chunks /\ new(v).id = session[v].id /\ ~Resting
    BY <1>3 DEF PageInv, PageTypes, Call, Resting
  <1>4. ASSUME NEW v \in Session, v # u, session[v].pc = "idle" PROVE new(v) = NoSession
    BY <1>4
  <1> HIDE DEF new
  <1>5. \A v \in Session : new(v) \in Call /\ CallOK(new(v)) /\ Distinct(new(v).chunks)
    <2>1. CallOK(new(u)) /\ Distinct(new(u).chunks)
      BY <1>1, <1>2 DEF CallOK
    <2>2. ASSUME NEW v \in Session, v # u, session[v].pc # "idle" PROVE CallOK(new(v)) /\ Distinct(new(v).chunks)
      BY <2>2, <1>3 DEF CallOK, PageInv, IndexedOnce
    <2> QED BY <2>1, <2>2, <1>2, <1>3, <1>4, NoSessionOK
  <1>6. session' \in [Session -> Call] /\ \A v \in Session : session'[v] = new(v)
    BY <1>1, <1>5
  <1>7. PageTypes' /\ IndexedOnce' /\ NoOrphans' /\ \A v \in Session : CallOK(session'[v])
    BY <1>1, <1>5, <1>6 DEF PageInv, PageTypes, IndexedOnce, NoOrphans
  <1>8. Company'
    <2> SUFFICES ASSUME NEW v \in Session, session'[v].pc # "idle"
                 PROVE  IF session'[v].alone THEN \A w \in Session \ {v} : session'[w].pc = "idle" ELSE doubt' = "all"
      BY DEF Company
    <2>1. CASE Resting
      BY <2>1, <1>1, <1>2, <1>3, <1>4, <1>6, NoSessionOK
    <2>2. CASE ~Resting
      BY <2>2, <1>1, <1>2, <1>3, <1>4, <1>6, NoSessionOK
    <2> QED BY <2>1, <2>2
  <1>9. Agreement'
    <2> SUFFICES ASSUME doubt' # "all", Exists
                 PROVE  row.hash \in Body /\ TableAgrees' /\ \A v \in Session : CallAgrees(session[v])'
      BY DEF Agreement, Exists
    <2>1. Resting /\ doubt' = doubt
      BY <1>1
    <2>2. row.hash \in Body /\ TableAgrees'
      BY <2>1 DEF PageInv, Agreement, TableAgrees
    <2>3. CallAgrees(session[u])'
      BY <2>1, <1>1, <1>2, <1>6 DEF CallAgrees
    <2>4. ASSUME NEW v \in Session, v # u PROVE CallAgrees(session[v])'
      BY <2>1, <2>4, <1>3, <1>4, <1>6, NoSessionOK DEF CallAgrees
    <2> QED BY <2>2, <2>3, <2>4
  <1>10. RevertKeeps'
    <2> SUFFICES ASSUME NEW v \in Session, session'[v].pc = "revert", session'[v].alone, row.id = session'[v].id
                 PROVE  row.body \in versions'
      BY DEF RevertKeeps
    <2> QED BY <1>2, <1>3, <1>4, <1>6, NoSessionOK
  <1> QED BY <1>7, <1>8, <1>9, <1>10 DEF PageInv

\* A call starts to put, to revert or to embed.
LEMMA StartsKeep ==
    ASSUME PageInv, NEW u \in Session,
           \/ \E b \in Body, local \in BOOLEAN : StartPut(u, b, local)
           \/ createVersion(u) \/ embedPage(u) \/ embedAllStale(u)
    PROVE  PageInv'
  <1>0. row \in Row /\ chunk \in SUBSET Chunk /\ Distinct(chunk) /\ versions \subseteq Vector
    BY DEF PageInv, PageTypes, IndexedOnce
  <1>1. ASSUME NEW b \in Body, NEW local \in BOOLEAN, StartPut(u, b, local) PROVE PageInv'
    <2> DEFINE same == getPage /\ row.hash = b
               rec == [NoSession EXCEPT !.body = b, !.seen = getPage, !.local = local,
                                        !.pc = IF ~same THEN "write" ELSE IF local THEN "link" ELSE "idle"]
    <2>1. Begins(u, rec) /\ UNCHANGED <<row, chunk, links, versions, born, linkless>>
      BY <1>1 DEF StartPut
    <2>2. rec \in Call /\ rec.body = b /\ rec.chunks = {} /\ rec.pc \in {"write", "link", "idle"}
          /\ (rec.pc = "link" => row.hash = b)
      BY NoSessionOK DEF NoSession, Call, Vector, getPage, Exists
    <2>3. rec.pc # "idle"
      BY <2>1 DEF Begins
    <2> HIDE DEF rec
    <2>4. CallOK(rec) /\ CallAgrees(rec) /\ Distinct(rec.chunks)
      BY <2>2, <2>3 DEF CallOK, CallAgrees, Distinct
    <2> QED BY <2>1, <2>2, <2>4, <1>0, BeginsKeeps
  <1>2. CASE createVersion(u)
    <2>1. PICK v \in versions' : Begins(u, [NoSession EXCEPT !.pc = "revert", !.body = v, !.id = row.id])
      BY <1>2 DEF createVersion
    <2>2. /\ versions' = versions \union {row.body} /\ row.id # 0 /\ UNCHANGED <<row, chunk, links, born, linkless>>
      BY <1>2 DEF createVersion, Exists
    <2>3. row.body \in Vector /\ row.id \in Nat
      BY <1>0 DEF Row
    <2> DEFINE rec == [NoSession EXCEPT !.pc = "revert", !.body = v, !.id = row.id]
    <2>4. rec \in Call /\ rec.pc = "revert" /\ rec.chunks = {} /\ rec.id = row.id
      BY <2>1, <2>2, <2>3, <1>0, NoSessionOK DEF NoSession, Call
    <2> HIDE DEF rec
    <2>5. CallOK(rec) /\ CallAgrees(rec) /\ Distinct(rec.chunks)
      BY <2>2, <2>4 DEF CallOK, CallAgrees, Distinct
    <2>6. Begins(u, rec)
      BY <2>1 DEF rec
    <2> QED BY <2>2, <2>3, <2>4, <2>5, <2>6, <1>0, BeginsKeeps
  <1>3. CASE embedPage(u)
    <2> DEFINE cs == Embedded(chunk, {c.ix : c \in Unembedded(chunk)})
               rec == [NoSession EXCEPT !.pc = "trim", !.chunks = cs, !.id = row.id]
    <2>1. Begins(u, rec) /\ UNCHANGED <<row, chunk, links, versions, born, linkless>>
      BY <1>3 DEF embedPage
    <2>2. cs \subseteq Chunk /\ Distinct(cs) /\ \A b : CutFrom(chunk, b) => CutFrom(cs, b) /\ \A c \in cs : c.vec \in {"none", b}
      BY <1>0, EmbeddedFacts
    <2> HIDE DEF cs
    <2>3. rec \in Call /\ rec.pc = "trim" /\ rec.chunks = cs
      BY <2>2, <1>0, NoSessionOK DEF NoSession, Call, Row
    <2> HIDE DEF rec
    <2>4. CallOK(rec) /\ (doubt # "all" /\ Exists => CallAgrees(rec))
      BY <2>2, <2>3 DEF CallOK, CallAgrees, PageInv, Agreement, TableAgrees
    <2> QED BY <2>1, <2>2, <2>3, <2>4, <1>0, BeginsKeeps
  <1>4. CASE embedAllStale(u)
    <2> DEFINE rec == [NoSession EXCEPT !.pc = "merge", !.chunks = Unembedded(chunk)]
    <2>1. Begins(u, rec) /\ UNCHANGED <<row, chunk, links, versions, born, linkless>>
      BY <1>4 DEF embedAllStale
    <2>2. Unembedded(chunk) \subseteq chunk
      BY DEF Unembedded
    <2>3. rec \in Call /\ rec.pc = "merge" /\ rec.chunks = Unembedded(chunk)
      BY <2>2, <1>0, NoSessionOK DEF NoSession, Call
    <2> HIDE DEF rec
    <2>4. CallOK(rec) /\ Distinct(rec.chunks) /\ (doubt # "all" /\ Exists => CallAgrees(rec))
      BY <2>2, <2>3, <1>0 DEF CallOK, CallAgrees, PageInv, Agreement, TableAgrees, CutFrom, Distinct
    <2> QED BY <2>1, <2>3, <2>4, <1>0, BeginsKeeps
  <1> QED BY <1>1, <1>2, <1>3, <1>4

\* A call goes on or ends and leaves the page as it is.
LEMMA CallStepsKeep ==
    ASSUME PageInv, NEW u \in Session, session[u].pc # "idle", NEW new \in Call,
           session' = [session EXCEPT ![u] = new], new.pc = "idle" \/ new.alone = session[u].alone,
           new.pc \notin {"revert"}, doubt' \in {doubt, "all"}, CallOK(new), Distinct(new.chunks),
           UNCHANGED <<row, chunk, versions, born>>, linkless' \in BOOLEAN,
           doubt # "all" /\ Exists => CallAgrees(new) /\ TableAgrees'
    PROVE  PageInv'
  <1>1. /\ session' \in [Session -> Call] /\ Company'
        /\ \A v \in Session : CallOK(session'[v]) /\ Distinct(session'[v].chunks)
        /\ session'[u] = new /\ \A v \in Session \ {u} : session'[v] = session[v]
        /\ doubt # "all" => \A v \in Session \ {u} : CallAgrees(session[v])'
    BY OneCallMoves
  <1>2. PageTypes' /\ IndexedOnce' /\ NoOrphans'
    BY <1>1 DEF PageInv, PageTypes, IndexedOnce, NoOrphans
  <1>3. Agreement'
    BY <1>1 DEF PageInv, Agreement, Exists, CallAgrees
  <1>4. RevertKeeps'
    BY <1>1 DEF PageInv, RevertKeeps
  <1> QED BY <1>1, <1>2, <1>3, <1>4 DEF PageInv

LEMMA EndsKeep ==
    ASSUME PageInv, NEW u \in Session, PutFails(u) \/ runAutoLink(u) \/ Interrupt(u)
    PROVE  PageInv'
  <1>1. /\ session[u].pc # "idle" /\ session' = [session EXCEPT ![u] = NoSession] /\ doubt' \in {doubt, "all"}
        /\ UNCHANGED <<row, chunk, versions, born>>
    BY DEF PutFails, runAutoLink, Interrupt, Ends
  <1>2. linkless' \in BOOLEAN
    BY DEF PutFails, runAutoLink, Interrupt, PageInv, PageTypes
  <1>3. ASSUME doubt # "all", Exists PROVE TableAgrees'
    <2>1. doubt' = "no" => doubt = "no"
      BY <1>1
    <2>2. CASE runAutoLink(u)
      <3>1. session[u].pc = "link" /\ links' = session[u].body
        BY <1>3, <2>2 DEF runAutoLink
      <3>2. session[u].body = row.hash
        BY <1>3, <3>1 DEF PageInv, Agreement, CallAgrees
      <3> QED BY <1>1, <1>3, <2>1, <3>1, <3>2 DEF PageInv, Agreement, TableAgrees
    <2>3. CASE PutFails(u) \/ Interrupt(u)
      BY <1>1, <1>3, <2>1, <2>3 DEF PutFails, Interrupt, PageInv, Agreement, TableAgrees
    <2> QED BY <2>2, <2>3
  <1> QED BY <1>1, <1>2, <1>3, NoSessionOK, CallStepsKeep

LEMMA MergeKeeps ==
    ASSUME PageInv, NEW u \in Session, Merge(u)
    PROVE  PageInv'
  <1> DEFINE stale == session[u].chunks
             VectorOf(i) == IF \E c \in stale : c.ix = i THEN (CHOOSE c \in stale : c.ix = i).body ELSE "none"
             e(c) == [c EXCEPT !.vec = VectorOf(c.ix)]
             cs == {e(c) : c \in chunk}
             new == [session[u] EXCEPT !.pc = "trim", !.id = row.id, !.chunks = cs]
  <1>1. /\ session[u].pc = "merge" /\ session' = [session EXCEPT ![u] = new]
        /\ UNCHANGED <<row, chunk, links, versions, born, doubt, linkless>>
    BY DEF Merge
  <1>2. chunk \subseteq Chunk /\ Distinct(chunk) /\ stale \subseteq Chunk /\ session[u] \in Call /\ row \in Row
    BY DEF PageInv, PageTypes, IndexedOnce, Call
  <1>3. \A i : VectorOf(i) = "none" \/ \E c \in stale : VectorOf(i) = c.body
    OBVIOUS
  <1>4. \A i : VectorOf(i) \in Vector
    BY <1>2, <1>3 DEF Chunk, Vector
  <1> HIDE DEF VectorOf, stale
  <1>5. \A c \in chunk : e(c) \in Chunk /\ e(c).ix = c.ix /\ e(c).body = c.body /\ e(c).vec = VectorOf(c.ix)
    BY <1>2, <1>4 DEF Chunk
  <1> HIDE DEF e
  <1>6. cs \subseteq Chunk /\ Distinct(cs) /\ \A b : CutFrom(chunk, b) => CutFrom(cs, b)
    BY <1>2, <1>5 DEF Distinct, CutFrom
  <1>7. ASSUME doubt # "all", Exists PROVE \A c \in cs : c.vec \in {"none", row.hash}
    <2>1. \A c \in stale : c.body = row.hash
      BY <1>1, <1>7 DEF stale, PageInv, Agreement, CallAgrees
    <2> QED BY <2>1, <1>3, <1>5
  <1> HIDE DEF cs
  <1>8. new \in Call /\ new.pc = "trim" /\ new.chunks = cs /\ new.alone = session[u].alone
    BY <1>2, <1>6 DEF Call, Row
  <1> HIDE DEF new
  <1>9. CallOK(new) /\ Distinct(new.chunks)
    BY <1>6, <1>8 DEF CallOK
  <1>10. ASSUME doubt # "all", Exists PROVE CallAgrees(new) /\ TableAgrees'
    <2>1. TableAgrees
      BY <1>10 DEF PageInv, Agreement
    <2> QED BY <2>1, <1>1, <1>6, <1>7, <1>8, <1>10 DEF CallAgrees, TableAgrees
  <1> QED BY <1>1, <1>8, <1>9, <1>10, CallStepsKeep DEF PageInv, PageTypes

LEMMA TrimKeeps ==
    ASSUME PageInv, NEW u \in Session, TrimChunks(u)
    PROVE  PageInv'
  <1>1. session[u].pc = "trim" /\ UNCHANGED <<row, links, versions, born, doubt, linkless>>
    BY DEF TrimChunks
  <1>2. chunk \in SUBSET Chunk /\ Distinct(chunk) /\ session[u] \in Call /\ session[u].chunks \in SUBSET Chunk
        /\ Distinct(session[u].chunks) /\ row \in Row /\ linkless \in BOOLEAN
    BY DEF PageInv, PageTypes, IndexedOnce, Call
  <1>3. CASE Exists
    <2> DEFINE new == [session[u] EXCEPT !.pc = "upsert", !.id = row.id]
    <2>1. session' = [session EXCEPT ![u] = new] /\ chunk' = Trimmed(chunk, session[u].chunks)
      BY <1>3 DEF TrimChunks
    <2>2. new \in Call /\ new.pc = "upsert" /\ new.chunks = session[u].chunks /\ new.alone = session[u].alone /\ new.id = row.id
      BY <1>2 DEF Call, Row
    <2> HIDE DEF new
    <2>3. CallOK(new)
      BY <2>2, <1>3 DEF CallOK, Exists
    <2>4. /\ session' \in [Session -> Call] /\ Company'
          /\ \A v \in Session : CallOK(session'[v]) /\ Distinct(session'[v].chunks)
          /\ session'[u] = new /\ \A v \in Session \ {u} : session'[v] = session[v]
          /\ doubt # "all" => \A v \in Session \ {u} : CallAgrees(session[v])'
      BY <1>1, <1>2, <2>1, <2>2, <2>3, OneCallMoves
    <2>5. chunk' \subseteq chunk /\ Distinct(chunk')
      BY <1>2, <2>1, TrimmedFacts
    <2>6. PageTypes' /\ IndexedOnce' /\ NoOrphans'
      BY <1>1, <1>3, <2>4, <2>5 DEF PageInv, PageTypes, IndexedOnce, NoOrphans, Exists
    <2>7. Agreement'
      <3> SUFFICES ASSUME doubt # "all" PROVE row.hash \in Body /\ TableAgrees' /\ CallAgrees(session[u])'
        BY <1>1, <2>4 DEF Agreement
      <3>1. TableAgrees /\ CallAgrees(session[u]) /\ row.hash \in Body
        BY <1>3 DEF PageInv, Agreement
      <3>2. chunk' = chunk
        BY <1>1, <1>2, <2>1, <3>1, TrimmedFacts DEF TableAgrees, CallAgrees
      <3>3. TableAgrees'
        BY <1>1, <3>1, <3>2 DEF TableAgrees
      <3> QED BY <1>1, <2>2, <2>4, <3>1, <3>3 DEF CallAgrees
    <2>8. RevertKeeps'
      BY <1>1, <2>2, <2>4 DEF PageInv, RevertKeeps
    <2> QED BY <1>1, <2>4, <2>6, <2>7, <2>8 DEF PageInv
  <1>4. CASE ~Exists
    <2>1. session' = [session EXCEPT ![u] = NoSession] /\ UNCHANGED chunk
      BY <1>4 DEF TrimChunks, Ends
    <2> QED BY <1>1, <1>2, <1>4, <2>1, NoSessionOK, CallStepsKeep
  <1> QED BY <1>3, <1>4

LEMMA UpsertKeeps ==
    ASSUME PageInv, NEW u \in Session, UpsertChunks(u)
    PROVE  PageInv'
  <1> DEFINE new == session[u].chunks
  <1>1. /\ session[u].pc = "upsert" /\ session' = [session EXCEPT ![u] = NoSession]
        /\ UNCHANGED <<row, links, versions, born, doubt, linkless>>
        /\ chunk' = IF row.id = session[u].id THEN Upserted(chunk, new) ELSE chunk
    BY DEF UpsertChunks, Ends
  <1>2. chunk \in SUBSET Chunk /\ Distinct(chunk) /\ new \in SUBSET Chunk /\ Distinct(new) /\ linkless \in BOOLEAN
        /\ session[u].id # 0
    BY <1>1 DEF PageInv, PageTypes, IndexedOnce, Call, CallOK
  <1>3. CASE row.id = session[u].id
    <2>1. chunk' = Upserted(chunk, new) /\ Exists
      BY <1>1, <1>2, <1>3 DEF Exists
    <2>2. chunk' \subseteq Chunk /\ Distinct(chunk')
      BY <1>2, <2>1, UpsertedFacts
    <2>3. /\ session' \in [Session -> Call] /\ Company'
          /\ \A v \in Session : CallOK(session'[v]) /\ Distinct(session'[v].chunks)
          /\ session'[u] = NoSession /\ \A v \in Session \ {u} : session'[v] = session[v]
          /\ doubt # "all" => \A v \in Session \ {u} : CallAgrees(session[v])'
      BY <1>1, NoSessionOK, OneCallMoves
    <2>4. PageTypes' /\ IndexedOnce' /\ NoOrphans'
      BY <1>1, <2>1, <2>2, <2>3 DEF PageInv, PageTypes, IndexedOnce, NoOrphans, Exists
    <2>5. Agreement'
      <3> SUFFICES ASSUME doubt # "all" PROVE row.hash \in Body /\ TableAgrees' /\ CallAgrees(session[u])'
        BY <1>1, <2>3 DEF Agreement
      <3>1. row.hash \in Body /\ TableAgrees /\ CutFrom(new, row.hash) /\ \A c \in new : c.vec \in {"none", row.hash}
        BY <1>1, <2>1 DEF PageInv, Agreement, CallAgrees
      <3>2. \A c \in chunk : \E n \in new : n.ix = c.ix
        BY <3>1 DEF TableAgrees, CutFrom
      <3>3. CutFrom(chunk', row.hash)
        BY <1>2, <2>1, <3>1, <3>2, UpsertedCut
      <3>4. doubt = "no" => \A c \in chunk' : c.vec \in {"none", row.hash}
        BY <1>2, <2>1, <3>1, <3>2, UpsertedCut DEF TableAgrees
      <3>5. TableAgrees'
        BY <1>1, <3>1, <3>3, <3>4 DEF TableAgrees
      <3> QED BY <2>3, <3>1, <3>5, NoSessionOK DEF CallAgrees
    <2>6. RevertKeeps'
      BY <1>1, <2>3, NoSessionOK DEF PageInv, RevertKeeps
    <2> QED BY <1>1, <2>3, <2>4, <2>5, <2>6 DEF PageInv
  <1>4. CASE row.id # session[u].id
    <2>1. chunk' = chunk /\ (doubt # "all" /\ Exists => TableAgrees')
      BY <1>1, <1>4 DEF PageInv, Agreement, TableAgrees
    <2> QED BY <1>1, <1>2, <2>1, NoSessionOK, CallStepsKeep
  <1> QED BY <1>3, <1>4

LEMMA PutKeeps ==
    ASSUME PageInv, NEW u \in Session, putPage(u)
    PROVE  PageInv'
  <1> DEFINE me == session[u]
             new == IF me.local THEN [me EXCEPT !.pc = "link"] ELSE NoSession
  <1>1. /\ me.pc = "write" /\ session' = [session EXCEPT ![u] = new] /\ links' = links /\ linkless' = TRUE
        /\ row' = [row EXCEPT !.body = me.body, !.hash = me.body, !.id = IF Exists THEN @ ELSE born + 1]
        /\ born' = IF Exists THEN born ELSE born + 1
        /\ versions' = IF me.seen THEN versions \union {row.body} ELSE versions
        /\ doubt' = IF me.alone /\ doubt = "all" THEN "vectors" ELSE doubt
    BY DEF putPage, Goes, Ends
  <1>2. PICK vec \in {"none", me.body} :
          chunk' = Upserted(Trimmed(chunk, Cut(me.body, vec)), Cut(me.body, vec))
    BY DEF putPage
  <1>3. chunk \in SUBSET Chunk /\ Distinct(chunk) /\ row \in Row /\ versions \subseteq Vector /\ born \in Nat
        /\ me \in Call /\ me.body \in Body /\ me.body \in Vector /\ vec \in Vector /\ doubt \in {"no", "vectors", "all"}
    BY <1>1 DEF PageInv, PageTypes, IndexedOnce, CallOK, Vector
  <1> DEFINE cut == Cut(me.body, vec)
             kept == Trimmed(chunk, cut)
  <1>4. /\ row' \in Row /\ row'.body = me.body /\ row'.hash = me.body /\ row'.id # 0 /\ born' \in Nat
        /\ row'.id = IF Exists THEN row.id ELSE born + 1
    <2> DEFINE i == IF Exists THEN row.id ELSE born + 1
    <2>1. i \in Nat /\ i # 0
      BY <1>3 DEF Row, Exists
    <2>2. row' = [row EXCEPT !.body = me.body, !.hash = me.body, !.id = i] /\ born' \in Nat
      BY <1>1, <1>3
    <2> HIDE DEF i, me
    <2>3. row' \in Row /\ row'.body = me.body /\ row'.hash = me.body /\ row'.id = i
      BY <2>1, <2>2, <1>3 DEF Row
    <2> QED BY <2>1, <2>2, <2>3 DEF i
  <1>5. new \in Call /\ (new.pc = "idle" \/ new.alone = me.alone) /\ new.pc \in {"idle", "link"} /\ (new.pc = "link" => new.body = me.body)
        /\ CallOK(new) /\ Distinct(new.chunks)
    <2>1. CASE me.local
      <3>1. new \in Call /\ new.pc = "link" /\ new.body = me.body /\ new.alone = me.alone /\ new.chunks = me.chunks
        BY <2>1, <1>3 DEF Call
      <3>2. Distinct(me.chunks)
        BY DEF PageInv, IndexedOnce
      <3> QED BY <3>1, <3>2 DEF CallOK
    <2>2. CASE ~me.local
      BY <2>2, NoSessionOK
    <2> QED BY <2>1, <2>2
  <1>6. cut \in SUBSET Chunk /\ Distinct(cut) /\ CutFrom(cut, me.body) /\ \A c \in cut : c.vec \in {"none", me.body}
    BY <1>3, CutFacts
  <1>7. kept \in SUBSET Chunk /\ kept \subseteq chunk /\ Distinct(kept) /\ \A c \in kept : \E n \in cut : n.ix = c.ix
    BY <1>3, <1>6, TrimmedFacts DEF Trimmed
  <1> HIDE DEF cut, kept, me, new
  <1>8. chunk' = Upserted(kept, cut)
    BY <1>2 DEF kept, cut
  <1>9. chunk' \subseteq Chunk /\ Distinct(chunk') /\ CutFrom(chunk', me.body)
    BY <1>6, <1>7, <1>8, UpsertedFacts, UpsertedCut
  <1>10. /\ session' \in [Session -> Call] /\ Company'
         /\ \A v \in Session : CallOK(session'[v]) /\ Distinct(session'[v].chunks)
         /\ session'[u] = new /\ \A v \in Session \ {u} : session'[v] = session[v]
         /\ doubt # "all" \/ me.alone => \A v \in Session \ {u} : CallAgrees(session[v])' /\ session'[v].pc = "idle"
    BY <1>1, <1>5, OneCallMoves DEF me
  <1>11. PageTypes' /\ IndexedOnce' /\ NoOrphans'
    BY <1>1, <1>3, <1>4, <1>9, <1>10 DEF PageTypes, IndexedOnce, NoOrphans
  <1>12. Agreement'
    <2> SUFFICES ASSUME doubt' # "all" PROVE TableAgrees' /\ \A v \in Session : CallAgrees(session[v])'
      BY <1>3, <1>4 DEF Agreement
    <2>1. doubt # "all" \/ me.alone
      BY <1>1
    <2>2. \A v \in Session \ {u} : CallAgrees(session[v])'
      BY <2>1, <1>10
    <2>3. CallAgrees(session[u])'
      BY <1>4, <1>5, <1>10 DEF CallAgrees
    <2>4. ASSUME doubt' = "no" PROVE \A c \in chunk' : c.vec \in {"none", me.body}
      <3>1. doubt = "no"
        BY <1>1, <2>4
      <3>2. \A c \in kept : c.body = me.body => c.vec \in {"none", me.body}
        <4>1. CASE Exists
          BY <3>1, <4>1, <1>7 DEF PageInv, Agreement, TableAgrees, CutFrom
        <4>2. CASE ~Exists
          BY <4>2, <1>7 DEF PageInv, NoOrphans, Exists
        <4> QED BY <4>1, <4>2
      <3> QED BY <3>2, <1>6, <1>7, <1>8, UpsertedCut
    <2> QED BY <2>2, <2>3, <2>4, <1>1, <1>4, <1>9 DEF TableAgrees
  <1>13. RevertKeeps'
    <2> SUFFICES ASSUME NEW v \in Session, session'[v].pc = "revert", session'[v].alone PROVE FALSE
      BY DEF RevertKeeps
    <2>1. v # u /\ session[v].pc = "revert" /\ session[v].alone
      BY <1>5, <1>10
    <2> QED BY <2>1, <1>1 DEF me, PageInv, Company
  <1>14. versions' \subseteq Vector
    BY <1>1, <1>3 DEF Row
  <1> QED BY <1>10, <1>11, <1>12, <1>13, <1>14 DEF PageInv

LEMMA RevertStepKeeps ==
    ASSUME PageInv, NEW u \in Session, revertToVersion(u)
    PROVE  PageInv'
  <1>1. /\ session[u].pc = "revert" /\ session' = [session EXCEPT ![u] = NoSession]
        /\ row' = IF row.id = session[u].id THEN [row EXCEPT !.body = session[u].body] ELSE row
        /\ UNCHANGED <<chunk, links, versions, born, doubt, linkless>>
    BY DEF revertToVersion, Ends
  <1>2. row \in Row /\ session[u].body \in Vector /\ session[u].id # 0
    BY <1>1 DEF PageInv, PageTypes, Call, CallOK
  <1>3. row' \in Row /\ row'.id = row.id /\ row'.hash = row.hash /\ (row.id = 0 => row' = row)
    BY <1>1, <1>2 DEF Row
  <1>4. /\ session' \in [Session -> Call] /\ Company'
        /\ \A v \in Session : CallOK(session'[v]) /\ Distinct(session'[v].chunks)
        /\ session'[u] = NoSession /\ \A v \in Session \ {u} : session'[v] = session[v]
        /\ doubt # "all" => \A v \in Session \ {u} : CallAgrees(session[v])'
    BY <1>1, NoSessionOK, OneCallMoves
  <1>5. PageTypes' /\ IndexedOnce' /\ NoOrphans'
    BY <1>1, <1>3, <1>4 DEF PageInv, PageTypes, IndexedOnce, NoOrphans
  <1>6. Agreement'
    <2> SUFFICES ASSUME doubt # "all", Exists PROVE row'.hash \in Body /\ TableAgrees' /\ CallAgrees(session[u])'
      BY <1>1, <1>3, <1>4 DEF Agreement, Exists
    <2> QED BY <1>1, <1>3, <1>4, NoSessionOK DEF PageInv, Agreement, TableAgrees, CallAgrees
  <1>7. RevertKeeps'
    <2> SUFFICES ASSUME NEW v \in Session, session'[v].pc = "revert", session'[v].alone PROVE FALSE
      BY DEF RevertKeeps
    <2>1. v # u /\ session[v].pc = "revert" /\ session[v].alone
      BY <1>4, NoSessionOK
    <2> QED BY <2>1, <1>1 DEF PageInv, Company
  <1> QED BY <1>1, <1>4, <1>5, <1>6, <1>7 DEF PageInv

\* The page is hidden, shown again or grows old.
LEMMA HidingKeeps ==
    ASSUME PageInv, delete_page \/ restore_page \/ HoursPass
    PROVE  PageInv'
  <1>1. PICK hidden \in {"no", "recent", "old"} : row' = [row EXCEPT !.hidden = hidden]
    BY DEF delete_page, restore_page, HoursPass
  <1>2. row.id # 0
    BY DEF delete_page, restore_page, HoursPass, getPage, Exists, PageInv, NoOrphans, NoRow
  <1>3. row \in Row /\ UNCHANGED <<chunk, links, versions, born, session, doubt, linkless>>
    BY DEF delete_page, restore_page, HoursPass, PageInv, PageTypes
  <1>4. row' \in Row /\ row'.id = row.id /\ row'.hash = row.hash /\ row'.body = row.body
    BY <1>1, <1>3 DEF Row
  <1>5. PageTypes' /\ IndexedOnce' /\ NoOrphans' /\ Company' /\ RevertKeeps'
    BY <1>2, <1>3, <1>4 DEF PageInv, PageTypes, IndexedOnce, NoOrphans, Company, RevertKeeps
  <1>6. Agreement'
    BY <1>3, <1>4 DEF PageInv, Agreement, Exists, TableAgrees, CallAgrees
  <1> QED BY <1>3, <1>5, <1>6 DEF PageInv

LEMMA VanishKeeps ==
    ASSUME PageInv, Vanish
    PROVE  PageInv'
  <1>1. /\ row' = NoRow /\ chunk' = {} /\ versions' = {} /\ UNCHANGED <<born, session, linkless>>
        /\ doubt' = IF Resting THEN "no" ELSE doubt
    BY DEF Vanish
  <1>2. NoRow \in Row /\ NoRow.id = 0
    BY DEF NoRow, Row, Vector
  <1>3. PageTypes' /\ IndexedOnce' /\ NoOrphans'
    BY <1>1, <1>2 DEF PageInv, PageTypes, IndexedOnce, NoOrphans, Distinct
  <1>4. Company'
    BY <1>1 DEF PageInv, Company, Resting
  <1>5. Agreement' /\ RevertKeeps'
    BY <1>1, <1>2 DEF PageInv, Agreement, Exists, RevertKeeps, CallOK
  <1> QED BY <1>1, <1>3, <1>4, <1>5 DEF PageInv

LEMMA PageStepsKeep == PageInv /\ [PageNext]_pageVars => PageInv'
  <1> SUFFICES ASSUME PageInv, [PageNext]_pageVars PROVE PageInv'
    OBVIOUS
  <1>1. CASE UNCHANGED pageVars
    BY <1>1 DEF pageVars, PageInv, PageTypes, IndexedOnce, NoOrphans, Company, Agreement, RevertKeeps, TableAgrees,
                CallAgrees, Exists
  <1>2. ASSUME NEW u \in Session, PageStep(u) PROVE PageInv'
    BY <1>2, StartsKeep, PutKeeps, EndsKeep, RevertStepKeeps, MergeKeeps, TrimKeeps, UpsertKeeps DEF PageStep
  <1>3. CASE delete_page \/ restore_page \/ HoursPass \/ purgeDeletedPages \/ deletePage
    BY <1>3, HidingKeeps, VanishKeeps DEF purgeDeletedPages, deletePage
  <1> QED BY <1>1, <1>2, <1>3 DEF PageNext

\* Search does not show what is not in the text, nor miss what is: when no call is under way, and
\* none overlapped since the last write that was alone, the chunks, vectors and links
\* (content_chunks, links) are those of the text last imported.
THEOREM DerivedAgreeHolds == PageSpec => []DerivedAgree
  <1>1. PageInv => DerivedAgree
    <2> SUFFICES ASSUME PageInv, Exists, doubt # "all" PROVE
          /\ {[ix |-> c.ix, body |-> c.body] : c \in chunk} = {[ix |-> i, body |-> row.hash] : i \in 1..ChunkCount[row.hash]}
          /\ doubt = "no" => \A c \in chunk : c.vec \in {"none", row.hash}
          /\ linkless \/ links = row.hash
      BY DEF DerivedAgree
    <2>1. TableAgrees
      BY DEF PageInv, Agreement
    <2> QED BY <2>1 DEF TableAgrees, CutFrom
  <1> QED BY <1>1, PageStarts, PageStepsKeep, PTL DEF PageSpec

\* Of a step that writes over the text of a page, the text is in page_versions: a put that saw the
\* page makes a version before it writes (importFromContent), and so does revert_version, which
\* writes later; only a put that is at it meanwhile comes between.
THEOREM OverwrittenIsKeptHolds == PageSpec => OverwrittenIsKept
  <1> DEFINE Kept == \A u \in Session :
         /\ row'.id = row.id /\ row'.body # row.body
         /\ session[u] # session'[u] /\ session[u].alone /\ (session[u].seen \/ session[u].pc = "revert")
         => row.body \in versions'
  <1>1. PageInv /\ PageNext => Kept
    <2> SUFFICES ASSUME PageInv, PageNext, row'.id = row.id, row'.body # row.body, NEW u \in Session,
                        session[u] # session'[u], session[u].alone, session[u].seen \/ session[u].pc = "revert"
                 PROVE  row.body \in versions'
      OBVIOUS
    <2>1. PICK v \in Session : PageStep(v)
      <3>1. delete_page \/ restore_page \/ HoursPass \/ purgeDeletedPages \/ deletePage => session' = session
        BY DEF delete_page, restore_page, HoursPass, purgeDeletedPages, deletePage, Vanish
      <3> QED BY <3>1 DEF PageNext
    <2>2. putPage(v) \/ revertToVersion(v)
      BY <2>1 DEF PageStep, StartPut, PutFails, runAutoLink, createVersion, embedPage, embedAllStale, Merge, TrimChunks,
                  UpsertChunks, Interrupt
    <2>3. v = u
      BY <2>2 DEF putPage, revertToVersion, Goes, Ends, PageInv, PageTypes
    <2>4. CASE putPage(u)
      BY <2>4 DEF putPage
    <2>5. CASE revertToVersion(u)
      BY <2>5 DEF revertToVersion, PageInv, RevertKeeps
    <2> QED BY <2>2, <2>3, <2>4, <2>5
  <1>2. PageInv /\ [PageNext]_pageVars => [Kept]_pageVars
    BY <1>1
  <1> HIDE DEF Kept
  <1>3. PageSpec => [][Kept]_pageVars
    BY <1>2, PageStarts, PageStepsKeep, PTL DEF PageSpec
  <1> QED BY <1>3 DEF Kept, OverwrittenIsKept

-----------------------------------------------------------------------------
(***************************************************************************)
(* BudgetLedger: the cap of a day holds for any callers, estimates, costs, *)
(* reservations and days. Sums are counted: a reservation stands for as    *)
(* many pairs as it has units, and so does a paid call for what it cost;   *)
(* on a covered day the pairs of the calls are among those of the          *)
(* reservations, whose number is in the row of the day.                    *)
(***************************************************************************)

Statuses == {"none", "held", "committed", "rolled_back"}
Cap == Nat \union {NoCap}

DayRow == [there : BOOLEAN, reserved : Nat, committed : Nat, cap : Cap]
ReservationRow == [status : Statuses, day : Day, estimate : Nat, expired : BOOLEAN]
CallRecord == [pc : {"idle", "reclaim", "sweep", "held", "paid", "failed"}, day : Day, estimate : Nat, cap : Cap,
         todo : SUBSET Reservation, id : 0..MaxReservations, cost : Nat]

BudgetTypeOK ==
    /\ budget \in [Day -> DayRow] /\ reservation \in [Reservation -> ReservationRow]
    /\ spender \in [Spender -> CallRecord] /\ today \in Day
    /\ spent \in [Day -> Nat] /\ uncovered \in SUBSET Day

\* Sums are counted: a reservation of n units stands for n pairs, and so does a call that cost n.
Units(r, n) == {r} \X (1..n)
HeldOn(d) == {r \in Reservation : Held(r) /\ reservation[r].day = d}
HeldUnits(d) == UNION {Units(r, reservation[r].estimate) : r \in HeldOn(d)}
PaidOn(d) == {c \in Spender : spender[c].pc = "paid" /\ spender[c].day = d}
PaidUnits(d) == UNION {Units(spender[c].id, spender[c].cost) : c \in PaidOn(d)}

\* Ids are given out in order, each with a row of its day.
MadeInOrder == \E n \in 0..MaxReservations : \A r \in Reservation : reservation[r].status = "none" <=> r > n
RowThere == \A r \in Reservation : reservation[r].status # "none" => budget[reservation[r].day].there
RowFresh == \A d \in Day : ~budget[d].there => budget[d].reserved = 0 /\ budget[d].committed = 0

\* A call is about one reservation that was made for it, and no other call is.
Calling(c) == spender[c].pc \in {"held", "paid", "failed"}
OwnReservation ==
    /\ \A c \in Spender : Calling(c) =>
         /\ spender[c].id \in Reservation /\ reservation[spender[c].id].status # "none"
         /\ reservation[spender[c].id].day = spender[c].day
    /\ \A b, c \in Spender : Calling(b) /\ Calling(c) /\ spender[b].id = spender[c].id => b = c

ReservedCounts ==
    \A d \in Day : IsFiniteSet(HeldUnits(d)) /\ budget[d].reserved = Cardinality(HeldUnits(d))
WithinCap == \A d \in Day : budget[d].cap # NoCap => budget[d].committed + budget[d].reserved <= budget[d].cap

\* On a covered day what has been spent is committed, or paid under a reservation that holds it.
SpentCounts ==
    \A d \in Day \ uncovered :
      /\ \A c \in PaidOn(d) : Held(spender[c].id) /\ spender[c].cost <= reservation[spender[c].id].estimate
      /\ spent[d] = budget[d].committed + Cardinality(PaidUnits(d))

BudgetInv ==
    /\ BudgetTypeOK /\ MadeInOrder /\ RowThere /\ RowFresh
    /\ OwnReservation /\ ReservedCounts /\ WithinCap /\ SpentCounts

-----------------------------------------------------------------------------
(* Counting.                                                               *)

LEMMA UnitsCount ==
    ASSUME NEW r, NEW n \in Nat
    PROVE  IsFiniteSet(Units(r, n)) /\ Cardinality(Units(r, n)) = n
  <1>1. IsFiniteSet({r}) /\ Cardinality({r}) = 1
    BY FS_Singleton
  <1>2. IsFiniteSet(1..n) /\ Cardinality(1..n) = n
    BY FS_Interval
  <1>3. IsFiniteSet({r} \X (1..n)) /\ Cardinality({r} \X (1..n)) = Cardinality({r}) * Cardinality(1..n)
    BY <1>1, <1>2, FS_Product, Zenon
  <1> QED  BY <1>1, <1>2, <1>3 DEF Units

LEMMA Together ==
    ASSUME NEW S, NEW T, IsFiniteSet(S), IsFiniteSet(T), S \cap T = {}
    PROVE  /\ IsFiniteSet(S \union T)
           /\ Cardinality(S \union T) = Cardinality(S) + Cardinality(T)
           /\ Cardinality(S) \in Nat /\ Cardinality(T) \in Nat
  <1>1. Cardinality(S) \in Nat /\ Cardinality(T) \in Nat /\ Cardinality(S \cap T) = 0
    BY FS_CardinalityType, FS_EmptySet
  <1>2. IsFiniteSet(S \union T) /\ Cardinality(S \union T) = Cardinality(S) + Cardinality(T) - Cardinality(S \cap T)
    BY FS_Union
  <1> QED  BY <1>1, <1>2

LEMMA Apart ==
    ASSUME NEW S, NEW T, IsFiniteSet(S), T \subseteq S
    PROVE  /\ IsFiniteSet(S \ T) /\ IsFiniteSet(T)
           /\ Cardinality(S \ T) = Cardinality(S) - Cardinality(T) /\ Cardinality(T) <= Cardinality(S)
           /\ Cardinality(S) \in Nat /\ Cardinality(T) \in Nat
  <1>1. IsFiniteSet(T) /\ Cardinality(T) <= Cardinality(S)
    BY FS_Subset
  <1>2. S \cap T = T
    OBVIOUS
  <1>3. IsFiniteSet(S \ T) /\ Cardinality(S \ T) = Cardinality(S) - Cardinality(S \cap T)
    BY FS_Difference
  <1> QED  BY <1>1, <1>2, <1>3, FS_CardinalityType

LEMMA InUnits == \A x, r, n : x \in Units(r, n) <=> \E k \in 1..n : x = <<r, k>>
  BY DEF Units

LEMMA UnitsDiffer == \A x, r, n, s, m : x \in Units(r, n) /\ x \in Units(s, m) => r = s
  BY DEF Units

LEMMA UnitsGrow == \A r : \A n, m \in Nat : n <= m => Units(r, n) \subseteq Units(r, m)
  BY DEF Units

LEMMA InHeldUnits ==
    \A d, x : x \in HeldUnits(d) <=>
      \E r \in Reservation : Held(r) /\ reservation[r].day = d /\ x \in Units(r, reservation[r].estimate)
  BY DEF HeldUnits, HeldOn

LEMMA InPaidUnits ==
    \A d, x : x \in PaidUnits(d) <=>
      \E c \in Spender : spender[c].pc = "paid" /\ spender[c].day = d /\ x \in Units(spender[c].id, spender[c].cost)
  BY DEF PaidUnits, PaidOn

LEMMA LedgerRows ==
    ASSUME BudgetTypeOK
    PROVE  /\ \A d \in Day : /\ budget[d].there \in BOOLEAN /\ budget[d].reserved \in Nat
                             /\ budget[d].committed \in Nat /\ budget[d].cap \in Cap /\ spent[d] \in Nat
           /\ \A r \in Reservation : /\ reservation[r].status \in Statuses /\ reservation[r].day \in Day
                                     /\ reservation[r].estimate \in Nat /\ reservation[r].expired \in BOOLEAN
           /\ \A c \in Spender : /\ spender[c].day \in Day /\ spender[c].estimate \in Nat /\ spender[c].cap \in Cap
                                 /\ spender[c].todo \in SUBSET Reservation /\ spender[c].id \in 0..MaxReservations
                                 /\ spender[c].cost \in Nat
  BY DEF BudgetTypeOK, DayRow, ReservationRow, CallRecord

LEMMA IdleIsCall == NoCall \in CallRecord /\ ~(NoCall.pc \in {"held", "paid", "failed"})
  BY BudgetAssumption DEF NoCall, CallRecord, Cap, Day

\* What is paid on a covered day is part of what is held.
LEMMA PaidIsHeld ==
    ASSUME BudgetInv, NEW d \in Day \ uncovered
    PROVE  PaidUnits(d) \subseteq HeldUnits(d)
  <1> SUFFICES ASSUME NEW x, x \in PaidUnits(d) PROVE x \in HeldUnits(d)
    OBVIOUS
  <1>1. PICK c \in Spender : spender[c].pc = "paid" /\ spender[c].day = d /\ x \in Units(spender[c].id, spender[c].cost)
    BY InPaidUnits
  <1> DEFINE r == spender[c].id
  <1>2. r \in Reservation /\ reservation[r].day = d
    BY <1>1 DEF BudgetInv, OwnReservation, Calling
  <1>3. Held(r) /\ spender[c].cost <= reservation[r].estimate
    BY <1>1 DEF BudgetInv, SpentCounts, PaidOn
  <1>4. Units(r, spender[c].cost) \subseteq Units(r, reservation[r].estimate)
    BY <1>2, <1>3, UnitsGrow, LedgerRows DEF BudgetInv
  <1> QED  BY <1>1, <1>2, <1>3, <1>4, InHeldUnits

LEMMA BudgetImplies == BudgetInv => NeverOverspent
  <1> SUFFICES ASSUME BudgetInv, NEW d \in Day \ uncovered, budget[d].cap # NoCap
               PROVE  spent[d] <= budget[d].cap
    BY DEF NeverOverspent
  <1>1. IsFiniteSet(HeldUnits(d)) /\ budget[d].reserved = Cardinality(HeldUnits(d))
    BY DEF BudgetInv, ReservedCounts
  <1>2. Cardinality(PaidUnits(d)) <= Cardinality(HeldUnits(d)) /\ Cardinality(PaidUnits(d)) \in Nat
    BY <1>1, PaidIsHeld, Apart
  <1>3. spent[d] = budget[d].committed + Cardinality(PaidUnits(d))
    BY DEF BudgetInv, SpentCounts
  <1>4. budget[d].committed + budget[d].reserved <= budget[d].cap
    BY DEF BudgetInv, WithinCap
  <1>5. budget[d].committed \in Nat /\ budget[d].reserved \in Nat /\ budget[d].cap \in Nat
    BY LedgerRows DEF BudgetInv, Cap
  <1> QED  BY <1>1, <1>2, <1>3, <1>4, <1>5

LEMMA BudgetInitHolds == BudgetInit => BudgetInv
  <1> SUFFICES ASSUME BudgetInit PROVE BudgetInv  OBVIOUS
  <1>1. /\ budget = [d \in Day |-> NoDay] /\ reservation = [r \in Reservation |-> NotMade]
        /\ spender = [c \in Spender |-> NoCall] /\ today = 1 /\ spent = [d \in Day |-> 0] /\ uncovered = {}
    BY DEF BudgetInit, Idle
  <1>2. 1 \in Day /\ 0 \in 0..MaxReservations
    BY BudgetAssumption DEF Day
  <1>3. BudgetTypeOK
    BY <1>1, <1>2 DEF BudgetTypeOK, DayRow, ReservationRow, CallRecord, NoDay, NotMade, NoCall, Cap, Statuses
  <1>4. MadeInOrder
    <2>1. \A r \in Reservation : reservation[r].status = "none" <=> r > 0
      BY <1>1 DEF NotMade, Reservation
    <2> QED  BY <1>2, <2>1 DEF MadeInOrder
  <1>5. RowThere /\ RowFresh /\ OwnReservation /\ WithinCap
    BY <1>1 DEF RowThere, RowFresh, OwnReservation, WithinCap, Calling, NoDay, NotMade, NoCall
  <1>6. \A d : HeldUnits(d) = {}
    BY <1>1, InHeldUnits DEF Held, NotMade
  <1>7. \A d : PaidUnits(d) = {} /\ PaidOn(d) = {}
    BY <1>1 DEF PaidUnits, PaidOn, NoCall
  <1>8. ReservedCounts /\ SpentCounts
    BY <1>1, <1>6, <1>7, FS_EmptySet DEF ReservedCounts, SpentCounts, NoDay
  <1> QED  BY <1>3, <1>4, <1>5, <1>8 DEF BudgetInv

-----------------------------------------------------------------------------
LEMMA HeldSame ==
    ASSUME \A r \in Reservation : /\ reservation'[r].status = reservation[r].status
                                  /\ reservation'[r].day = reservation[r].day
                                  /\ reservation'[r].estimate = reservation[r].estimate
    PROVE  \A d : HeldUnits(d)' = HeldUnits(d)
  BY DEF HeldUnits, HeldOn, Held

LEMMA PaidSame ==
    ASSUME NEW d,
           \A c \in Spender : c \in PaidOn(d)' <=> c \in PaidOn(d),
           \A c \in PaidOn(d) : spender'[c].id = spender[c].id /\ spender'[c].cost = spender[c].cost
    PROVE  PaidOn(d)' = PaidOn(d) /\ PaidUnits(d)' = PaidUnits(d)
  <1>1. PaidOn(d)' = PaidOn(d)
    BY DEF PaidOn
  <1> QED  BY <1>1 DEF PaidUnits

\* A step that leaves the ledger, and at most ends calls: a paid one only where that is noted.
LEMMA CallsEnd ==
    ASSUME BudgetInv, UNCHANGED <<budget, spent>>, today' \in Day,
           reservation' \in [Reservation -> ReservationRow], spender' \in [Spender -> CallRecord],
           \A r \in Reservation : /\ reservation'[r].status = reservation[r].status
                                  /\ reservation'[r].day = reservation[r].day
                                  /\ reservation'[r].estimate = reservation[r].estimate,
           uncovered \subseteq uncovered', uncovered' \in SUBSET Day,
           \A c \in Spender : Calling(c)' => /\ Calling(c) /\ spender'[c].id = spender[c].id
                                             /\ spender'[c].day = spender[c].day,
           \A c \in Spender : spender'[c].pc = "paid" => spender[c].pc = "paid" /\ spender'[c].cost = spender[c].cost,
           \A c \in Spender : spender[c].pc = "paid" /\ spender'[c].pc # "paid" => spender[c].day \in uncovered'
    PROVE  BudgetInv'
  <1>1. BudgetTypeOK'
    BY DEF BudgetInv, BudgetTypeOK
  <1>2. MadeInOrder' /\ RowThere' /\ RowFresh' /\ WithinCap'
    BY DEF BudgetInv, MadeInOrder, RowThere, RowFresh, WithinCap
  <1>3. OwnReservation'
    BY DEF BudgetInv, OwnReservation
  <1>4. ReservedCounts'
    BY HeldSame DEF BudgetInv, ReservedCounts
  <1>5. SpentCounts'
    <2> SUFFICES ASSUME NEW d \in Day \ uncovered'
                 PROVE  /\ \A c \in PaidOn(d)' : /\ Held(spender[c].id)'
                                                 /\ spender'[c].cost <= reservation'[spender'[c].id].estimate
                        /\ spent[d] = budget[d].committed + Cardinality(PaidUnits(d))'
      BY DEF SpentCounts
    <2>1. \A c \in Spender : c \in PaidOn(d)' <=> c \in PaidOn(d)
      BY DEF PaidOn, Calling
    <2>2. \A c \in PaidOn(d) : /\ spender'[c].id = spender[c].id /\ spender'[c].cost = spender[c].cost
                               /\ spender[c].id \in Reservation
      BY <2>1 DEF PaidOn, Calling, BudgetInv, OwnReservation
    <2>3. PaidOn(d)' = PaidOn(d) /\ PaidUnits(d)' = PaidUnits(d)
      BY <2>1, <2>2, PaidSame
    <2> QED  BY <2>2, <2>3 DEF BudgetInv, SpentCounts, Held
  <1> QED  BY <1>1, <1>2, <1>3, <1>4, <1>5 DEF BudgetInv

\* A held reservation is settled: it gives back all of what it held.
LEMMA SettledStays ==
    ASSUME BudgetInv, NEW r \in Reservation, Held(r), NEW status \in {"committed", "rolled_back"},
           reservation' = [reservation EXCEPT ![r].status = status],
           budget' \in [Day -> DayRow],
           \A d \in Day :
             /\ budget'[d].there = budget[d].there
             /\ d # reservation[r].day => budget'[d] = budget[d]
             /\ d = reservation[r].day => budget'[d].reserved = Minus(budget[d].reserved, reservation[r].estimate)
    PROVE  /\ reservation' \in [Reservation -> ReservationRow]
           /\ \A s \in Reservation : /\ s # r => reservation'[s] = reservation[s]
                                     /\ reservation'[s].day = reservation[s].day
                                     /\ reservation'[s].estimate = reservation[s].estimate
                                     /\ reservation'[s].status = "none" <=> reservation[s].status = "none"
           /\ budget[reservation[r].day].reserved >= reservation[r].estimate
           /\ budget'[reservation[r].day].reserved = budget[reservation[r].day].reserved - reservation[r].estimate
           /\ MadeInOrder' /\ RowThere' /\ RowFresh' /\ ReservedCounts'
  <1>0. PICK day \in Day, n \in Nat : day = reservation[r].day /\ n = reservation[r].estimate
    BY LedgerRows DEF BudgetInv
  <1> DEFINE units == Units(r, n)
  <1>1. reservation' \in [Reservation -> ReservationRow]
    BY DEF BudgetInv, BudgetTypeOK, ReservationRow, Statuses
  <1>2. ASSUME NEW s \in Reservation
        PROVE  /\ s # r => reservation'[s] = reservation[s]
               /\ reservation'[s].day = reservation[s].day
               /\ reservation'[s].estimate = reservation[s].estimate
               /\ reservation'[s].status = "none" <=> reservation[s].status = "none"
               /\ Held(s)' <=> Held(s) /\ s # r
    BY DEF BudgetInv, BudgetTypeOK, ReservationRow, Held
  <1>3. budget[day].there
    BY <1>0 DEF BudgetInv, RowThere, Held
  <1>4. MadeInOrder' /\ RowThere'
    <2>1. MadeInOrder'
      BY <1>2 DEF BudgetInv, MadeInOrder
    <2>2. RowThere'
      BY <1>2, LedgerRows DEF BudgetInv, RowThere
    <2> QED  BY <2>1, <2>2
  <1>5. RowFresh'
    BY <1>0, <1>3 DEF BudgetInv, RowFresh
  <1>6. /\ IsFiniteSet(HeldUnits(day)) /\ budget[day].reserved = Cardinality(HeldUnits(day))
        /\ units \subseteq HeldUnits(day)
    <2>1. units \subseteq HeldUnits(day)
      BY <1>0, InHeldUnits
    <2> QED  BY <1>3, <2>1 DEF BudgetInv, ReservedCounts
  <1>7. /\ IsFiniteSet(HeldUnits(day) \ units) /\ Cardinality(units) = n
        /\ Cardinality(HeldUnits(day) \ units) = Cardinality(HeldUnits(day)) - Cardinality(units)
        /\ Cardinality(units) <= Cardinality(HeldUnits(day)) /\ Cardinality(HeldUnits(day)) \in Nat
    BY <1>6, Apart, UnitsCount
  <1>8. HeldUnits(day)' = HeldUnits(day) \ units
    <2>1. ASSUME NEW x PROVE x \in HeldUnits(day)' <=> x \in HeldUnits(day) /\ x \notin units
      <3>1. x \in HeldUnits(day)' <=>
              \E s \in Reservation : Held(s)' /\ reservation'[s].day = day /\ x \in Units(s, reservation'[s].estimate)
        BY DEF HeldUnits, HeldOn
      <3>2. x \in HeldUnits(day)' <=>
              \E s \in Reservation : Held(s) /\ s # r /\ reservation[s].day = day /\ x \in Units(s, reservation[s].estimate)
        BY <3>1, <1>2, Zenon
      <3>3. x \in HeldUnits(day) <=>
              \E s \in Reservation : Held(s) /\ reservation[s].day = day /\ x \in Units(s, reservation[s].estimate)
        BY InHeldUnits
      <3>4. \A s \in Reservation : x \in Units(s, reservation[s].estimate) /\ x \in units => s = r
        BY UnitsDiffer
      <3>5. x \in Units(r, reservation[r].estimate) <=> x \in units
        BY <1>0
      <3> HIDE DEF units
      <3> QED  BY <3>2, <3>3, <3>4, <3>5, <1>0
    <2> QED  BY <2>1
  <1>9. \A d \in Day : d # day => HeldUnits(d)' = HeldUnits(d)
    <2> SUFFICES ASSUME NEW d \in Day, d # day PROVE HeldUnits(d)' = HeldUnits(d)
      OBVIOUS
    <2>1. HeldOn(d)' = HeldOn(d)
      BY <1>0, <1>2 DEF HeldOn
    <2>2. ASSUME NEW s \in HeldOn(d) PROVE reservation'[s].estimate = reservation[s].estimate
      <3>1. s \in Reservation
        BY DEF HeldOn
      <3> QED  BY <1>2, <3>1
    <2> QED  BY <2>1, <2>2 DEF HeldUnits
  <1>10. budget[day].reserved >= n /\ budget'[day].reserved = budget[day].reserved - n
    BY <1>0, <1>6, <1>7 DEF Minus
  <1>11. ReservedCounts'
    <2> SUFFICES ASSUME NEW d \in Day
                 PROVE  IsFiniteSet(HeldUnits(d)') /\ budget'[d].reserved = Cardinality(HeldUnits(d)')
      BY DEF ReservedCounts
    <2>1. CASE d = day
      <3> HIDE DEF units
      <3> QED  BY <2>1, <1>6, <1>7, <1>8, <1>10
    <2>2. CASE d # day
      BY <2>2, <1>0, <1>9 DEF BudgetInv, ReservedCounts
    <2> QED  BY <2>1, <2>2
  <1> QED  BY <1>0, <1>1, <1>2, <1>4, <1>5, <1>10, <1>11

\* rollback's transaction, whoever runs it, with what becomes of the calls.
LEMMA UndoKeeps ==
    ASSUME BudgetInv, NEW r \in Reservation, Undo(r), UNCHANGED <<today, spent>>,
           spender' \in [Spender -> CallRecord], uncovered \subseteq uncovered', uncovered' \in SUBSET Day,
           \A c \in Spender : Calling(c)' => /\ Calling(c) /\ spender'[c].id = spender[c].id
                                             /\ spender'[c].day = spender[c].day,
           \A c \in Spender : spender'[c].pc = "paid" => spender[c].pc = "paid" /\ spender'[c].cost = spender[c].cost,
           \A c \in Spender : spender[c].pc = "paid" => spender'[c].pc = "paid",
           Held(r) /\ Unsettled(r) => reservation[r].day \in uncovered'
    PROVE  BudgetInv'
  <1>1. CASE ~Held(r)
    <2>1. UNCHANGED <<reservation, budget>>
      BY <1>1 DEF Undo
    <2> QED  BY <2>1, CallsEnd DEF BudgetInv, BudgetTypeOK
  <1>2. CASE Held(r)
    <2> DEFINE day == reservation[r].day
    <2>1. /\ reservation' = [reservation EXCEPT ![r].status = "rolled_back"]
          /\ budget' = [budget EXCEPT ![day].reserved = Minus(@, reservation[r].estimate)]
      BY <1>2 DEF Undo
    <2>2. day \in Day /\ budget[day].reserved \in Nat /\ reservation[r].estimate \in Nat
      BY LedgerRows DEF BudgetInv
    <2>3. Minus(budget[day].reserved, reservation[r].estimate) \in Nat
      BY <2>2 DEF Minus
    <2>4. budget' \in [Day -> DayRow]
      BY <2>1, <2>2, <2>3 DEF BudgetInv, BudgetTypeOK, DayRow
    <2>5. ASSUME NEW d \in Day
          PROVE  /\ budget'[d].there = budget[d].there /\ budget'[d].committed = budget[d].committed
                 /\ budget'[d].cap = budget[d].cap /\ (d # day => budget'[d] = budget[d])
                 /\ d = day => budget'[d].reserved = Minus(budget[d].reserved, reservation[r].estimate)
      BY <2>1, <2>2 DEF BudgetInv, BudgetTypeOK, DayRow
    <2>6. /\ reservation' \in [Reservation -> ReservationRow]
          /\ \A s \in Reservation : /\ s # r => reservation'[s] = reservation[s]
                                    /\ reservation'[s].day = reservation[s].day
                                    /\ reservation'[s].estimate = reservation[s].estimate
                                    /\ reservation'[s].status = "none" <=> reservation[s].status = "none"
          /\ budget[day].reserved >= reservation[r].estimate
          /\ budget'[day].reserved = budget[day].reserved - reservation[r].estimate
          /\ MadeInOrder' /\ RowThere' /\ RowFresh' /\ ReservedCounts'
      BY <1>2, <2>1, <2>4, <2>5, SettledStays
    <2> HIDE DEF day
    <2>7. BudgetTypeOK'
      BY <2>4, <2>6 DEF BudgetInv, BudgetTypeOK
    <2>8. OwnReservation'
      BY <2>6 DEF BudgetInv, OwnReservation
    <2>9. WithinCap'
      <3> SUFFICES ASSUME NEW d \in Day, budget[d].cap # NoCap
                   PROVE  budget[d].committed + budget'[d].reserved <= budget[d].cap
        BY <2>5 DEF WithinCap
      <3>1. /\ budget[d].committed + budget[d].reserved <= budget[d].cap
            /\ budget[d].committed \in Nat /\ budget[d].reserved \in Nat /\ budget[d].cap \in Nat
        BY LedgerRows DEF BudgetInv, WithinCap, Cap
      <3>2. budget'[d].reserved = budget[d].reserved \/ budget'[d].reserved = budget[d].reserved - reservation[r].estimate
        BY <2>5, <2>6
      <3> QED  BY <3>1, <3>2, <2>2
    <2>10. SpentCounts'
      <3> SUFFICES ASSUME NEW d \in Day \ uncovered'
                   PROVE  /\ \A c \in PaidOn(d)' : /\ Held(spender[c].id)'
                                                   /\ spender'[c].cost <= reservation'[spender'[c].id].estimate
                          /\ spent[d] = budget[d].committed + Cardinality(PaidUnits(d))'
        BY <2>5 DEF SpentCounts
      <3>1. \A c \in Spender : c \in PaidOn(d)' <=> c \in PaidOn(d)
        BY DEF PaidOn, Calling
      <3>2. \A c \in PaidOn(d) : /\ spender'[c].id = spender[c].id /\ spender'[c].cost = spender[c].cost
                                 /\ spender[c].id \in Reservation
        BY <3>1 DEF PaidOn, Calling, BudgetInv, OwnReservation
      <3>3. PaidOn(d)' = PaidOn(d) /\ PaidUnits(d)' = PaidUnits(d)
        BY <3>1, <3>2, PaidSame
      <3>4. \A c \in PaidOn(d) : spender[c].id # r
        <4> SUFFICES ASSUME NEW c \in PaidOn(d), spender[c].id = r PROVE FALSE
          OBVIOUS
        <4>1. Unsettled(r) /\ day = d
          BY DEF PaidOn, Unsettled, BudgetInv, OwnReservation, Calling, day
        <4> QED  BY <4>1, <1>2 DEF day
      <3> QED  BY <2>6, <3>2, <3>3, <3>4 DEF BudgetInv, SpentCounts, Held
    <2> QED  BY <2>6, <2>7, <2>8, <2>9, <2>10 DEF BudgetInv
  <1> QED  BY <1>1, <1>2

-----------------------------------------------------------------------------
\* The transaction of reserve: the next id, and room for it within the cap.
Next(s) == reservation[s].status = "none" /\ (s = 1 \/ reservation[s - 1].status # "none")

LEMMA NextExists ==
    ASSUME BudgetInv, \E s \in Reservation : reservation[s].status = "none"
    PROVE  \E s \in Reservation : Next(s)
  <1>1. PICK n \in 0..MaxReservations : \A s \in Reservation : reservation[s].status = "none" <=> s > n
    BY DEF BudgetInv, MadeInOrder
  <1>2. n + 1 \in Reservation /\ reservation[n + 1].status = "none"
    BY <1>1, BudgetAssumption DEF Reservation
  <1>3. n + 1 = 1 \/ reservation[(n + 1) - 1].status # "none"
    <2>1. CASE n = 0
      BY <2>1
    <2>2. CASE n # 0
      <3>1. n \in Reservation /\ (n + 1) - 1 = n /\ ~(n > n)
        BY <2>2, BudgetAssumption DEF Reservation
      <3> QED  BY <1>1, <3>1
    <2> QED  BY <2>1, <2>2
  <1> QED  BY <1>2, <1>3 DEF Next

LEMMA NextIsLast ==
    ASSUME BudgetInv, NEW r \in Reservation, Next(r)
    PROVE  \A s \in Reservation : reservation[s].status = "none" <=> s > r - 1
  <1>1. PICK n \in 0..MaxReservations : \A s \in Reservation : reservation[s].status = "none" <=> s > n
    BY DEF BudgetInv, MadeInOrder
  <1>2. n \in Nat /\ r \in Nat /\ r > n /\ r >= 1
    BY <1>1, BudgetAssumption DEF Next, Reservation
  <1>3. r = n + 1
    <2>1. CASE r = 1
      BY <1>2, <2>1
    <2>2. CASE r # 1
      <3>1. r - 1 \in Reservation
        BY <2>2, BudgetAssumption DEF Reservation
      <3>2. ~(r - 1 > n)
        BY <1>1, <2>2, <3>1 DEF Next
      <3> QED  BY <1>2, <3>2
    <2> QED  BY <2>1, <2>2
  <1> QED  BY <1>1, <1>2, <1>3

LEMMA NextId ==
    ASSUME BudgetInv, \E s \in Reservation : reservation[s].status = "none",
           NEW r, r = CHOOSE s \in Reservation :
                        reservation[s].status = "none" /\ (s = 1 \/ reservation[s - 1].status # "none")
    PROVE  /\ r \in Reservation /\ reservation[r].status = "none"
           /\ \A s \in Reservation : reservation[s].status = "none" <=> s > r - 1
  <1>1. r = CHOOSE s \in Reservation : Next(s)
    BY DEF Next
  <1>2. r \in Reservation /\ Next(r)
    BY <1>1, NextExists, Zenon
  <1> QED  BY <1>2, NextIsLast DEF Next

LEMMA ReserveKeeps == ASSUME BudgetInv, NEW c \in Spender, Reserve(c) PROVE BudgetInv'
  <1> DEFINE call == spender[c]
             found == IF budget[call.day].there THEN budget[call.day]
                    ELSE [NoDay EXCEPT !.there = TRUE, !.cap = call.cap]
             cap == IF call.cap # NoCap THEN call.cap ELSE found.cap
             fits == Fits(found, call.estimate, cap)
             r == CHOOSE s \in Reservation :
                    reservation[s].status = "none" /\ (s = 1 \/ reservation[s - 1].status # "none")
  <1>1. /\ call.pc = "reclaim" /\ \E s \in Reservation : reservation[s].status = "none"
        /\ budget' = [budget EXCEPT ![call.day] =
             IF fits THEN [found EXCEPT !.reserved = @ + call.estimate, !.cap = cap] ELSE found]
        /\ IF fits
           THEN /\ reservation' = [reservation EXCEPT ![r] =
                     [status |-> "held", day |-> call.day, estimate |-> call.estimate, expired |-> FALSE]]
                /\ spender' = [spender EXCEPT ![c] =
                     [NoCall EXCEPT !.pc = "held", !.day = call.day, !.id = r]]
           ELSE UNCHANGED reservation /\ spender' = [spender EXCEPT ![c] = NoCall]
        /\ UNCHANGED <<today, spent, uncovered>>
    BY DEF Reserve, Leaves
  <1>2. PICK day \in Day, est \in Nat, given \in Cap : day = call.day /\ est = call.estimate /\ given = call.cap
    BY LedgerRows DEF BudgetInv
  <1>3. PICK id \in Reservation :
          /\ id = r /\ reservation[id].status = "none"
          /\ \A s \in Reservation : reservation[s].status = "none" <=> s > id - 1
    BY <1>1, NextId
  <1>4. PICK m \in Cap : m = cap
    BY <1>2, LedgerRows DEF BudgetInv, NoDay
  \* The row of the day as it is found or made.
  <1>5. /\ found \in DayRow /\ found.there
        /\ found.reserved = budget[day].reserved /\ found.committed = budget[day].committed
        /\ found.cap # NoCap => found.committed + found.reserved <= found.cap
    <2>1. CASE budget[day].there
      <3>1. found = budget[day]
        BY <1>2, <2>1
      <3> QED  BY <2>1, <3>1 DEF BudgetInv, BudgetTypeOK, WithinCap
    <2>2. CASE ~budget[day].there
      <3>1. found = [NoDay EXCEPT !.there = TRUE, !.cap = given]
        BY <1>2, <2>2
      <3>2. budget[day].reserved = 0 /\ budget[day].committed = 0
        BY <2>2 DEF BudgetInv, RowFresh
      <3>3. given # NoCap => given \in Nat
        BY DEF Cap
      <3>4. found \in DayRow
        <4>1. NoDay \in DayRow
          BY DEF DayRow, NoDay, Cap
        <4> QED  BY <3>1, <4>1 DEF DayRow
      <3>5. found.there = TRUE /\ found.reserved = 0 /\ found.committed = 0 /\ found.cap = given
        BY <3>1 DEF NoDay
      <3> HIDE DEF found
      <3> QED  BY <3>2, <3>3, <3>4, <3>5
    <2> QED  BY <2>1, <2>2
  <1>6. PICK old \in DayRow : old = found
    BY <1>5
  <1>7. PICK ok \in BOOLEAN : ok = fits
    BY DEF Fits
  <1>8. /\ budget' = [budget EXCEPT ![day] = IF ok THEN [old EXCEPT !.reserved = @ + est, !.cap = m] ELSE old]
        /\ ok => /\ reservation' = [reservation EXCEPT ![id] =
                      [status |-> "held", day |-> day, estimate |-> est, expired |-> FALSE]]
                 /\ spender' = [spender EXCEPT ![c] = [NoCall EXCEPT !.pc = "held", !.day = day, !.id = id]]
        /\ ~ok => UNCHANGED reservation /\ spender' = [spender EXCEPT ![c] = NoCall]
        /\ ok /\ m # NoCap => old.committed + old.reserved + est <= m
        /\ spender[c].pc = "reclaim" /\ UNCHANGED <<today, spent, uncovered>>
    <2> HIDE DEF call, found, cap, fits, r
    <2>1. budget' = [budget EXCEPT ![day] = IF ok THEN [old EXCEPT !.reserved = @ + est, !.cap = m] ELSE old]
      BY <1>1, <1>2, <1>4, <1>6, <1>7
    <2>2. ok => /\ reservation' = [reservation EXCEPT ![id] =
                      [status |-> "held", day |-> day, estimate |-> est, expired |-> FALSE]]
                /\ spender' = [spender EXCEPT ![c] = [NoCall EXCEPT !.pc = "held", !.day = day, !.id = id]]
      BY <1>1, <1>2, <1>3, <1>7
    <2>3. ~ok => UNCHANGED reservation /\ spender' = [spender EXCEPT ![c] = NoCall]
      BY <1>1, <1>7
    <2>4. ok /\ m # NoCap => old.committed + old.reserved + est <= m
      BY <1>2, <1>4, <1>6, <1>7 DEF fits, Fits
    <2> QED  BY <2>1, <2>2, <2>3, <2>4, <1>1 DEF call
  <1>9. /\ old.there /\ old.reserved = budget[day].reserved /\ old.committed = budget[day].committed
        /\ old.cap # NoCap => old.committed + old.reserved <= old.cap
        /\ old.reserved \in Nat /\ old.committed \in Nat /\ old.cap \in Cap
    BY <1>5, <1>6 DEF DayRow
  <1> HIDE DEF call, found, cap, fits, r
  <1>10. [old EXCEPT !.reserved = @ + est, !.cap = m] \in DayRow
    <2>1. old.reserved + est \in Nat
      BY <1>9
    <2> QED  BY <2>1 DEF DayRow
  <1>11. budget' \in [Day -> DayRow]
    BY <1>8, <1>10 DEF BudgetInv, BudgetTypeOK
  <1>12. ASSUME NEW d \in Day
         PROVE  /\ d # day => budget'[d] = budget[d]
                /\ d = day => /\ budget'[d].there /\ budget'[d].committed = budget[d].committed
                              /\ budget'[d].reserved = IF ok THEN budget[d].reserved + est ELSE budget[d].reserved
                              /\ budget'[d].cap = IF ok THEN m ELSE old.cap
    BY <1>8, <1>9 DEF BudgetInv, BudgetTypeOK, DayRow
  <1>13. /\ NoCall \in CallRecord /\ [NoCall EXCEPT !.pc = "held", !.day = day, !.id = id] \in CallRecord
         /\ NoCall.pc = "idle"
         /\ LET new == [NoCall EXCEPT !.pc = "held", !.day = day, !.id = id]
            IN  new.pc = "held" /\ new.day = day /\ new.id = id
    <2>1. NoCall \in CallRecord
      BY IdleIsCall
    <2>2. [NoCall EXCEPT !.pc = "held", !.day = day, !.id = id] \in CallRecord
      <3>1. id \in 0..MaxReservations
        BY DEF Reservation
      <3> QED  BY <2>1, <3>1 DEF CallRecord
    <2> QED  BY <2>1, <2>2 DEF NoCall
  <1>14. /\ reservation' \in [Reservation -> ReservationRow] /\ spender' \in [Spender -> CallRecord]
         /\ \A s \in Reservation : s # id \/ ~ok => reservation'[s] = reservation[s]
         /\ ok => /\ reservation'[id].status = "held" /\ reservation'[id].day = day
                  /\ reservation'[id].estimate = est
         /\ \A b \in Spender : b # c => spender'[b] = spender[b]
         /\ ok => spender'[c].pc = "held" /\ spender'[c].day = day /\ spender'[c].id = id
         /\ ~ok => spender'[c].pc = "idle"
    <2>1. CASE ok
      <3>1. [status |-> "held", day |-> day, estimate |-> est, expired |-> FALSE] \in ReservationRow
        BY DEF ReservationRow, Statuses
      <3>2. /\ reservation' \in [Reservation -> ReservationRow]
            /\ \A s \in Reservation : s # id => reservation'[s] = reservation[s]
            /\ reservation'[id].status = "held" /\ reservation'[id].day = day /\ reservation'[id].estimate = est
        <4> DEFINE new == [status |-> "held", day |-> day, estimate |-> est, expired |-> FALSE]
        <4>1. new.status = "held" /\ new.day = day /\ new.estimate = est /\ new \in ReservationRow
          BY <3>1
        <4>2. reservation' = [reservation EXCEPT ![id] = new] /\ reservation \in [Reservation -> ReservationRow]
          BY <2>1, <1>8 DEF BudgetInv, BudgetTypeOK
        <4> HIDE DEF new
        <4> QED  BY <4>1, <4>2
      <3>3. /\ spender' \in [Spender -> CallRecord]
            /\ \A b \in Spender : b # c => spender'[b] = spender[b]
            /\ spender'[c].pc = "held" /\ spender'[c].day = day /\ spender'[c].id = id
        <4>1. spender' = [spender EXCEPT ![c] = [NoCall EXCEPT !.pc = "held", !.day = day, !.id = id]]
          BY <2>1, <1>8
        <4> QED  BY <4>1, <1>13 DEF BudgetInv, BudgetTypeOK
      <3> QED  BY <2>1, <3>2, <3>3
    <2>2. CASE ~ok
      <3>1. reservation' = reservation /\ spender' = [spender EXCEPT ![c] = NoCall]
        BY <2>2, <1>8
      <3> QED  BY <2>2, <3>1, <1>13 DEF BudgetInv, BudgetTypeOK
    <2> QED  BY <2>1, <2>2
  <1>15. BudgetTypeOK'
    BY <1>8, <1>11, <1>14 DEF BudgetInv, BudgetTypeOK
  <1>16. MadeInOrder'
    <2>1. CASE ok
      <3>1. id \in 0..MaxReservations
        BY DEF Reservation
      <3>2. \A s \in Reservation : reservation'[s].status = "none" <=> s > id
        BY <1>3, <1>14, <2>1 DEF Reservation
      <3> QED  BY <3>1, <3>2 DEF MadeInOrder
    <2>2. CASE ~ok
      BY <2>2, <1>14 DEF BudgetInv, MadeInOrder
    <2> QED  BY <2>1, <2>2
  <1>17. RowThere'
    BY <1>12, <1>14, LedgerRows DEF BudgetInv, RowThere
  <1>18. RowFresh'
    BY <1>12 DEF BudgetInv, RowFresh
  <1>19. WithinCap'
    <2> SUFFICES ASSUME NEW d \in Day, budget'[d].cap # NoCap
                 PROVE  budget'[d].committed + budget'[d].reserved <= budget'[d].cap
      BY DEF WithinCap
    <2>1. CASE d # day
      BY <2>1, <1>12 DEF BudgetInv, WithinCap
    <2>2. CASE d = day
      <3>1. /\ budget'[d].committed = old.committed
            /\ budget'[d].reserved = IF ok THEN old.reserved + est ELSE old.reserved
            /\ budget'[d].cap = IF ok THEN m ELSE old.cap
        BY <2>2, <1>9, <1>12
      <3>2. m # NoCap => m \in Nat
        BY DEF Cap
      <3> QED  BY <1>8, <1>9, <3>1, <3>2
    <2> QED  BY <2>1, <2>2
  <1>20. OwnReservation'
    <2>1. ASSUME NEW b \in Spender, Calling(b)'
          PROVE  (b = c /\ ok) \/ (b # c /\ Calling(b) /\ spender'[b] = spender[b])
      <3>1. spender'[b].pc \in {"held", "paid", "failed"}
        BY <2>1 DEF Calling
      <3> QED  BY <1>14, <3>1 DEF Calling
    <2>2. \A b \in Spender : Calling(b) => spender[b].id \in Reservation /\ spender[b].id # id
      BY <1>3 DEF BudgetInv, OwnReservation
    <2> QED  BY <1>14, <2>1, <2>2 DEF BudgetInv, OwnReservation
  <1>21. ReservedCounts'
    <2> SUFFICES ASSUME NEW d \in Day
                 PROVE  IsFiniteSet(HeldUnits(d)') /\ budget'[d].reserved = Cardinality(HeldUnits(d)')
      BY DEF ReservedCounts
    <2>1. CASE ~ok
      <3>1. HeldUnits(d)' = HeldUnits(d)
        BY <2>1, <1>14, HeldSame
      <3> QED  BY <2>1, <3>1, <1>12 DEF BudgetInv, ReservedCounts
    <2>2. CASE ok /\ d # day
      <3>1. HeldOn(d)' = HeldOn(d)
        BY <2>2, <1>3, <1>14 DEF HeldOn, Held
      <3>2. \A s \in HeldOn(d) : reservation'[s] = reservation[s]
        BY <1>3, <1>14 DEF HeldOn, Held
      <3>3. HeldUnits(d)' = HeldUnits(d)
        BY <3>1, <3>2 DEF HeldUnits
      <3> QED  BY <2>2, <3>3, <1>12 DEF BudgetInv, ReservedCounts
    <2>3. CASE ok /\ d = day
      <3>1. HeldUnits(d)' = HeldUnits(d) \union Units(id, est)
        <4>1. HeldOn(d)' = HeldOn(d) \union {id} /\ reservation'[id].estimate = est
          BY <2>3, <1>3, <1>14 DEF HeldOn, Held
        <4>2. \A s \in HeldOn(d) : reservation'[s] = reservation[s]
          BY <1>3, <1>14 DEF HeldOn, Held
        <4> QED  BY <4>1, <4>2 DEF HeldUnits
      <3>2. HeldUnits(d) \intersect Units(id, est) = {}
        <4>1. \A x : x \in HeldUnits(d) /\ x \in Units(id, est) => Held(id)
          BY InHeldUnits, UnitsDiffer
        <4> QED  BY <4>1, <1>3 DEF Held
      <3>3. /\ IsFiniteSet(HeldUnits(d)) /\ budget[d].reserved = Cardinality(HeldUnits(d))
            /\ IsFiniteSet(Units(id, est)) /\ Cardinality(Units(id, est)) = est
        BY UnitsCount DEF BudgetInv, ReservedCounts
      <3>4. budget'[d].reserved = budget[d].reserved + est
        BY <2>3, <1>12
      <3> QED  BY <3>1, <3>2, <3>3, <3>4, Together
    <2> QED  BY <2>1, <2>2, <2>3
  <1>22. SpentCounts'
    <2> SUFFICES ASSUME NEW d \in Day \ uncovered
                 PROVE  /\ \A b \in PaidOn(d)' : /\ Held(spender[b].id)'
                                                 /\ spender'[b].cost <= reservation'[spender'[b].id].estimate
                        /\ spent[d] = budget'[d].committed + Cardinality(PaidUnits(d))'
      BY <1>8 DEF SpentCounts
    <2>1. \A b \in Spender : b \in PaidOn(d)' <=> b \in PaidOn(d)
      BY <1>8, <1>14 DEF PaidOn
    <2>2. \A b \in PaidOn(d) : spender'[b] = spender[b]
      BY <1>8, <1>14 DEF PaidOn
    <2>3. PaidOn(d)' = PaidOn(d) /\ PaidUnits(d)' = PaidUnits(d)
      BY <2>1, <2>2, PaidSame
    <2>4. \A b \in PaidOn(d) : spender[b].id \in Reservation /\ spender[b].id # id
      BY <1>3 DEF PaidOn, Calling, BudgetInv, OwnReservation
    <2>5. budget'[d].committed = budget[d].committed
      BY <1>12
    <2> QED  BY <1>14, <2>2, <2>3, <2>4, <2>5 DEF BudgetInv, SpentCounts, Held
  <1> QED  BY <1>15, <1>16, <1>17, <1>18, <1>19, <1>20, <1>21, <1>22 DEF BudgetInv

\* The call has been paid: on a covered day out of what its reservation holds.
LEMMA PaysKeeps == ASSUME BudgetInv, NEW c \in Spender, NEW cost \in Costs, Pays(c, cost) PROVE BudgetInv'
  <1>0. PICK r \in 0..MaxReservations, day \in Day : r = spender[c].id /\ day = spender[c].day
    BY LedgerRows DEF BudgetInv
  <1>1. /\ spender[c].pc = "held"
        /\ spender' = [spender EXCEPT ![c].pc = "paid", ![c].cost = cost]
        /\ spent' = [spent EXCEPT ![day] = @ + cost]
        /\ uncovered' = IF cost > reservation[r].estimate \/ ~Held(r) THEN uncovered \union {day} ELSE uncovered
        /\ UNCHANGED <<budget, reservation, today>>
    BY <1>0 DEF Pays
  <1>2. cost \in Nat /\ r \in Reservation /\ reservation[r].estimate \in Nat /\ reservation[r].day = day
    BY <1>0, <1>1, BudgetAssumption, LedgerRows DEF BudgetInv, OwnReservation, Calling
  <1>3. /\ spender' \in [Spender -> CallRecord] /\ \A b \in Spender : b # c => spender'[b] = spender[b]
        /\ spender'[c].pc = "paid" /\ spender'[c].cost = cost
        /\ spender'[c].id = r /\ spender'[c].day = day
    BY <1>0, <1>1, <1>2 DEF BudgetInv, BudgetTypeOK, CallRecord
  <1>4. spent' \in [Day -> Nat] /\ uncovered' \in SUBSET Day /\ uncovered \subseteq uncovered'
    BY <1>1, <1>2 DEF BudgetInv, BudgetTypeOK
  <1>5. BudgetTypeOK'
    BY <1>1, <1>3, <1>4 DEF BudgetInv, BudgetTypeOK
  <1>6. MadeInOrder' /\ RowThere' /\ RowFresh' /\ WithinCap'
    BY <1>1 DEF BudgetInv, MadeInOrder, RowThere, RowFresh, WithinCap
  <1>7. \A b \in Spender : spender'[b].id = spender[b].id /\ spender'[b].day = spender[b].day /\ (Calling(b)' <=> Calling(b))
    BY <1>0, <1>1, <1>3 DEF Calling
  <1>8. OwnReservation'
    BY <1>1, <1>7 DEF BudgetInv, OwnReservation
  <1>9. ReservedCounts'
    BY <1>1, HeldSame DEF BudgetInv, ReservedCounts
  <1>10. SpentCounts'
    <2> SUFFICES ASSUME NEW d \in Day \ uncovered'
                 PROVE  /\ \A b \in PaidOn(d)' : /\ Held(spender'[b].id)
                                                 /\ spender'[b].cost <= reservation[spender'[b].id].estimate
                        /\ spent'[d] = budget[d].committed + Cardinality(PaidUnits(d)')
      BY <1>1 DEF SpentCounts, Held
    <2>1. CASE d # day
      <3>1. \A b \in Spender : b \in PaidOn(d)' <=> b \in PaidOn(d)
        BY <1>0, <1>1, <1>3, <2>1 DEF PaidOn
      <3>2. \A b \in PaidOn(d) : spender'[b] = spender[b]
        BY <1>0, <1>1, <1>3, <2>1 DEF PaidOn
      <3>3. PaidOn(d)' = PaidOn(d) /\ PaidUnits(d)' = PaidUnits(d)
        BY <3>1, <3>2, PaidSame
      <3>4. spent'[d] = spent[d]
        BY <1>1, <2>1 DEF BudgetInv, BudgetTypeOK
      <3> QED  BY <1>4, <3>2, <3>3, <3>4 DEF BudgetInv, SpentCounts
    <2>2. CASE d = day
      <3>1. Held(r) /\ cost <= reservation[r].estimate
        BY <1>1, <1>2, <2>2
      <3>2. PaidOn(d)' = PaidOn(d) \union {c}
        BY <1>1, <1>3, <2>2 DEF PaidOn
      <3>3. \A b \in PaidOn(d) : spender'[b] = spender[b] /\ spender[b].id # r
        <4> SUFFICES ASSUME NEW b \in PaidOn(d) PROVE spender'[b] = spender[b] /\ spender[b].id # r
          OBVIOUS
        <4>1. b # c /\ b \in Spender /\ Calling(b) /\ Calling(c)
          BY <1>1 DEF PaidOn, Calling
        <4> QED  BY <4>1, <1>0, <1>3 DEF BudgetInv, OwnReservation
      <3>4. PaidUnits(d)' = PaidUnits(d) \union Units(r, cost)
        BY <1>3, <3>2, <3>3 DEF PaidUnits
      <3>5. PaidUnits(d) \intersect Units(r, cost) = {}
        <4> SUFFICES ASSUME NEW x, x \in PaidUnits(d), x \in Units(r, cost) PROVE FALSE
          OBVIOUS
        <4>1. PICK b \in PaidOn(d) : x \in Units(spender[b].id, spender[b].cost)
          BY InPaidUnits DEF PaidOn
        <4> QED  BY <4>1, <3>3, UnitsDiffer
      <3>6. IsFiniteSet(PaidUnits(d)) /\ IsFiniteSet(Units(r, cost)) /\ Cardinality(Units(r, cost)) = cost
        <4>1. PaidUnits(d) \subseteq HeldUnits(d) /\ IsFiniteSet(HeldUnits(d))
          BY <1>4, PaidIsHeld DEF BudgetInv, ReservedCounts
        <4> QED  BY <4>1, <1>2, UnitsCount, FS_Subset
      <3>7. spent'[d] = spent[d] + cost /\ spent[d] = budget[d].committed + Cardinality(PaidUnits(d))
        BY <1>1, <1>4, <2>2 DEF BudgetInv, BudgetTypeOK, SpentCounts
      <3>8. /\ Cardinality(PaidUnits(d)') = Cardinality(PaidUnits(d)) + cost
            /\ Cardinality(PaidUnits(d)) \in Nat
        BY <3>4, <3>5, <3>6, Together
      <3>9. spent'[d] = budget[d].committed + Cardinality(PaidUnits(d)')
        <4>1. budget[d].committed \in Nat
          BY LedgerRows DEF BudgetInv
        <4> QED  BY <3>7, <3>8, <4>1, <1>2
      <3> QED  BY <1>3, <1>4, <3>1, <3>2, <3>3, <3>9 DEF BudgetInv, SpentCounts
    <2> QED  BY <2>1, <2>2
  <1> QED  BY <1>5, <1>6, <1>8, <1>9, <1>10 DEF BudgetInv

\* The transaction of commit.  On a covered day there is always room for a cost within its estimate.
LEMMA commitKeeps == ASSUME BudgetInv, NEW c \in Spender, commit(c) PROVE BudgetInv'
  <1>0. PICK r, cost \in Nat : r = spender[c].id /\ cost = spender[c].cost
    BY LedgerRows DEF BudgetInv
  <1>1. spender[c].pc = "paid" /\ spender' = [spender EXCEPT ![c] = NoCall] /\ UNCHANGED <<today, spent, uncovered>>
    BY DEF commit, Leaves
  <1>2. r \in Reservation /\ reservation[r].day = spender[c].day /\ Calling(c)
    BY <1>0, <1>1 DEF BudgetInv, OwnReservation, Calling
  <1>3. PICK day \in Day, est \in Nat : day = reservation[r].day /\ est = reservation[r].estimate
    BY <1>2, LedgerRows DEF BudgetInv
  <1> DEFINE found == budget[day]
             room == Minus(found.cap, found.committed + Minus(found.reserved, est))
  <1>4. IF Held(r) /\ (found.cap = NoCap \/ cost <= room)
        THEN /\ reservation' = [reservation EXCEPT ![r].status = "committed"]
             /\ budget' = [budget EXCEPT ![day].reserved = Minus(@, est), ![day].committed = @ + cost]
        ELSE UNCHANGED <<reservation, budget>>
    BY <1>0, <1>3 DEF commit
  <1>5. /\ found.reserved \in Nat /\ found.committed \in Nat /\ found.cap \in Cap
        /\ found.cap # NoCap => found.cap \in Nat /\ found.committed + found.reserved <= found.cap
    BY LedgerRows DEF BudgetInv, WithinCap, Cap
  <1>6. /\ spender' \in [Spender -> CallRecord] /\ ~Calling(c)' /\ spender'[c].pc # "paid"
        /\ \A b \in Spender : b # c => spender'[b] = spender[b]
    BY <1>1, IdleIsCall DEF BudgetInv, BudgetTypeOK, Calling
  <1>7. CASE ~(Held(r) /\ (found.cap = NoCap \/ cost <= room))
    <2>1. UNCHANGED <<reservation, budget>>
      BY <1>4, <1>7
    <2>2. day \in uncovered
      <3> SUFFICES ASSUME day \notin uncovered PROVE FALSE
        OBVIOUS
      <3>1. c \in PaidOn(day)
        BY <1>1, <1>2, <1>3 DEF PaidOn
      <3>2. Held(r) /\ cost <= est
        BY <3>1, <1>0, <1>3 DEF BudgetInv, SpentCounts
      <3>3. est <= found.reserved
        <4>1. Units(r, est) \subseteq HeldUnits(day)
          BY <1>2, <1>3, <3>2, InHeldUnits
        <4>2. Cardinality(Units(r, est)) <= Cardinality(HeldUnits(day)) /\ Cardinality(Units(r, est)) = est
          BY <4>1, Apart, UnitsCount DEF BudgetInv, ReservedCounts
        <4> QED  BY <4>2 DEF BudgetInv, ReservedCounts
      <3>4. found.cap # NoCap /\ ~(cost <= room)
        BY <1>7, <3>2
      <3> HIDE DEF found
      <3> QED  BY <1>5, <3>2, <3>3, <3>4 DEF Minus
    <2>3. \A b \in Spender : Calling(b)' => Calling(b) /\ spender'[b] = spender[b]
      BY <1>6 DEF Calling
    <2>4. \A b \in Spender : spender'[b].pc = "paid" => spender[b].pc = "paid" /\ spender'[b].cost = spender[b].cost
      BY <1>6
    <2>5. \A b \in Spender : spender[b].pc = "paid" /\ spender'[b].pc # "paid" => spender[b].day \in uncovered'
      BY <1>1, <1>2, <1>3, <1>6, <2>2
    <2> QED  BY <1>1, <1>6, <2>1, <2>3, <2>4, <2>5, CallsEnd DEF BudgetInv, BudgetTypeOK
  <1>8. CASE Held(r) /\ (found.cap = NoCap \/ cost <= room)
    <2>1. /\ reservation' = [reservation EXCEPT ![r].status = "committed"]
          /\ budget' = [budget EXCEPT ![day].reserved = Minus(@, est), ![day].committed = @ + cost]
      BY <1>4, <1>8
    <2>2. Minus(found.reserved, est) \in Nat /\ found.committed + cost \in Nat
      BY <1>5 DEF Minus
    <2>3. /\ budget' \in [Day -> DayRow]
          /\ \A d \in Day :
               /\ budget'[d].there = budget[d].there /\ budget'[d].cap = budget[d].cap
               /\ d # day => budget'[d] = budget[d]
               /\ d = day => /\ budget'[d].reserved = Minus(budget[d].reserved, est)
                             /\ budget'[d].committed = budget[d].committed + cost
      BY <2>1, <2>2 DEF BudgetInv, BudgetTypeOK, DayRow
    <2>4. /\ reservation' \in [Reservation -> ReservationRow]
          /\ \A s \in Reservation : /\ s # r => reservation'[s] = reservation[s]
                                    /\ reservation'[s].day = reservation[s].day
                                    /\ reservation'[s].estimate = reservation[s].estimate
                                    /\ reservation'[s].status = "none" <=> reservation[s].status = "none"
          /\ budget[day].reserved >= est
          /\ budget'[day].reserved = budget[day].reserved - est
          /\ MadeInOrder' /\ RowThere' /\ RowFresh' /\ ReservedCounts'
      <3>1. \A d \in Day :
              /\ budget'[d].there = budget[d].there
              /\ d # reservation[r].day => budget'[d] = budget[d]
              /\ d = reservation[r].day => budget'[d].reserved = Minus(budget[d].reserved, reservation[r].estimate)
        BY <1>3, <2>3
      <3>2. /\ reservation' \in [Reservation -> ReservationRow]
            /\ \A s \in Reservation : /\ s # r => reservation'[s] = reservation[s]
                                      /\ reservation'[s].day = reservation[s].day
                                      /\ reservation'[s].estimate = reservation[s].estimate
                                      /\ reservation'[s].status = "none" <=> reservation[s].status = "none"
            /\ budget[reservation[r].day].reserved >= reservation[r].estimate
            /\ budget'[reservation[r].day].reserved = budget[reservation[r].day].reserved - reservation[r].estimate
            /\ MadeInOrder' /\ RowThere' /\ RowFresh' /\ ReservedCounts'
        BY <1>2, <1>8, <2>1, <2>3, <3>1, SettledStays
      <3> QED  BY <1>3, <3>2
    <2>5. BudgetTypeOK'
      BY <1>1, <1>6, <2>3, <2>4 DEF BudgetInv, BudgetTypeOK
    <2>6. OwnReservation'
      <3>1. \A b \in Spender : Calling(b)' => Calling(b) /\ spender'[b] = spender[b]
        BY <1>6 DEF Calling
      <3> QED  BY <2>4, <3>1 DEF BudgetInv, OwnReservation
    <2>7. WithinCap'
      <3> SUFFICES ASSUME NEW d \in Day, budget'[d].cap # NoCap
                   PROVE  budget'[d].committed + budget'[d].reserved <= budget'[d].cap
        BY DEF WithinCap
      <3>1. CASE d # day
        BY <3>1, <2>3 DEF BudgetInv, WithinCap
      <3>2. CASE d = day
        <4>1. budget'[d].cap = found.cap /\ budget'[d].committed = found.committed + cost /\ budget'[d].reserved = found.reserved - est
          BY <3>2, <2>3, <2>4
        <4>2. found.cap # NoCap /\ cost <= room /\ found.reserved >= est
          BY <4>1, <1>8, <2>4
        <4> HIDE DEF found
        <4> QED  BY <4>1, <4>2, <1>5 DEF Minus
      <3> QED  BY <3>1, <3>2
    <2>8. SpentCounts'
      <3> SUFFICES ASSUME NEW d \in Day \ uncovered
                   PROVE  /\ \A b \in PaidOn(d)' : /\ Held(spender[b].id)'
                                                   /\ spender'[b].cost <= reservation'[spender'[b].id].estimate
                          /\ spent[d] = budget'[d].committed + Cardinality(PaidUnits(d)')
        BY <1>1 DEF SpentCounts
      <3>1. PaidOn(d)' = PaidOn(d) \ {c}
        BY <1>6 DEF PaidOn
      <3>2. \A b \in PaidOn(d) : b # c => /\ spender'[b] = spender[b] /\ spender[b].id \in Reservation
                                          /\ spender[b].id # r
        <4> SUFFICES ASSUME NEW b \in PaidOn(d), b # c
                     PROVE  spender'[b] = spender[b] /\ spender[b].id \in Reservation /\ spender[b].id # r
          OBVIOUS
        <4>1. b \in Spender /\ Calling(b)
          BY DEF PaidOn, Calling
        <4> QED  BY <4>1, <1>0, <1>2, <1>6 DEF BudgetInv, OwnReservation
      <3>3. \A b \in PaidOn(d)' : Held(spender[b].id)' /\ spender'[b].cost <= reservation'[spender'[b].id].estimate
        BY <2>4, <3>1, <3>2 DEF BudgetInv, SpentCounts, Held
      <3>4. CASE d # day
        <4>1. c \notin PaidOn(d)
          BY <1>2, <1>3, <3>4 DEF PaidOn
        <4>2. PaidUnits(d)' = PaidUnits(d)
          BY <4>1, <3>1, <3>2 DEF PaidUnits
        <4> QED  BY <3>3, <3>4, <4>2, <2>3 DEF BudgetInv, SpentCounts
      <3>5. CASE d = day
        <4>1. c \in PaidOn(d)
          BY <1>1, <1>2, <1>3, <3>5 DEF PaidOn
        <4>2. Units(r, cost) \subseteq PaidUnits(d)
          BY <4>1, <1>0 DEF PaidUnits
        <4>3. PaidUnits(d)' = PaidUnits(d) \ Units(r, cost)
          <5>1. PaidUnits(d)' = UNION {Units(spender[b].id, spender[b].cost) : b \in PaidOn(d) \ {c}}
            BY <3>1, <3>2 DEF PaidUnits
          <5>2. ASSUME NEW x
                PROVE  (\E b \in PaidOn(d) \ {c} : x \in Units(spender[b].id, spender[b].cost))
                         <=> x \in PaidUnits(d) /\ x \notin Units(r, cost)
            <6>1. x \in PaidUnits(d) <=> \E b \in PaidOn(d) : x \in Units(spender[b].id, spender[b].cost)
              BY DEF PaidUnits
            <6>2. \A b \in PaidOn(d) : b # c => ~(x \in Units(spender[b].id, spender[b].cost) /\ x \in Units(r, cost))
              BY <3>2, UnitsDiffer
            <6>3. x \in Units(spender[c].id, spender[c].cost) <=> x \in Units(r, cost)
              BY <1>0
            <6> QED  BY <6>1, <6>2, <6>3, <4>1
          <5> QED  BY <5>1, <5>2
        <4>4. IsFiniteSet(PaidUnits(d))
          <5>1. PaidUnits(d) \subseteq HeldUnits(d) /\ IsFiniteSet(HeldUnits(d))
            BY PaidIsHeld DEF BudgetInv, ReservedCounts
          <5> QED  BY <5>1, FS_Subset
        <4>5. /\ Cardinality(PaidUnits(d)') = Cardinality(PaidUnits(d)) - cost
              /\ Cardinality(PaidUnits(d)) \in Nat
          <5>1. Cardinality(Units(r, cost)) = cost
            BY UnitsCount
          <5>2. /\ Cardinality(PaidUnits(d) \ Units(r, cost)) = Cardinality(PaidUnits(d)) - Cardinality(Units(r, cost))
                /\ Cardinality(PaidUnits(d)) \in Nat
            BY <4>2, <4>4, Apart
          <5> QED  BY <4>3, <5>1, <5>2
        <4>6. spent[d] = budget[d].committed + Cardinality(PaidUnits(d)) /\ budget[d].committed \in Nat
          BY LedgerRows DEF BudgetInv, SpentCounts
        <4>7. budget'[d].committed = budget[d].committed + cost
          BY <3>5, <2>3
        <4> QED  BY <3>3, <4>5, <4>6, <4>7
      <3> QED  BY <3>4, <3>5
    <2> QED  BY <2>4, <2>5, <2>6, <2>7, <2>8 DEF BudgetInv
  <1> QED  BY <1>7, <1>8

-----------------------------------------------------------------------------
\* What a step of one process does to the calls of the others: nothing.
LEMMA OtherCalls ==
    ASSUME BudgetInv, NEW c \in Spender, NEW new \in CallRecord, spender' = [spender EXCEPT ![c] = new],
           new.pc \in {"held", "paid", "failed"} => /\ Calling(c) /\ new.id = spender[c].id
                                                    /\ new.day = spender[c].day,
           new.pc = "paid" => spender[c].pc = "paid" /\ new.cost = spender[c].cost
    PROVE  /\ spender' \in [Spender -> CallRecord]
           /\ \A b \in Spender : Calling(b)' => /\ Calling(b) /\ spender'[b].id = spender[b].id
                                                /\ spender'[b].day = spender[b].day
           /\ \A b \in Spender : spender'[b].pc = "paid" => spender[b].pc = "paid" /\ spender'[b].cost = spender[b].cost
           /\ \A b \in Spender : spender[b].pc = "paid" /\ spender'[b].pc # "paid" => b = c
  <1>1. spender' \in [Spender -> CallRecord] /\ spender'[c] = new /\ \A b \in Spender : b # c => spender'[b] = spender[b]
    BY DEF BudgetInv, BudgetTypeOK
  <1> QED  BY <1>1 DEF Calling

\* A call is taken up, gets on, or ends before it is paid.
LEMMA CallMoves ==
    ASSUME BudgetInv, NEW c \in Spender, NEW new \in CallRecord, spender' = [spender EXCEPT ![c] = new],
           new.pc \in {"held", "paid", "failed"} => /\ Calling(c) /\ new.id = spender[c].id
                                                    /\ new.day = spender[c].day,
           new.pc = "paid" => spender[c].pc = "paid" /\ new.cost = spender[c].cost,
           spender[c].pc = "paid" => new.pc = "paid",
           UNCHANGED <<budget, reservation, today, spent, uncovered>>
    PROVE  BudgetInv'
  <1>1. spender'[c] = new
    BY DEF BudgetInv, BudgetTypeOK
  <1> QED  BY <1>1, OtherCalls, CallsEnd DEF BudgetInv, BudgetTypeOK

LEMMA CallIs == ASSUME BudgetInv, NEW c \in Spender PROVE spender[c] \in CallRecord
  BY DEF BudgetInv, BudgetTypeOK

LEMMA LooksUpKeeps ==
    ASSUME BudgetInv, NEW c \in Spender,
           \/ \E estimate \in Estimates, cap \in Caps : StartReserve(c, estimate, cap)
           \/ cleanupExpired(c)
    PROVE  BudgetInv'
  <1>1. CASE \E estimate \in Estimates, cap \in Caps : StartReserve(c, estimate, cap)
    <2>1. PICK estimate \in Estimates, cap \in Caps : StartReserve(c, estimate, cap)
      BY <1>1
    <2> DEFINE todo == {r \in Expired : reservation[r].day = today}
               new == [NoCall EXCEPT !.pc = "reclaim", !.day = today, !.estimate = estimate, !.cap = cap, !.todo = todo]
    <2>2. todo \in SUBSET Reservation /\ today \in Day /\ estimate \in Nat /\ cap \in Cap
      BY BudgetAssumption DEF Expired, BudgetInv, BudgetTypeOK, Cap
    <2>3. /\ spender[c].pc = "idle" /\ spender' = [spender EXCEPT ![c] = new]
          /\ UNCHANGED <<budget, reservation, today, spent, uncovered>>
      BY <2>1 DEF StartReserve
    <2>4. new \in CallRecord /\ new.pc = "reclaim"
      <3> HIDE DEF todo
      <3> QED  BY <2>2, IdleIsCall DEF CallRecord
    <2> HIDE DEF new, todo
    <2> QED  BY <2>3, <2>4, CallMoves
  <1>2. CASE cleanupExpired(c)
    <2> DEFINE new == [NoCall EXCEPT !.pc = "sweep", !.todo = Expired]
    <2>1. /\ spender[c].pc = "idle" /\ spender' = [spender EXCEPT ![c] = new]
          /\ UNCHANGED <<budget, reservation, today, spent, uncovered>>
      BY <1>2 DEF cleanupExpired
    <2>2. new \in CallRecord /\ new.pc = "sweep"
      BY IdleIsCall DEF CallRecord, Expired
    <2> HIDE DEF new
    <2> QED  BY <2>1, <2>2, CallMoves
  <1> QED  BY <1>1, <1>2

LEMMA NotPaidKeeps ==
    ASSUME BudgetInv, NEW c \in Spender, ReclaimFails(c) \/ CallFails(c) \/ SweepEnds(c)
    PROVE  BudgetInv'
  <1>1. CASE spender' = [spender EXCEPT ![c] = NoCall] /\ spender[c].pc = "sweep"
             /\ UNCHANGED <<budget, reservation, today, spent, uncovered>>
    BY <1>1, IdleIsCall, CallMoves
  <1>2. CASE \E r \in spender[c].todo : /\ spender' = [spender EXCEPT ![c].todo = @ \ {r}]
                                        /\ UNCHANGED <<budget, reservation, today, spent, uncovered>>
    <2>1. PICK r \in spender[c].todo : /\ spender' = [spender EXCEPT ![c].todo = @ \ {r}]
                                       /\ UNCHANGED <<budget, reservation, today, spent, uncovered>>
      BY <1>2
    <2> DEFINE new == [spender[c] EXCEPT !.todo = @ \ {r}]
    <2>2. /\ new \in CallRecord /\ new.pc = spender[c].pc /\ new.id = spender[c].id /\ new.day = spender[c].day
          /\ new.cost = spender[c].cost
      BY CallIs DEF CallRecord
    <2>3. spender' = [spender EXCEPT ![c] = new]
      BY <2>1
    <2> HIDE DEF new
    <2> QED  BY <2>1, <2>2, <2>3, CallMoves DEF Calling
  <1>3. CASE CallFails(c)
    <2> DEFINE new == [spender[c] EXCEPT !.pc = "failed"]
    <2>1. /\ spender[c].pc = "held" /\ spender' = [spender EXCEPT ![c] = new]
          /\ UNCHANGED <<budget, reservation, today, spent, uncovered>>
      BY <1>3 DEF CallFails, Turns
    <2>2. new \in CallRecord /\ new.pc = "failed" /\ new.id = spender[c].id /\ new.day = spender[c].day
      BY CallIs DEF CallRecord
    <2> HIDE DEF new
    <2> QED  BY <2>1, <2>2, CallMoves DEF Calling
  <1>4. ReclaimFails(c) =>
          \/ /\ spender' = [spender EXCEPT ![c] = NoCall] /\ spender[c].pc = "sweep"
             /\ UNCHANGED <<budget, reservation, today, spent, uncovered>>
          \/ \E r \in spender[c].todo : /\ spender' = [spender EXCEPT ![c].todo = @ \ {r}]
                                        /\ UNCHANGED <<budget, reservation, today, spent, uncovered>>
    BY DEF ReclaimFails, Leaves
  <1> QED  BY <1>1, <1>2, <1>3, <1>4 DEF SweepEnds, Leaves

LEMMA SpenderDiesKeeps == ASSUME BudgetInv, NEW c \in Spender, SpenderDies(c) PROVE BudgetInv'
  <1>1. /\ spender' = [spender EXCEPT ![c] = NoCall]
        /\ uncovered' = IF spender[c].pc = "paid" THEN uncovered \union {spender[c].day} ELSE uncovered
        /\ UNCHANGED <<budget, reservation, today, spent>>
    BY DEF SpenderDies, Leaves
  <1>2. uncovered \subseteq uncovered' /\ uncovered' \in SUBSET Day
    BY <1>1, LedgerRows DEF BudgetInv, BudgetTypeOK
  <1>3. \A b \in Spender : spender[b].pc = "paid" /\ spender'[b].pc # "paid" => spender[b].day \in uncovered'
    BY <1>1, IdleIsCall, OtherCalls
  <1> QED  BY <1>1, <1>2, <1>3, IdleIsCall, OtherCalls, CallsEnd DEF BudgetInv, BudgetTypeOK

LEMMA ReclaimKeeps == ASSUME BudgetInv, NEW c \in Spender, Reclaim(c) PROVE BudgetInv'
  <1>1. PICK r \in spender[c].todo :
          /\ Undo(r) /\ spender' = [spender EXCEPT ![c].todo = @ \ {r}]
          /\ uncovered' = IF Held(r) /\ Unsettled(r) THEN uncovered \union {reservation[r].day} ELSE uncovered
          /\ UNCHANGED <<today, spent>>
    BY DEF Reclaim
  <1>2. r \in Reservation
    BY LedgerRows DEF BudgetInv
  <1> DEFINE new == [spender[c] EXCEPT !.todo = @ \ {r}]
  <1>3. /\ new \in CallRecord /\ new.pc = spender[c].pc /\ new.id = spender[c].id /\ new.day = spender[c].day
        /\ new.cost = spender[c].cost
    BY CallIs DEF CallRecord
  <1>4. spender' = [spender EXCEPT ![c] = new]
    BY <1>1
  <1> HIDE DEF new
  <1>5. new.pc \in {"held", "paid", "failed"} => Calling(c)
    BY <1>3 DEF Calling
  <1>6. \A b \in Spender : spender[b].pc = "paid" => spender'[b].pc = "paid"
    BY <1>3, <1>4 DEF BudgetInv, BudgetTypeOK
  <1>7. uncovered \subseteq uncovered' /\ uncovered' \in SUBSET Day /\ (Held(r) /\ Unsettled(r) => reservation[r].day \in uncovered')
    BY <1>1, <1>2, LedgerRows DEF BudgetInv, BudgetTypeOK
  <1> QED  BY <1>1, <1>2, <1>3, <1>4, <1>5, <1>6, <1>7, OtherCalls, UndoKeeps

LEMMA rollbackKeeps == ASSUME BudgetInv, NEW c \in Spender, rollback(c) PROVE BudgetInv'
  <1>1. /\ spender[c].pc = "failed" /\ spender' = [spender EXCEPT ![c] = NoCall]
        /\ Undo(spender[c].id) /\ UNCHANGED <<today, spent, uncovered>>
    BY DEF rollback, Leaves
  <1>2. PICK r \in Reservation : r = spender[c].id
    BY <1>1 DEF BudgetInv, OwnReservation, Calling
  <1>3. ~Unsettled(r)
    BY <1>1, <1>2 DEF BudgetInv, OwnReservation, Calling, Unsettled
  <1>4. \A b \in Spender : spender[b].pc = "paid" => spender'[b].pc = "paid"
    BY <1>1 DEF BudgetInv, BudgetTypeOK
  <1>5. uncovered' \in SUBSET Day
    BY <1>1 DEF BudgetInv, BudgetTypeOK
  <1> QED  BY <1>1, <1>2, <1>3, <1>4, <1>5, IdleIsCall, OtherCalls, UndoKeeps

LEMMA TimeKeeps ==
    ASSUME BudgetInv, Midnight \/ (\E r \in Reservation : ReservationExpires(r)) \/ UNCHANGED budgetVars
    PROVE  BudgetInv'
  <1>1. UNCHANGED <<budget, spender, spent, uncovered>>
    BY DEF Midnight, ReservationExpires, budgetVars
  <1>2. today' \in Day
    BY BudgetAssumption DEF Midnight, ReservationExpires, budgetVars, BudgetInv, BudgetTypeOK, Day
  <1>3. /\ reservation' \in [Reservation -> ReservationRow]
        /\ \A r \in Reservation : /\ reservation'[r].status = reservation[r].status
                                  /\ reservation'[r].day = reservation[r].day
                                  /\ reservation'[r].estimate = reservation[r].estimate
    <2>1. CASE Midnight \/ UNCHANGED budgetVars
      BY <2>1 DEF Midnight, budgetVars, BudgetInv, BudgetTypeOK
    <2>2. CASE \E r \in Reservation : ReservationExpires(r)
      <3>1. PICK r \in Reservation : reservation' = [reservation EXCEPT ![r].expired = TRUE]
        BY <2>2 DEF ReservationExpires
      <3> QED  BY <3>1 DEF BudgetInv, BudgetTypeOK, ReservationRow
    <2> QED  BY <2>1, <2>2
  <1> QED  BY <1>1, <1>2, <1>3, CallsEnd DEF BudgetInv, BudgetTypeOK, Calling

LEMMA BudgetStep == ASSUME BudgetInv, [BudgetNext]_budgetVars PROVE BudgetInv'
  <1>1. CASE Midnight \/ (\E r \in Reservation : ReservationExpires(r)) \/ UNCHANGED budgetVars
    BY <1>1, TimeKeeps
  <1>2. ASSUME NEW c \in Spender,
               \/ \E estimate \in Estimates, cap \in Caps : StartReserve(c, estimate, cap)
               \/ Reclaim(c) \/ ReclaimFails(c) \/ Reserve(c)
               \/ \E cost \in Costs : Pays(c, cost)
               \/ CallFails(c) \/ commit(c) \/ rollback(c)
               \/ cleanupExpired(c) \/ SweepEnds(c) \/ SpenderDies(c)
        PROVE  BudgetInv'
    BY <1>2, LooksUpKeeps, NotPaidKeeps, ReclaimKeeps, ReserveKeeps, PaysKeeps, commitKeeps, rollbackKeeps, SpenderDiesKeeps
  <1> QED  BY <1>1, <1>2 DEF BudgetNext

\* For any callers, estimates, costs and caps, however many reservations and days: on a covered day the
\* calls have not cost more than its cap.
THEOREM NeverOverspentHolds == BudgetSpec => []NeverOverspent
  <1>1. BudgetInv /\ [BudgetNext]_budgetVars => BudgetInv'
    BY BudgetStep
  <1> QED  BY <1>1, BudgetInitHolds, BudgetImplies, PTL DEF BudgetSpec
================================================================================
