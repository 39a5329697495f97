------------------------------- MODULE BrainSync -------------------------------
(***************************************************************************)
(* A git repository is copied into the pages of the brain: performSync     *)
(* (gbrain/src/commands/sync.ts), the full walk it falls back to, which is *)
(* also "gbrain import" (runImport of commands/import.ts), the ledger of   *)
(* files that failed (core/sync.ts), and the maintenance cycle that runs   *)
(* sync and then extract (core/cycle.ts), under the locks of DbLock.       *)
(*                                                                         *)
(* One action per statement that writes, per file, and per decision that   *)
(* reads the repository.  A file is its content, and the slug of a path is *)
(* the path.  Embeddings, tags, versions, last_run, repo_path and the text *)
(* of errors are left out, as are the other phases of the cycle.           *)
(***************************************************************************)
EXTENDS Naturals, FiniteSets, SequencesExt, DbLock

CONSTANTS
    Path, KindOf,   \* paths, numbers in the order of the walk: "md", "code" or
                    \* "meta", a markdown file isSyncable refuses (README.md, ops/)
    Content, Bad,   \* what a file may hold; the part of it that does not parse
    Cyclers,        \* agents that run cycles (autopilot, dream); the others are people
    Requests,       \* the options of the syncs asked for
    Scope,          \* "global" (config sync.*) or "source" (a row of sources)
    FirstTrees,     \* what the first commit may hold, in the instances nothing that does not parse
    Fresh,          \* does the behaviour begin before the first sync?
    Workers,        \* files runImport has in hand at once
    CheckpointEvery,\* files between two checkpoints of runImport, 100 in the code
    MaxCommit,      \* bound: commits ever made
    MaxChunker,     \* bound: CHUNKER_VERSIONs ever installed
    MaxFaults,      \* bound: calls that fail, and crashes
    MaxAsked,       \* bound: syncs and imports asked for by hand
    LongRuns        \* may a lock expire under a run that is still going?

ASSUME SyncAssumption ==
    /\ LockId = {"gbrain-sync", "gbrain-cycle"}
    /\ Path \subseteq Nat \ {0} /\ IsFiniteSet(Path)
    /\ KindOf \in [Path -> {"md", "code", "meta"}]
    /\ Bad \subseteq Content /\ "none" \notin Content
    /\ Cyclers \subseteq Agent
    /\ FirstTrees # {} /\ FirstTrees \subseteq [Path -> (Content \ Bad) \union {"none"}]
    /\ Requests \subseteq [skip : BOOLEAN, dry : BOOLEAN, full : BOOLEAN, kinds : SUBSET {"md", "code"}]
    /\ Scope \in {"global", "source"} /\ {LongRuns, Fresh} \subseteq BOOLEAN
    /\ {Workers, CheckpointEvery, MaxCommit, MaxChunker} \subseteq Nat \ {0} /\ {MaxFaults, MaxAsked} \subseteq Nat

VARIABLES
    tree,           \* the tree of each commit ever made
    line,           \* the commits HEAD stands on, HEAD last
    page,           \* pages: the text they hold and the version of their chunks
    unlinked,       \* pages whose text changed since their links were extracted
    anchor,         \* last_commit, of the global configuration and of the source
    stored, chunker,\* sources.chunker_version and CHUNKER_VERSION
    ledger,         \* sync-failures.jsonl
    checkpoint,     \* import-checkpoint.json
    agent,          \* the runs: locals of runCycle, performSync and runImport
    faults, asked,  \* counters for the bounds
    unsettled       \* history: paths last written by a run that has not moved the bookmark since

repo == <<tree, line>>
bookmark == <<anchor, stored, chunker>>
files == <<ledger, checkpoint>>
pages == <<page, unlinked>>
counters == <<faults, asked>>
vars == <<repo, pages, bookmark, files, agent, lock_row, counters, unsettled>>

NoPage == [text |-> "none", chunks |-> 0]
NoCheckpoint == [total |-> 0, index |-> 0]
CycleRequest == [skip |-> FALSE, dry |-> FALSE, full |-> FALSE, kinds |-> {"md"}]

Idle == [pc |-> "idle", req |-> CycleRequest, head |-> 0, stamp |-> FALSE,
         drop |-> {}, del |-> {}, ren |-> {}, again |-> {}, imp |-> {},
         walk |-> {}, total |-> 0, start |-> 0, processed |-> 0, threw |-> FALSE,
         failed |-> {}, drifted |-> FALSE, seen |-> {}, wrote |-> {}, affected |-> {},
         outcome |-> "none", missed |-> FALSE]

\* What performSync does under its lock.
Syncing == {"plan", "drop", "apply", "walk", "walked", "advance", "stamp", "inline", "leave"}
InSync(a) == agent[a].pc \in Syncing /\ agent[a].outcome # "import"
InCycle(a) == agent[a].pc # "idle" /\ a \in Cyclers
Inside == [i \in LockId |-> {a \in Agent : IF i = "gbrain-sync" THEN InSync(a) ELSE InCycle(a)}]

Reasons == {"vanished", "parse", "exception", "drift"}

TypeOK ==
    /\ tree \in Seq([Path -> Content \union {"none"}]) /\ Len(tree) \in 1..MaxCommit
    /\ line \in Seq(1..Len(tree)) /\ line # <<>>
    /\ page \in [Path -> [text : Content \union {"none"}, chunks : 0..MaxChunker]]
    /\ anchor \in [{"global", "source"} -> 0..MaxCommit]
    /\ stored \in 0..MaxChunker /\ chunker \in 1..MaxChunker
    /\ ledger \subseteq [path : Path \union {0}, why : Reasons, commit : 1..MaxCommit, acked : BOOLEAN]
    /\ checkpoint.total \in 0..Cardinality(Path) /\ checkpoint.index \in 0..checkpoint.total
    /\ DOMAIN agent = Agent
    /\ \A a \in Agent : agent[a].pc \in Syncing \union {"idle", "phases", "extract", "release"}
    /\ unlinked \subseteq Path /\ unsettled \subseteq Path
    /\ faults \in 0..MaxFaults /\ asked \in 0..MaxAsked /\ LockTypeOK

\* A new brain, or one whose first sync, a full walk, has gone through.
Init ==
    /\ \E t \in FirstTrees :
          LET walked == {p \in Path : ~Fresh /\ KindOf[p] # "code" /\ t[p] # "none"} IN
          /\ tree = <<t>>
          /\ page = [p \in Path |-> IF p \in walked THEN [text |-> t[p], chunks |-> 1] ELSE NoPage]
          /\ unlinked = walked
    /\ line = <<1>>
    /\ anchor = [s \in {"global", "source"} |-> IF Fresh THEN 0 ELSE 1]
    /\ stored = (IF Fresh \/ Scope = "global" THEN 0 ELSE 1) /\ chunker = 1
    /\ ledger = {} /\ checkpoint = NoCheckpoint
    /\ agent = [a \in Agent |-> Idle]
    /\ faults = 0 /\ asked = 0 /\ unsettled = {}
    /\ LockInit

HEAD == Last(line)
Disk == tree[HEAD]
isSyncable(p, kinds) == KindOf[p] \in kinds

Fault == faults < MaxFaults /\ faults' = faults + 1
Asked == asked < MaxAsked /\ asked' = asked + 1
Set(a, rec) == agent' = [agent EXCEPT ![a] = rec]
GoTo(a, pc) == agent' = [agent EXCEPT ![a].pc = pc]

\* History: a run has written these pages.  Until it moves the bookmark they are unsettled, and no
\* other run answers for them any more.
Wrote(a, written, rec) ==
    /\ agent' = [b \in Agent |-> IF b = a THEN rec
                                 ELSE [agent[b] EXCEPT !.seen = @ \ written, !.wrote = @ \ written]]
    /\ unsettled' = unsettled \union written

-----------------------------------------------------------------------------
(* Git, outside the program, moves HEAD and the working tree at any moment. *)

Elsewhere == UNCHANGED <<pages, bookmark, files, agent, lock_row, counters, unsettled>>

\* One file changes, appears, disappears or moves.
Edits(t) ==
    {[t EXCEPT ![p] = c] : p \in Path, c \in Content \union {"none"}}
        \union {[t EXCEPT ![p] = "none", ![q] = t[p]] : p \in Path, q \in {q \in Path : t[q] = "none"}}

Commit ==
    /\ Len(tree) < MaxCommit
    /\ \E t \in Edits(Disk) \ {Disk} : tree' = Append(tree, t)
    /\ line' = Append(line, Len(tree) + 1)
    /\ Elsewhere

\* commit --amend, rebase, or the pull of a forced push: the last commits are replaced.
Rewrite ==
    /\ Len(tree) < MaxCommit
    /\ \E t \in Edits(Disk) : tree' = Append(tree, t)
    /\ \E keep \in 0..Len(line) - 1 : line' = Append(SubSeq(line, 1, keep), Len(tree) + 1)
    /\ Elsewhere

\* An upgrade of gbrain; no run survives it.
Upgrade ==
    /\ chunker < MaxChunker /\ \A a \in Agent : agent[a].pc = "idle"
    /\ chunker' = chunker + 1
    /\ UNCHANGED <<repo, pages, anchor, stored, files, agent, lock_row, counters, unsettled>>

-----------------------------------------------------------------------------
(* performSync: lock, capture HEAD, choose between nothing, walk and diff.  *)

\* A sync that finds the lock taken throws and changes nothing.
StartSync(a) ==
    /\ agent[a].pc = "idle" /\ a \notin Cyclers
    /\ tryAcquireDbLock("gbrain-sync", a)
    /\ Asked
    /\ \E r \in Requests : Set(a, [Idle EXCEPT !.pc = "plan", !.req = r])
    /\ UNCHANGED <<repo, pages, bookmark, files, faults, unsettled>>

\* How many of the files come before p in the order of the walk.
Before(p, among) == Cardinality({q \in among : q < p})

\* collectMarkdownFiles of the working tree, from where the checkpoint stands.
Walking(rec) ==
    LET all == {p \in Path : KindOf[p] # "code" /\ Disk[p] # "none"}
        skip == IF checkpoint.total = Cardinality(all) THEN checkpoint.index ELSE 0
    IN  [rec EXCEPT !.pc = "walk", !.head = HEAD, !.outcome = "full",
                    !.walk = {p \in all : Before(p, all) >= skip}, !.total = Cardinality(all), !.start = skip]

\* A dry run of performFullSync only counts, but the chunker gate still stamps the source.
FullSync(rec) ==
    IF ~rec.req.dry THEN Walking(rec)
    ELSE [rec EXCEPT !.pc = IF rec.stamp THEN "stamp" ELSE "leave", !.outcome = "dry"]

Deleted(old, new) == {p \in Path : old[p] # "none" /\ new[p] = "none"}
Added(old, new) == {p \in Path : old[p] = "none" /\ new[p] # "none"}
Modified(old, new) == {p \in Path : old[p] # "none" /\ new[p] # "none" /\ old[p] # new[p]}

\* What git diff -M may report as moves: files alike pair up, equal ones always do.
Renames(old, new) ==
    {R \in SUBSET (Deleted(old, new) \X Added(old, new)) :
        /\ \A x, y \in R : (x[1] = y[1]) = (x[2] = y[2])
        /\ \A d \in Deleted(old, new), n \in Added(old, new) :
               old[d] = new[n] => \E x \in R : x[1] = d \/ x[2] = n}

\* buildSyncManifest and the filters: a move is kept or dropped by where it goes.
Manifest(rec, old, R) ==
    LET wanted == {p \in Path : isSyncable(p, rec.req.kinds)} IN
    [rec EXCEPT !.pc = "drop", !.outcome = "synced",
                !.drop = Modified(old, Disk) \ wanted,
                !.del = (Deleted(old, Disk) \ {x[1] : x \in R}) \cap wanted,
                !.ren = {x \in R : x[2] \in wanted},
                !.imp = ((Added(old, Disk) \ {x[2] : x \in R}) \union Modified(old, Disk)) \cap wanted]

Plan(a) ==
    LET last == IF agent[a].req.full THEN 0 ELSE anchor[Scope]
        stale == Scope = "source" /\ stored # chunker
        me == [agent[a] EXCEPT !.head = HEAD]
    IN  /\ agent[a].pc = "plan"
        /\ \/ /\ last \notin Range(line)         \* first sync, --full, or history rewritten
              /\ Set(a, FullSync(me))
              /\ UNCHANGED unsettled
           \/ /\ last = HEAD /\ ~stale
              /\ Set(a, [me EXCEPT !.pc = "leave", !.outcome = "up_to_date"])
              /\ UNCHANGED unsettled
           \/ /\ last = HEAD /\ stale
              /\ Set(a, FullSync([me EXCEPT !.stamp = TRUE]))
              /\ UNCHANGED unsettled
           \/ /\ last \in Range(line) \ {HEAD}
              /\ \E R \in Renames(tree[last], Disk) :
                    LET m == Manifest(me, tree[last], R) IN
                    /\ Set(a, m)
                    /\ unsettled' = unsettled \union {x[1] : x \in R \ m.ren}
        /\ UNCHANGED <<repo, pages, bookmark, files, lock_row, counters>>

-----------------------------------------------------------------------------
(* The incremental path.                                                   *)

\* The pages of these paths are gone, and this run has seen to it.
NoLonger(a, gone, rec) ==
    /\ page' = [p \in Path |-> IF p \in gone THEN NoPage ELSE page[p]]
    /\ unlinked' = unlinked \ gone
    /\ Wrote(a, gone, [rec EXCEPT !.seen = @ \union gone, !.wrote = @ \union gone])

\* Pages of modified files the filter refuses go first, whatever the options; errors are ignored.
DropUnsyncable(a) ==
    /\ agent[a].pc = "drop"
    /\ \E p \in agent[a].drop :
          LET rest == [agent[a] EXCEPT !.drop = @ \ {p}] IN
          \/ NoLonger(a, {p}, rest) /\ UNCHANGED faults
          \/ Fault /\ Set(a, rest) /\ UNCHANGED <<pages, unsettled>>
    /\ UNCHANGED <<repo, bookmark, files, lock_row, asked>>

Decide(a) ==
    LET me == agent[a] IN
    /\ me.pc = "drop" /\ me.drop = {}
    /\ Set(a, IF me.req.dry THEN [me EXCEPT !.pc = "leave", !.outcome = "dry"]
              ELSE IF me.del = {} /\ me.ren = {} /\ me.imp = {} THEN [me EXCEPT !.pc = "advance"]
              ELSE [me EXCEPT !.pc = "apply"])
    /\ UNCHANGED <<repo, pages, bookmark, files, lock_row, counters, unsettled>>

Thrown(rec) == [rec EXCEPT !.pc = "leave", !.outcome = "thrown"]

Delete(a) ==
    LET me == agent[a] IN
    /\ me.pc = "apply"
    /\ \E p \in me.del :
          \/ /\ NoLonger(a, {p}, [me EXCEPT !.del = @ \ {p}, !.affected = @ \union {p}])
             /\ UNCHANGED faults
          \/ Fault /\ Set(a, Thrown(me)) /\ UNCHANGED <<pages, unsettled>>
    /\ UNCHANGED <<repo, bookmark, files, lock_row, asked>>

\* updateSlug; without a page to move, or with one in the way, nothing happens and the old page stays.
Rename(a) ==
    /\ agent[a].pc = "apply" /\ agent[a].del = {} /\ agent[a].again = {}
    /\ \E x \in agent[a].ren :
          LET old == x[1]  new == x[2]
              me == [agent[a] EXCEPT !.ren = @ \ {x}, !.again = {new}]
              moves == page[old] # NoPage /\ page[new] = NoPage
          IN  \/ /\ moves
                 /\ page' = [page EXCEPT ![new] = page[old], ![old] = NoPage]
                 /\ unlinked' = IF old \in unlinked THEN (unlinked \ {old}) \union {new} ELSE unlinked
                 /\ Wrote(a, {old, new}, [me EXCEPT !.seen = (@ \union {old}) \ {new},
                                                    !.wrote = @ \union {old, new}])
              \/ /\ ~moves
                 /\ Set(a, me) /\ unsettled' = unsettled \union {old} /\ UNCHANGED pages
    /\ UNCHANGED <<repo, bookmark, files, lock_row, counters>>

Unchanged(p) == page[p].text = Disk[p] /\ (KindOf[p] = "code" => page[p].chunks = chunker)
Importable(p) == Disk[p] \in Content \ Bad

\* importFile of a file that parses: skipped when its hash is that of the page.
Import(a, p, rec) ==
    LET me == [rec EXCEPT !.seen = @ \union {p}] IN
    \/ /\ Unchanged(p)
       /\ Set(a, me) /\ UNCHANGED <<pages, unsettled>>
    \/ /\ ~Unchanged(p)
       /\ page' = [page EXCEPT ![p] = [text |-> Disk[p], chunks |-> chunker]]
       /\ unlinked' = unlinked \union {p}
       /\ Wrote(a, {p}, [me EXCEPT !.wrote = @ \union {p}, !.affected = @ \union {p}])

\* Mutant of Reimport: only a page whose text changes is pushed to pagesAffected.
ReimportSilently(a) ==
    /\ agent[a].pc = "apply"
    /\ \E p \in agent[a].again : Importable(p) /\ Import(a, p, [agent[a] EXCEPT !.again = {}])
    /\ UNCHANGED <<repo, bookmark, files, lock_row, counters>>

\* The file at its new path is imported at once; only an exception is heard of.
Reimport(a) ==
    /\ agent[a].pc = "apply"
    /\ \E p \in agent[a].again :
          LET me == [agent[a] EXCEPT !.again = {}, !.affected = @ \union {p}] IN
          \/ Importable(p) /\ Import(a, p, me) /\ UNCHANGED faults
          \/ ~Importable(p) /\ Set(a, me) /\ unsettled' = unsettled \union {p} /\ UNCHANGED <<pages, faults>>
          \/ Disk[p] # "none" /\ Fault /\ Set(a, Thrown(me)) /\ UNCHANGED <<pages, unsettled>>
    /\ UNCHANGED <<repo, bookmark, files, lock_row, asked>>

\* What cannot be imported is put down, with its reason, and the next file taken up.
Failures(p) == IF Importable(p) THEN {}
               ELSE {[path |-> p, why |-> IF Disk[p] = "none" THEN "vanished" ELSE "parse"]}
Exception(p) == [path |-> p, why |-> "exception"]

ImportOne(a) ==
    LET me == agent[a] IN
    /\ me.pc = "apply" /\ me.del = {} /\ me.ren = {} /\ me.again = {}
    /\ \E p \in me.imp :
          LET rest == [me EXCEPT !.imp = @ \ {p}] IN
          \/ Importable(p) /\ Import(a, p, rest) /\ UNCHANGED faults
          \/ /\ ~Importable(p)
             /\ Set(a, [rest EXCEPT !.failed = @ \union Failures(p)]) /\ UNCHANGED <<pages, unsettled, faults>>
          \/ /\ Disk[p] # "none" /\ Fault
             /\ Set(a, [rest EXCEPT !.failed = @ \union {Exception(p)}]) /\ UNCHANGED <<pages, unsettled>>
    /\ UNCHANGED <<repo, bookmark, files, lock_row, asked>>

\* recordSyncFailures: one line per path, commit and error, acknowledged lines included.
Record(failed, commit) ==
    ledger \union {[path |-> f.path, why |-> f.why, commit |-> commit, acked |-> FALSE] :
                     f \in {f \in failed : ~\E e \in ledger :
                               e.path = f.path /\ e.why = f.why /\ e.commit = commit}}
acknowledgeSyncFailures(rows) == {[e EXCEPT !.acked = TRUE] : e \in rows}

\* Mutant of Judge: the failures are recorded and the bookmark moves all the same.
JudgeAnyway(a, me) ==
    /\ Set(a, [me EXCEPT !.pc = "advance"])
    /\ ledger' = Record(me.failed, me.head)

\* The bookmark waits for a clean run, or for --skip-failed.
Judge(a, me) ==
    LET rows == Record(me.failed, me.head) IN
    \/ /\ me.failed = {}
       /\ Set(a, [me EXCEPT !.pc = "advance"]) /\ UNCHANGED ledger
    \/ /\ me.failed # {} /\ ~me.req.skip
       /\ Set(a, [me EXCEPT !.pc = IF me.stamp THEN "stamp" ELSE "leave",
                           !.outcome = IF @ = "full" THEN "full_blocked" ELSE "blocked"])
       /\ ledger' = rows
    \/ /\ me.failed # {} /\ me.req.skip
       /\ Set(a, [me EXCEPT !.pc = "advance"]) /\ ledger' = acknowledgeSyncFailures(rows)

\* HEAD is read again; all of it happens without an await.
Gate(a) ==
    LET me == agent[a] IN
    /\ me.pc = "apply" /\ me.del = {} /\ me.ren = {} /\ me.again = {} /\ me.imp = {}
    /\ Judge(a, [me EXCEPT !.drifted = HEAD # me.head,
                           !.failed = IF HEAD # me.head THEN @ \union {[path |-> 0, why |-> "drift"]} ELSE @])
    /\ UNCHANGED <<repo, pages, bookmark, checkpoint, lock_row, counters, unsettled>>

\* History: what a run has seen is settled once it has moved the bookmark over a HEAD that stood
\* still; a walk leaves the pages of files that are gone.
Settle(me) ==
    LET ghosts == IF me.outcome = "synced" THEN {} ELSE {p \in Path : page[p] # NoPage /\ tree[me.head][p] = "none"}
    IN  unsettled' = (IF me.drifted THEN unsettled \union me.seen ELSE unsettled \ me.seen) \union ghosts

\* An up-to-date diff, an incremental and a full sync end alike: last_commit, then the version.
Advance(a) ==
    LET me == agent[a] IN
    /\ me.pc = "advance"
    /\ anchor' = [anchor EXCEPT ![Scope] = me.head]
    /\ Set(a, [me EXCEPT !.pc = "stamp"])
    /\ Settle(me)
    /\ UNCHANGED <<repo, pages, stored, chunker, files, lock_row, counters>>

writeChunkerVersion(a) ==
    /\ agent[a].pc = "stamp"
    /\ stored' = IF Scope = "source" THEN chunker ELSE stored
    /\ GoTo(a, IF agent[a].outcome = "synced" /\ a \notin Cyclers THEN "inline" ELSE "leave")
    /\ UNCHANGED <<repo, pages, anchor, chunker, files, lock_row, counters, unsettled>>

\* Links of these pages from the files as they are now; an error leaves some of them for good.
Extract(a, which, next) ==
    \/ /\ unlinked' = unlinked \ {p \in which : Disk[p] # "none"}
       /\ Set(a, next) /\ UNCHANGED faults
    \/ /\ Fault /\ Set(a, [next EXCEPT !.missed = TRUE]) /\ UNCHANGED unlinked

\* extractLinksForSlugs at the end of a sync that is not part of a cycle.
Inline(a) ==
    /\ agent[a].pc = "inline"
    /\ Extract(a, agent[a].affected, [agent[a] EXCEPT !.pc = "leave"])
    /\ UNCHANGED <<repo, page, bookmark, files, lock_row, unsettled, asked>>

\* The finally block; a release that fails leaves the row to its expiry.
LeaveSync(a) ==
    LET me == agent[a] IN
    /\ me.pc = "leave"
    /\ \/ lock_row' = Released("gbrain-sync", a) /\ UNCHANGED faults
       \/ Fault /\ UNCHANGED lock_row
    /\ Set(a, IF a \in Cyclers THEN [me EXCEPT !.pc = "extract"] ELSE Idle)
    /\ UNCHANGED <<repo, pages, bookmark, files, unsettled, asked>>

-----------------------------------------------------------------------------
(* The full walk.                                                          *)

\* "gbrain import <dir>", which takes no lock.
StartImport(a) ==
    /\ agent[a].pc = "idle" /\ a \notin Cyclers
    /\ Asked
    /\ Set(a, [Walking(Idle) EXCEPT !.outcome = "import"])
    /\ UNCHANGED <<repo, pages, bookmark, files, lock_row, faults, unsettled>>

\* processFile: the counter moves and is saved whether the file was imported or not.
WalkOne(a) ==
    LET me == agent[a] IN
    /\ me.pc = "walk"
    /\ \E p \in me.walk :
          LET rest == [me EXCEPT !.walk = @ \ {p}, !.processed = @ + 1]
          IN  /\ Before(p, me.walk) < Workers
              /\ \/ Importable(p) /\ Import(a, p, rest) /\ UNCHANGED faults
                 \/ /\ ~Importable(p)
                    /\ Set(a, [rest EXCEPT !.failed = @ \union Failures(p),
                                           !.threw = @ \/ Disk[p] = "none"])
                    /\ UNCHANGED <<pages, unsettled, faults>>
                 \/ /\ Disk[p] # "none" /\ Fault
                    /\ Set(a, [rest EXCEPT !.failed = @ \union {Exception(p)}, !.threw = TRUE])
                    /\ UNCHANGED <<pages, unsettled>>
              /\ checkpoint' = IF rest.processed % CheckpointEvery # 0 THEN checkpoint
                               ELSE [total |-> me.total, index |-> me.start + rest.processed]
    /\ UNCHANGED <<repo, bookmark, ledger, lock_row, asked>>

\* The end of runImport: a walk without failures moves the global bookmark to the HEAD of now.
WalkEnd(a) ==
    LET me == agent[a]
        done == [me EXCEPT !.drifted = HEAD # me.head, !.affected = {}]
    IN  /\ me.pc = "walk" /\ me.walk = {}
        /\ checkpoint' = IF me.threw THEN checkpoint ELSE NoCheckpoint
        /\ ledger' = Record(me.failed, HEAD)
        /\ anchor' = IF me.failed = {} THEN [anchor EXCEPT !["global"] = HEAD] ELSE anchor
        /\ IF me.outcome = "import"
           THEN /\ Set(a, Idle)
                /\ IF Scope = "global" /\ me.failed = {} THEN Settle(done) ELSE UNCHANGED unsettled
           ELSE Set(a, [done EXCEPT !.pc = "walked"]) /\ UNCHANGED unsettled
        /\ UNCHANGED <<repo, pages, stored, chunker, lock_row, counters>>

\* performFullSync asks the ledger again before it moves its own bookmark.
WalkGate(a) ==
    /\ agent[a].pc = "walked"
    /\ Judge(a, agent[a])
    /\ UNCHANGED <<repo, pages, bookmark, checkpoint, lock_row, counters, unsettled>>

-----------------------------------------------------------------------------
(* The cycle: sync without its inline extraction, then extract, one lock around both. *)

\* A cycle that finds the lock taken is skipped.
StartCycle(a) ==
    /\ agent[a].pc = "idle" /\ a \in Cyclers
    /\ tryAcquireDbLock("gbrain-cycle", a)
    /\ Set(a, [Idle EXCEPT !.pc = "phases"])
    /\ UNCHANGED <<repo, pages, bookmark, files, counters, unsettled>>

\* Mutant of CycleSync: the cycle takes its own lock for enough.
CycleSyncUnlocked(a) ==
    /\ agent[a].pc = "phases"
    /\ GoTo(a, "plan")
    /\ UNCHANGED <<repo, pages, bookmark, files, lock_row, counters, unsettled>>

\* runPhaseSync swallows what performSync throws, a taken lock first of all.
CycleSync(a) ==
    /\ agent[a].pc = "phases"
    /\ \/ tryAcquireDbLock("gbrain-sync", a) /\ GoTo(a, "plan")
       \/ /\ ~Free("gbrain-sync") /\ UNCHANGED lock_row
          /\ Set(a, [agent[a] EXCEPT !.pc = "extract", !.outcome = "thrown"])
    /\ UNCHANGED <<repo, pages, bookmark, files, counters, unsettled>>

\* The slugs of sync, or everything when sync did not say.
CycleExtract(a) ==
    LET me == agent[a] IN
    /\ me.pc = "extract"
    /\ Extract(a, IF me.outcome = "thrown" THEN Path ELSE me.affected, [me EXCEPT !.pc = "release"])
    /\ UNCHANGED <<repo, page, bookmark, files, lock_row, asked, unsettled>>

\* checkAborted between two phases.
CycleAborted(a) ==
    /\ agent[a].pc \in {"phases", "extract"}
    /\ Set(a, [agent[a] EXCEPT !.pc = "release", !.missed = TRUE])
    /\ UNCHANGED <<repo, pages, bookmark, files, lock_row, counters, unsettled>>

EndCycle(a) ==
    /\ agent[a].pc = "release"
    /\ \/ lock_row' = Released("gbrain-cycle", a) /\ UNCHANGED faults
       \/ Fault /\ UNCHANGED lock_row
    /\ Set(a, Idle)
    /\ UNCHANGED <<repo, pages, bookmark, files, asked, unsettled>>

-----------------------------------------------------------------------------
(* The end of a process, and of a lock.                                    *)

Crash(pid) ==
    LET dead == {a \in Agent : PidOf[a] = pid} IN
    /\ \E a \in dead : agent[a].pc # "idle"
    /\ Fault
    /\ agent' = [a \in Agent |-> IF a \in dead THEN Idle ELSE agent[a]]
    /\ UNCHANGED <<repo, pages, bookmark, files, lock_row, asked, unsettled>>

Expire(i) ==
    /\ LongRuns \/ Inside[i] = {}
    /\ LockExpires(i)
    /\ UNCHANGED <<repo, pages, bookmark, files, agent, counters, unsettled>>

Step(a) ==
    \/ Plan(a) \/ DropUnsyncable(a) \/ Decide(a) \/ Delete(a) \/ Rename(a) \/ Reimport(a) \/ ImportOne(a)
    \/ Gate(a) \/ Advance(a) \/ writeChunkerVersion(a) \/ Inline(a) \/ LeaveSync(a)
    \/ WalkOne(a) \/ WalkEnd(a) \/ WalkGate(a)
    \/ CycleSync(a) \/ CycleExtract(a) \/ EndCycle(a)

Next ==
    \/ Commit \/ Rewrite \/ Upgrade
    \/ \E a \in Agent : StartSync(a) \/ StartImport(a) \/ StartCycle(a) \/ Step(a) \/ CycleAborted(a)
    \/ \E pid \in Pid : Crash(pid)
    \/ \E i \in LockId : Expire(i)

Spec == Init /\ [][Next]_vars

\* Runs go on, autopilot starts cycles for ever and does not abort them all, and locks expire.
Fairness ==
    /\ \A a \in Agent : WF_vars(Step(a))
    /\ \A a \in Cyclers : WF_vars(StartCycle(a)) /\ SF_vars(CycleSync(a))
    /\ \A i \in LockId : WF_vars(Expire(i))

FairSpec == Spec /\ Fairness

-----------------------------------------------------------------------------
(* Properties.                                                             *)

\* What the bookmark says: the page of a markdown file is the file as it is at last_commit, gone
\* if the file is, for every path but those last written by a run that is still going, failed,
\* drifted or had no lock, and those whose failure somebody acknowledged (the gate of sync.ts,
\* "DO NOT advance").
Acknowledged == {e.path : e \in {e \in ledger : e.acked}}
Honest ==
    anchor[Scope] = 0 \/
    \A p \in Path \ (unsettled \union Acknowledged) :
        KindOf[p] = "md" => page[p].text = tree[anchor[Scope]][p]

\* The bookmark never moves back along the history, whoever syncs (the comment on CODEX-2).
BookmarkForward ==
    [][{anchor[Scope], anchor'[Scope]} \subseteq Range(line') => anchor'[Scope] >= anchor[Scope]]_vars

\* The two locks are the mutual exclusion they stand for.
Exclusion == INSTANCE Mutex WITH inside <- Inside
LockSpec == Exclusion!Spec

\* Who has extracted without an error leaves no page that it was the last to write without its links.
LinksLeft(a, outcomes) ==
    LET me == agent'[a] IN
    /\ agent[a].pc \in {"inline", "extract"} /\ me.pc \in {"leave", "release"}
    /\ ~me.missed /\ me.outcome \in outcomes
    /\ \E p \in me.wrote \cap unlinked' : Disk[p] # "none"
LinksFollow == [][\A a \in Agent : ~LinksLeft(a, {"synced", "blocked", "thrown", "up_to_date"})]_vars

\* Once people leave the repository alone the bookmark reaches HEAD, unless a file does not parse.
Unparsable == \E p \in Path : KindOf[p] # "code" /\ Disk[p] \in Bad
CatchesUp == <>[](Unparsable \/ anchor[Scope] = HEAD)
================================================================================
