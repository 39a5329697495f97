------------------------------- MODULE EngineMove -------------------------------
(***************************************************************************)
(* gbrain migrate --to <engine> (commands/migrate-engine.ts): a brain is   *)
(* copied page by page to another engine, the links follow, and only then  *)
(* does the configuration name the new one.  A manifest on disk says which *)
(* pages a move that died had copied.  Nothing keeps the old brain from    *)
(* being written meanwhile.                                                *)
(***************************************************************************)
EXTENDS Naturals, FiniteSets

CONSTANTS
    Page,           \* slugs
    Content,        \* what a page may hold: its row, and its chunks, tags and timeline
    None,           \* no page
    Linked          \* the links of the brain, whenever both of their pages are there

ASSUME MoveAssumption == None \notin Content \union Page /\ Linked \subseteq Page \X Page

VARIABLES
    source,         \* the rows of the brain that is moved
    sourceHidden,   \* those that are soft-deleted
    target,         \* the rows of the other brain
    targetHidden,
    targetRest,     \* by page: whose chunks, tags and timeline the other brain has
    targetLinks,
    manifest,       \* completed_slugs; no file is an empty one
    engine,         \* which of them the configuration names
    mover,          \* the command: where it is, the listing it made, the pages still to do, the one in hand
    late,           \* history: the old brain was written after it was listed
    resumed         \* history: this run leaves out pages that the manifest names

moveVars == <<source, sourceHidden, target, targetHidden, targetRest, targetLinks,
              manifest, engine, mover, late, resumed>>

Rows == [Page -> Content \union {None}]
NoMover == [pc |-> "idle", list |-> [p \in Page |-> None], todo |-> {}, at |-> None]

Visible(rows, hidden) == {p \in Page \ hidden : rows[p] # None}
Between(l, pages) == l[1] \in pages /\ l[2] \in pages
HasRow(rows) == {p \in Page : rows[p] # None}

\* The other brain may have pages of its own, deleted ones too; nobody else uses it.
MoveInit ==
    /\ source \in Rows /\ sourceHidden = {}
    /\ target \in Rows /\ targetHidden \in SUBSET HasRow(target)
    /\ targetRest = target /\ targetLinks = {l \in Linked : Between(l, HasRow(target))}
    /\ manifest = {} /\ engine = "old" /\ mover = NoMover
    /\ late = FALSE /\ resumed = FALSE

-----------------------------------------------------------------------------
(* The old brain is in use.                                                *)

TargetUnchanged == UNCHANGED <<target, targetHidden, targetRest, targetLinks, manifest, engine>>

Written ==
    /\ late' = (late \/ mover.pc \in {"pages", "rest", "save", "links"} \/ engine = "new")
    /\ TargetUnchanged /\ UNCHANGED <<mover, resumed>>

WritePage(p, c) ==
    /\ source[p] # c /\ source' = [source EXCEPT ![p] = c]
    /\ UNCHANGED sourceHidden /\ Written

DeletePage(p) ==
    /\ p \in Visible(source, sourceHidden)
    /\ sourceHidden' = sourceHidden \union {p}
    /\ UNCHANGED source /\ Written

PurgePage(p) ==
    /\ p \in sourceHidden
    /\ source' = [source EXCEPT ![p] = None] /\ sourceHidden' = sourceHidden \ {p}
    /\ Written

-----------------------------------------------------------------------------
(* The command.                                                            *)

SourceUnchanged == UNCHANGED <<source, sourceHidden>>
Moves(rec) == mover' = rec

\* A target with pages is refused, or wiped page by page.
StartMove(force) ==
    LET found == Visible(target, targetHidden) IN
    /\ mover.pc = "idle" /\ engine = "old"
    /\ force \/ found = {}
    /\ Moves([NoMover EXCEPT !.pc = "wipe", !.todo = found])
    /\ SourceUnchanged /\ TargetUnchanged /\ UNCHANGED <<late, resumed>>

WipePage(p) ==
    /\ mover.pc = "wipe" /\ p \in mover.todo
    /\ target' = [target EXCEPT ![p] = None] /\ targetRest' = [targetRest EXCEPT ![p] = None]
    /\ targetLinks' = {l \in targetLinks : p \notin {l[1], l[2]}}
    /\ Moves([mover EXCEPT !.todo = @ \ {p}])
    /\ SourceUnchanged /\ UNCHANGED <<targetHidden, manifest, engine, late, resumed>>

\* The manifest is loaded, the source listed, and what the manifest names is left out.
ListPages ==
    LET found == Visible(source, sourceHidden) IN
    /\ mover.pc = "wipe" /\ mover.todo = {}
    /\ Moves([mover EXCEPT !.pc = "pages", !.todo = found \ manifest,
                           !.list = [p \in Page |-> IF p \in found THEN source[p] ELSE None]])
    /\ late' = FALSE /\ resumed' = (manifest # {})
    /\ SourceUnchanged /\ TargetUnchanged

\* The row as it was listed; an upsert, which leaves deleted_at alone.
PutListed(p) ==
    /\ mover.pc = "pages" /\ p \in mover.todo
    /\ target' = [target EXCEPT ![p] = mover.list[p]]
    /\ Moves([mover EXCEPT !.pc = "rest", !.at = p])
    /\ SourceUnchanged /\ UNCHANGED <<targetHidden, targetRest, targetLinks, manifest, engine, late, resumed>>

\* Its chunks, tags, timeline and raw data as they are now.
CopyRest ==
    /\ mover.pc = "rest"
    /\ targetRest' = IF source[mover.at] = None THEN targetRest
                     ELSE [targetRest EXCEPT ![mover.at] = source[mover.at]]
    /\ Moves([mover EXCEPT !.pc = "save"])
    /\ SourceUnchanged /\ UNCHANGED <<target, targetHidden, targetLinks, manifest, engine, late, resumed>>

SaveManifest ==
    /\ mover.pc = "save"
    /\ manifest' = manifest \union {mover.at}
    /\ Moves([mover EXCEPT !.pc = "pages", !.todo = @ \ {mover.at}, !.at = None])
    /\ SourceUnchanged /\ UNCHANGED <<target, targetHidden, targetRest, targetLinks, engine, late, resumed>>

StartLinks ==
    /\ mover.pc = "pages" /\ mover.todo = {}
    /\ Moves([mover EXCEPT !.pc = "links", !.todo = {p \in Page : mover.list[p] # None}])
    /\ SourceUnchanged /\ TargetUnchanged /\ UNCHANGED <<late, resumed>>

\* The links of one page as they are now.  addLink throws when a page of a link has no row there.
CopyLinks(p) ==
    LET mine == {l \in Linked : l[1] = p /\ Between(l, HasRow(source))} IN
    /\ mover.pc = "links" /\ p \in mover.todo
    /\ \A l \in mine : Between(l, HasRow(target))
    /\ targetLinks' = targetLinks \union mine
    /\ Moves([mover EXCEPT !.todo = @ \ {p}])
    /\ SourceUnchanged /\ UNCHANGED <<target, targetHidden, targetRest, manifest, engine, late, resumed>>

\* Mutant of SaveConfig: the links are still being copied.
SaveConfigEarly ==
    /\ mover.pc = "links"
    /\ engine' = "new"
    /\ Moves([NoMover EXCEPT !.pc = "clear"])
    /\ SourceUnchanged
    /\ UNCHANGED <<target, targetHidden, targetRest, targetLinks, manifest, late, resumed>>

\* saveConfig, and after it clearManifest.
SaveConfig ==
    /\ mover.pc = "links" /\ mover.todo = {}
    /\ engine' = "new"
    /\ Moves([NoMover EXCEPT !.pc = "clear"])
    /\ SourceUnchanged
    /\ UNCHANGED <<target, targetHidden, targetRest, targetLinks, manifest, late, resumed>>

ClearManifest ==
    /\ mover.pc = "clear"
    /\ manifest' = {} /\ Moves(NoMover)
    /\ SourceUnchanged
    /\ UNCHANGED <<target, targetHidden, targetRest, targetLinks, engine, late, resumed>>

\* A call throws or the process dies.  A manifest that is being written may be left without its end, which reads as none.
MoveDies ==
    /\ mover.pc # "idle"
    /\ Moves(NoMover)
    /\ manifest' \in (IF mover.pc = "save" THEN {manifest, {}} ELSE {manifest})
    /\ SourceUnchanged
    /\ UNCHANGED <<target, targetHidden, targetRest, targetLinks, engine, late, resumed>>

MoveNext ==
    \/ \E force \in BOOLEAN : StartMove(force)
    \/ ListPages \/ CopyRest \/ SaveManifest \/ StartLinks \/ SaveConfig \/ ClearManifest \/ MoveDies
    \/ \E p \in Page :
         \/ DeletePage(p) \/ PurgePage(p) \/ WipePage(p) \/ PutListed(p) \/ CopyLinks(p)
         \/ \E c \in Content : WritePage(p, c)

MoveSpec == MoveInit /\ [][MoveNext]_moveVars

-----------------------------------------------------------------------------
(* Properties.                                                             *)

\* The brain has arrived: its pages with all that belongs to them, its links, and nothing else.
\* A page whose row was soft-deleted there stays so.
Arrived ==
    LET here == Visible(source, sourceHidden) IN
    /\ \A p \in Page \ targetHidden :
         IF p \in here THEN target[p] = source[p] /\ targetRest[p] = source[p] ELSE target[p] = None
    /\ \A l \in Linked : Between(l, here) => l \in targetLinks
    /\ \A l \in targetLinks : Between(l, here \union targetHidden)

\* When the configuration names the new engine the whole brain is there, whatever died on the way,
\* unless the old one was written while it was copied, or the run resumed another one.
MoveComplete == engine = "new" => late \/ resumed \/ Arrived
================================================================================
