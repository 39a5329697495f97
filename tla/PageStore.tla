------------------------------- MODULE PageStore -------------------------------
(***************************************************************************)
(* One page, and everything the program derives from it: chunks with their *)
(* embeddings, links, versions.  put_page and the imports                  *)
(* (core/import-file.ts), embed (commands/embed.ts), revert_version,       *)
(* delete_page, restore_page and the purge of the maintenance cycle, with  *)
(* the statements of core/postgres-engine.ts.  None of them takes a lock   *)
(* that another one looks at; an await lies between what each reads and    *)
(* what it writes.                                                         *)
(*                                                                         *)
(* A body stands for the parsed page; its hash is the body.                *)
(***************************************************************************)
EXTENDS Naturals, FiniteSets

CONSTANTS
    Session,        \* callers: requests, the command line, cycles
    Body,           \* what a page may hold
    ChunkCount,     \* into how many chunks each body is cut
    MaxBirths       \* bound: rows ever inserted

ASSUME PageAssumption ==
    /\ "none" \notin Body /\ ChunkCount \in [Body -> Nat \ {0}] /\ MaxBirths \in Nat

VARIABLES
    row,            \* the row of pages
    chunk,          \* its content_chunks: which body a chunk is cut from, which its vector is of
    links,          \* the body whose links are in the table
    versions,       \* the bodies in page_versions
    born,           \* the sequence behind pages.id
    session,        \* locals of the calls under way
    doubt,          \* history: what calls that overlapped may have left behind: "no", "vectors" or "all"
    linkless        \* history: the links have not been followed since the last write

pageVars == <<row, chunk, links, versions, born, session, doubt, linkless>>

NoRow == [id |-> 0, body |-> "none", hash |-> "none", hidden |-> "no"]
NoSession == [pc |-> "idle", body |-> "none", seen |-> FALSE, local |-> FALSE,
              chunks |-> {}, id |-> 0, alone |-> TRUE]

PageTypeOK ==
    /\ row \in [id : 0..MaxBirths, body : Body \union {"none"}, hash : Body \union {"none"}, hidden : {"no", "recent", "old"}]
    /\ \A c \in chunk : c.body \in Body /\ c.ix \in 1..ChunkCount[c.body] /\ c.vec \in Body \union {"none"}
    /\ versions \subseteq Body /\ links \in Body \union {"none"} /\ born \in 0..MaxBirths

PageInit ==
    /\ row = NoRow /\ chunk = {} /\ links = "none" /\ versions = {} /\ born = 0
    /\ session = [u \in Session |-> NoSession]
    /\ doubt = "no" /\ linkless = FALSE

Exists == row.id # 0
getPage == Exists /\ row.hidden = "no"
Resting == \A u \in Session : session[u].pc = "idle"

\* Whoever starts while others are under way is not alone any more, nor are they.
Begins(u, rec) ==
    /\ session[u].pc = "idle" /\ rec.pc # "idle"
    /\ session' = [v \in Session |->
         IF v = u THEN [rec EXCEPT !.alone = Resting]
         ELSE IF session[v].pc = "idle" THEN NoSession ELSE [session[v] EXCEPT !.alone = FALSE]]
    /\ doubt' = IF Resting THEN doubt ELSE "all"
Goes(u, pc) == session' = [session EXCEPT ![u].pc = pc]
Ends(u) == session' = [session EXCEPT ![u] = NoSession]

-----------------------------------------------------------------------------
(* put_page, sync and import.                                              *)

\* What is the same is not written again; put_page looks at its links all the same.
StartPut(u, b, local) ==
    LET same == getPage /\ row.hash = b IN
    /\ Begins(u, [NoSession EXCEPT !.body = b, !.seen = getPage, !.local = local,
                                   !.pc = IF ~same THEN "write" ELSE IF local THEN "link" ELSE "idle"])
    /\ UNCHANGED <<row, chunk, links, versions, born, linkless>>

Cut(b, vec) == {[ix |-> i, body |-> b, vec |-> vec] : i \in 1..ChunkCount[b]}

\* INSERT ... ON CONFLICT DO UPDATE: the vector of a chunk whose text stays is kept unless there is a new one.
Upserted(cs, new) ==
    {c \in cs : \A n \in new : n.ix # c.ix} \union
    {IF \E c \in cs : c.ix = n.ix /\ c.body = n.body /\ n.vec = "none"
       THEN CHOOSE c \in cs : c.ix = n.ix ELSE n : n \in new}
\* Mutant of Trimmed: chunks past the end of the new text stay.
TrimNothing(cs, new) == cs
Trimmed(cs, new) == {c \in cs : \E n \in new : n.ix = c.ix}

\* Mutant of putPage: createVersion comes after putPage.
VersionLast(u) ==
    LET me == session[u] IN
    /\ me.pc = "write" /\ (me.seen => Exists)
    /\ Exists \/ born < MaxBirths
    /\ row' = [row EXCEPT !.body = me.body, !.hash = me.body, !.id = IF Exists THEN @ ELSE born + 1]
    /\ born' = IF Exists THEN born ELSE born + 1
    /\ versions' = IF me.seen THEN versions \union {row'.body} ELSE versions
    /\ \E vec \in {"none", me.body} :
         chunk' = Upserted(Trimmed(chunk, Cut(me.body, vec)), Cut(me.body, vec))
    /\ IF me.local THEN Goes(u, "link") ELSE Ends(u)
    /\ doubt' = IF me.alone /\ doubt = "all" THEN "vectors" ELSE doubt
    /\ linkless' = TRUE
    /\ UNCHANGED links

\* The transaction of importFromContent, after the embedding model has answered.
putPage(u) ==
    LET me == session[u] IN
    /\ me.pc = "write" /\ (me.seen => Exists)
    /\ Exists \/ born < MaxBirths
    /\ row' = [row EXCEPT !.body = me.body, !.hash = me.body, !.id = IF Exists THEN @ ELSE born + 1]
    /\ born' = IF Exists THEN born ELSE born + 1
    /\ versions' = IF me.seen THEN versions \union {row.body} ELSE versions
    /\ \E vec \in {"none", me.body} :
         chunk' = Upserted(Trimmed(chunk, Cut(me.body, vec)), Cut(me.body, vec))
    /\ IF me.local THEN Goes(u, "link") ELSE Ends(u)
    /\ doubt' = IF me.alone /\ doubt = "all" THEN "vectors" ELSE doubt
    /\ linkless' = TRUE
    /\ UNCHANGED links

\* The embedding model, or createVersion for want of the row, throws.
PutFails(u) ==
    /\ session[u].pc = "write"
    /\ Ends(u)
    /\ UNCHANGED <<row, chunk, links, versions, born, doubt, linkless>>

\* runAutoLink makes the table follow the body its caller had in hand, in a transaction of its own.
runAutoLink(u) ==
    /\ session[u].pc = "link"
    /\ links' = IF Exists THEN session[u].body ELSE links
    /\ linkless' = (linkless /\ ~Exists)
    /\ Ends(u)
    /\ UNCHANGED <<row, chunk, versions, born, doubt>>

-----------------------------------------------------------------------------
(* Deletion, restoration, purge.                                           *)

delete_page ==
    /\ getPage
    /\ row' = [row EXCEPT !.hidden = "recent"]
    /\ UNCHANGED <<chunk, links, versions, born, session, doubt, linkless>>

restore_page ==
    /\ Exists /\ row.hidden # "no"
    /\ row' = [row EXCEPT !.hidden = "no"]
    /\ UNCHANGED <<chunk, links, versions, born, session, doubt, linkless>>

\* 72 hours.
HoursPass ==
    /\ row.hidden = "recent"
    /\ row' = [row EXCEPT !.hidden = "old"]
    /\ UNCHANGED <<chunk, links, versions, born, session, doubt, linkless>>

\* DELETE FROM pages cascades: the purge, and the deletePage of a sync.
Vanish ==
    /\ row' = NoRow /\ chunk' = {} /\ links' = "none" /\ versions' = {}
    /\ doubt' = IF Resting THEN "no" ELSE doubt
    /\ UNCHANGED <<born, session, linkless>>
purgeDeletedPages == row.hidden = "old" /\ Vanish
deletePage == Exists /\ Vanish

\* revert_version: a version of what is there, then the text of the chosen one, and nothing else.
createVersion(u) ==
    /\ Exists
    /\ versions' = versions \union {row.body}
    /\ \E v \in versions' :
         Begins(u, [NoSession EXCEPT !.pc = "revert", !.body = v, !.id = row.id])
    /\ UNCHANGED <<row, chunk, links, born, linkless>>

revertToVersion(u) ==
    LET me == session[u] IN
    /\ me.pc = "revert"
    /\ row' = IF row.id = me.id THEN [row EXCEPT !.body = me.body] ELSE row
    /\ Ends(u)
    /\ UNCHANGED <<chunk, links, versions, born, doubt, linkless>>

-----------------------------------------------------------------------------
(* Embedding.                                                              *)

Embedded(cs, ixs) == {[c EXCEPT !.vec = IF c.ix \in ixs THEN c.body ELSE "none"] : c \in cs}
Unembedded(cs) == {c \in cs : c.vec = "none"}

\* embedPage: all chunks of the page are read, and those without a vector go to the model.
embedPage(u) ==
    /\ getPage /\ Unembedded(chunk) # {}
    /\ Begins(u, [NoSession EXCEPT !.pc = "trim",
                    !.chunks = Embedded(chunk, {c.ix : c \in Unembedded(chunk)}), !.id = row.id])
    /\ UNCHANGED <<row, chunk, links, versions, born, linkless>>

\* embedAllStale: only chunks without a vector are read, hidden pages included ...
embedAllStale(u) ==
    /\ Unembedded(chunk) # {}
    /\ Begins(u, [NoSession EXCEPT !.pc = "merge", !.chunks = Unembedded(chunk)])
    /\ UNCHANGED <<row, chunk, links, versions, born, linkless>>

\* ... and when the model has answered the page is read again and given the vectors by index.
Merge(u) ==
    LET stale == session[u].chunks
        VectorOf(i) == IF \E c \in stale : c.ix = i THEN (CHOOSE c \in stale : c.ix = i).body ELSE "none"
    IN  /\ session[u].pc = "merge"
        /\ session' = [session EXCEPT ![u].pc = "trim", ![u].id = row.id,
                                      ![u].chunks = {[c EXCEPT !.vec = VectorOf(c.ix)] : c \in chunk}]
        /\ UNCHANGED <<row, chunk, links, versions, born, doubt, linkless>>

\* upsertChunks outside a transaction is two statements.
TrimChunks(u) ==
    /\ session[u].pc = "trim"
    /\ IF Exists
       THEN /\ chunk' = Trimmed(chunk, session[u].chunks)
            /\ session' = [session EXCEPT ![u].pc = "upsert", ![u].id = row.id]
       ELSE UNCHANGED chunk /\ Ends(u)
    /\ UNCHANGED <<row, links, versions, born, doubt, linkless>>

UpsertChunks(u) ==
    /\ session[u].pc = "upsert"
    /\ chunk' = IF row.id = session[u].id THEN Upserted(chunk, session[u].chunks) ELSE chunk
    /\ Ends(u)
    /\ UNCHANGED <<row, links, versions, born, doubt, linkless>>

\* A process dies, a call is cut off.
Interrupt(u) ==
    /\ session[u].pc # "idle"
    /\ doubt' = IF session[u].pc = "upsert" THEN "all" ELSE doubt
    /\ Ends(u)
    /\ UNCHANGED <<row, chunk, links, versions, born, linkless>>

PageStep(u) ==
    \/ \E b \in Body, local \in BOOLEAN : StartPut(u, b, local)
    \/ putPage(u) \/ PutFails(u) \/ runAutoLink(u)
    \/ createVersion(u) \/ revertToVersion(u)
    \/ embedPage(u) \/ embedAllStale(u) \/ Merge(u) \/ TrimChunks(u) \/ UpsertChunks(u)
    \/ Interrupt(u)

PageNext ==
    \/ \E u \in Session : PageStep(u)
    \/ delete_page \/ restore_page \/ HoursPass \/ purgeDeletedPages \/ deletePage

PageSpec == PageInit /\ [][PageNext]_pageVars

-----------------------------------------------------------------------------
(* Properties.                                                             *)

\* Search answers from chunks, vectors and links.  When nothing is under way they are those of the
\* text last imported, none missing and none left over, unless calls overlapped since the last write
\* that was alone.  A wrong vector outlives that write too, for a text that stays keeps its vector.
\* The links are behind only where the last write did not get to them.
DerivedAgree ==
    Resting /\ Exists /\ doubt # "all" =>
        /\ {[ix |-> c.ix, body |-> c.body] : c \in chunk} = {[ix |-> i, body |-> row.hash] : i \in 1..ChunkCount[row.hash]}
        /\ doubt = "no" => \A c \in chunk : c.vec \in {"none", row.hash}
        /\ linkless \/ links = row.hash

\* Text that a put or a revert writes over is in the page's history, unless its writer had not
\* seen the page (it was absent or hidden when the put began) or others were at it meanwhile.
OverwrittenIsKept ==
    [][\A u \in Session :
         /\ row'.id = row.id /\ row'.body # row.body
         /\ session[u] # session'[u] /\ session[u].alone /\ (session[u].seen \/ session[u].pc = "revert")
         => row.body \in versions']_pageVars
================================================================================
