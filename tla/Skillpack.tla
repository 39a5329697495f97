------------------------------- MODULE Skillpack -------------------------------
(***************************************************************************)
(* gbrain skillpack install and uninstall (core/skillpack/installer.ts):   *)
(* skills copied from the bundle of the installed release into somebody's  *)
(* workspace, a fence of rows in the resolver file with a receipt of what  *)
(* gbrain has put there, and a lock file.  Commands of several processes   *)
(* interleave at their calls to the file system, and with people who edit  *)
(* skills and add rows.  Dry runs write nothing and are left out.          *)
(***************************************************************************)
EXTENDS Naturals, Sequences, FiniteSets

CONSTANTS
    Installer,      \* processes that run commands
    Skill,          \* slugs of skills that some release has
    Others,         \* slugs of skills that people write themselves
    SkillFile,      \* files of skills, and those that all skills share
    FilesOf,        \* which files a skill has
    Bundle,         \* which skills each release has
    Asked,          \* the flags and slugs commands are given
    MaxCommands,    \* bound: commands that are ever run
    MaxMeddled      \* bound: files edited and rows added by people

ASSUME SkillpackAssumption ==
    /\ FilesOf \in [Skill -> SUBSET SkillFile]
    /\ Bundle \in Seq(SUBSET Skill) \ {<<>>}
    /\ \A ask \in Asked :
         /\ ask.op \in {"install", "uninstall"} /\ ask.overwrite \in BOOLEAN /\ ask.force \in BOOLEAN
         /\ ask.slug \in Skill \union (IF ask.op = "install" THEN {"all"} ELSE {})
    /\ Skill \intersect Others = {}

VARIABLES
    placed,           \* what each file holds: nothing, the text of a release, somebody's own
    fence,          \* the resolver file and the managed block in it
    packLock,       \* .gbrain-skillpack.lock: free, held, or held for too long
    doing,          \* the command of each process
    release,        \* the release that is installed
    commands, meddled,
    owed            \* history: what people wrote and gbrain was given no leave to touch

skillVars == <<placed, fence, packLock, doing, release, commands, meddled, owed>>

Nothing == 0
Own == Len(Bundle) + 1

Shared == SkillFile \ UNION {FilesOf[s] : s \in Skill}

\* The bundle of a release: a directory per skill, and what they share.
Source(skills) == Shared \union UNION {FilesOf[s] : s \in skills}

NoFence == [file |-> TRUE, receipted |-> FALSE, rows |-> {}, receipt |-> {}, version |-> 0]

\* buildManagedBlock: the rows, and a receipt that names the same skills.
Block(slugs, manifest) ==
    [file |-> TRUE, receipted |-> TRUE, rows |-> slugs, receipt |-> slugs, version |-> manifest]

NoAsk == [op |-> "none", slug |-> "none", overwrite |-> FALSE, force |-> FALSE]
NotRunning == [pc |-> "idle", ask |-> NoAsk, manifest |-> 0, todo |-> {}, read |-> NoFence]

\* A workspace that is new, one without a resolver, or one with a skill, installed by this
\* release or by an earlier one that wrote no receipts.
SkillpackInit ==
    /\ release = 1
    /\ \/ /\ \E file \in BOOLEAN : fence = [NoFence EXCEPT !.file = file]
          /\ placed = [f \in SkillFile |-> Nothing]
       \/ \E s \in Bundle[1] :
            /\ fence \in {[NoFence EXCEPT !.rows = {s}], Block({s}, 1)}
            /\ placed = [f \in SkillFile |-> IF f \in Source({s}) THEN 1 ELSE Nothing]
    /\ packLock = "free"
    /\ doing = [c \in Installer |-> NotRunning]
    /\ commands = 0 /\ meddled = 0
    /\ owed = [files |-> {}, rows |-> {}]

Proceeds(c, pc) == doing' = [doing EXCEPT ![c].pc = pc]
Stays == UNCHANGED <<release, commands, meddled>>

-----------------------------------------------------------------------------
\* The skills a command is about: one, or all of the manifest it has read.
Wanted(cmd) == IF cmd.ask.slug = "all" THEN Bundle[cmd.manifest] ELSE {cmd.ask.slug}

\* Mutant of Replaced: nobody is asked.
ReplacedUnasked(files, ask) == {f \in files : placed[f] # release}
Replaced(files, ask) == {f \in files : placed[f] = Nothing \/ (ask.overwrite /\ placed[f] # release)}

\* The files are compared before the lock is taken.
planInstall(c, ask) ==
    LET skills == IF ask.slug = "all" THEN Bundle[release] ELSE {ask.slug}
    IN  /\ ask.op = "install" /\ skills \subseteq Bundle[release]
        /\ doing[c].pc = "idle" /\ commands < MaxCommands /\ commands' = commands + 1
        /\ doing' = [doing EXCEPT ![c] = [NotRunning EXCEPT !.pc = "lock", !.ask = ask, !.manifest = release,
                                                            !.todo = Replaced(Source(skills), ask)]]
        /\ UNCHANGED <<placed, fence, packLock, release, meddled, owed>>

applyUninstall(c, ask) ==
    /\ ask.op = "uninstall"
    /\ doing[c].pc = "idle" /\ commands < MaxCommands /\ commands' = commands + 1
    /\ doing' = [doing EXCEPT ![c] = [NotRunning EXCEPT !.pc = "lock", !.ask = ask]]
    /\ UNCHANGED <<placed, fence, packLock, release, meddled, owed>>

\* acquireLock: a lock that is held refuses the command, an old one too unless it may be forced.
CheckLock(c) ==
    /\ doing[c].pc = "lock"
    /\ CASE packLock = "free" -> Proceeds(c, "take")
         [] packLock = "old" /\ doing[c].ask.force -> Proceeds(c, "steal")
         [] OTHER -> doing' = [doing EXCEPT ![c] = NotRunning]
    /\ Stays /\ UNCHANGED <<placed, fence, packLock, owed>>

StealLock(c) ==
    /\ doing[c].pc = "steal" /\ packLock' = "free" /\ Proceeds(c, "take")
    /\ Stays /\ UNCHANGED <<placed, fence, owed>>

\* The file is opened for writing, whether or not it is there by now.
TakeLock(c) ==
    /\ doing[c].pc = "take" /\ packLock' = "held"
    /\ Proceeds(c, IF doing[c].ask.op = "install" THEN "write" ELSE "scan")
    /\ Stays /\ UNCHANGED <<placed, fence, owed>>

\* What the plan says of the file may not be true any more; it is copied from what the bundle
\* holds now.
WriteFile(c) ==
    \E f \in doing[c].todo :
        /\ doing[c].pc = "write" /\ f \in Source(Bundle[release])
        /\ placed' = [placed EXCEPT ![f] = release]
        /\ doing' = [doing EXCEPT ![c].todo = @ \ {f}]
        /\ owed' = IF doing[c].ask.overwrite THEN [owed EXCEPT !.files = @ \ {f}] ELSE owed
        /\ Stays /\ UNCHANGED <<fence, packLock>>

\* Only what the receipt names (without one, any row) and what is as the bundle has it is
\* removed, all of it or nothing.
Scan(c) ==
    LET cmd == doing[c]
        known == IF fence.receipted THEN fence.receipt ELSE fence.rows
        files == {f \in FilesOf[cmd.ask.slug] : placed[f] # Nothing}
        goes == /\ fence.file /\ cmd.ask.slug \in known
                /\ cmd.ask.slug \in Bundle[release]
                /\ \A f \in files : placed[f] = release \/ cmd.ask.overwrite
    IN  /\ cmd.pc = "scan"
        /\ doing' = [doing EXCEPT ![c].pc = IF goes THEN "unlink" ELSE "release",
                                      ![c].todo = IF goes THEN files ELSE {},
                                      ![c].manifest = release]
        /\ Stays /\ UNCHANGED <<placed, fence, packLock, owed>>

\* A file that cannot be removed is taken for one that is gone.
UnlinkFile(c) ==
    \E f \in doing[c].todo :
        /\ doing[c].pc = "unlink"
        /\ placed' \in {placed, [placed EXCEPT ![f] = Nothing]}
        /\ doing' = [doing EXCEPT ![c].todo = @ \ {f}]
        /\ owed' = IF doing[c].ask.overwrite THEN [owed EXCEPT !.files = @ \ {f}] ELSE owed
        /\ Stays /\ UNCHANGED <<fence, packLock>>

ReadFence(c) ==
    /\ doing[c].pc \in {"write", "unlink"} /\ doing[c].todo = {}
    /\ doing' = [doing EXCEPT ![c].pc = IF fence.file THEN "fence" ELSE "release", ![c].read = fence]
    /\ Stays /\ UNCHANGED <<placed, fence, packLock, owed>>

Prior(read) == IF read.receipted THEN read.receipt ELSE read.rows

\* Rows that gbrain never wrote, as far as the receipt tells, are kept; --all prunes what the
\* bundle has no more.
applyManagedBlock(cmd) ==
    LET bundle == Bundle[cmd.manifest]
        all == Prior(cmd.read) \union Wanted(cmd)
        pruned == IF cmd.ask.slug = "all" THEN all \ bundle ELSE {}
        unknown == IF cmd.read.receipted THEN cmd.read.rows \ (all \union bundle) ELSE {}
    IN  (all \ pruned) \union unknown

applyManagedBlockUninstall(cmd) ==
    LET left == Prior(cmd.read) \ {cmd.ask.slug}
        unknown == IF cmd.read.receipted
                   THEN cmd.read.rows \ (left \union Bundle[cmd.manifest] \union {cmd.ask.slug}) ELSE {}
    IN  left \union unknown

\* The whole file is replaced by what was read with a new block; what the receipt names is
\* gbrain's from then on.
WriteFence(c) ==
    LET cmd == doing[c]
        slugs == IF cmd.ask.op = "install" THEN applyManagedBlock(cmd) ELSE applyManagedBlockUninstall(cmd)
        block == Block(slugs, cmd.manifest)
    IN  /\ cmd.pc = "fence" /\ Proceeds(c, "release")
        /\ fence' = IF block = cmd.read THEN fence ELSE block
        /\ owed' = [owed EXCEPT !.rows = @ \ fence'.receipt]
        /\ Stays /\ UNCHANGED <<placed, packLock>>

\* unlink, whoever's lock it is.
releaseLock(c) ==
    /\ doing[c].pc = "release" /\ packLock' = "free"
    /\ doing' = [doing EXCEPT ![c] = NotRunning]
    /\ Stays /\ UNCHANGED <<placed, fence, owed>>

\* A call throws: the bundle has the file no more, the disk is full, the resolver is gone.
Throws(c) ==
    /\ doing[c].pc \in {"write", "fence"} \/ (doing[c].pc = "unlink" /\ doing[c].todo = {})
    /\ doing' = [doing EXCEPT ![c].pc = "release", ![c].todo = {}]
    /\ Stays /\ UNCHANGED <<placed, fence, packLock, owed>>

InstallerDies(c) ==
    /\ doing[c].pc # "idle"
    /\ doing' = [doing EXCEPT ![c] = NotRunning]
    /\ Stays /\ UNCHANGED <<placed, fence, packLock, owed>>

\* Ten minutes pass.
LockGrowsOld ==
    /\ packLock = "held" /\ packLock' = "old"
    /\ Stays /\ UNCHANGED <<placed, fence, doing, owed>>

Upgrades ==
    /\ release < Len(Bundle) /\ release' = release + 1
    /\ UNCHANGED <<placed, fence, packLock, doing, commands, meddled, owed>>

\* Somebody edits or writes a file; a command that has looked at it already may not notice.
EditFile(f) ==
    /\ meddled < MaxMeddled /\ meddled' = meddled + 1
    /\ placed' = [placed EXCEPT ![f] = Own]
    /\ owed' = IF \E c \in Installer : f \in doing[c].todo THEN owed
               ELSE [owed EXCEPT !.files = @ \union {f}]
    /\ UNCHANGED <<fence, packLock, doing, release, commands>>

\* Somebody adds a row: of a skill of their own, or of one that gbrain has.
AddRow(s) ==
    /\ meddled < MaxMeddled /\ meddled' = meddled + 1
    /\ fence.file /\ s \notin fence.rows
    /\ fence' = [fence EXCEPT !.rows = @ \union {s}]
    /\ owed' = IF s \in Others /\ fence.receipted /\ \A c \in Installer : doing[c].pc # "fence"
               THEN [owed EXCEPT !.rows = @ \union {s}] ELSE owed
    /\ UNCHANGED <<placed, packLock, doing, release, commands>>

SkillpackNext ==
    \/ \E c \in Installer, ask \in Asked : planInstall(c, ask) \/ applyUninstall(c, ask)
    \/ \E c \in Installer :
         \/ CheckLock(c) \/ StealLock(c) \/ TakeLock(c) \/ WriteFile(c)
         \/ Scan(c) \/ UnlinkFile(c) \/ ReadFence(c) \/ WriteFence(c)
         \/ releaseLock(c) \/ Throws(c) \/ InstallerDies(c)
    \/ LockGrowsOld \/ Upgrades
    \/ \E f \in SkillFile : EditFile(f)
    \/ \E s \in Skill \union Others : AddRow(s)

SkillpackSpec == SkillpackInit /\ [][SkillpackNext]_skillVars

\* What people wrote is left alone without --overwrite-local, and a row of theirs until the
\* receipt has taken it in.
WorkKept ==
    /\ \A f \in owed.files : placed[f] = Own
    /\ owed.rows \subseteq fence.rows

================================================================================
