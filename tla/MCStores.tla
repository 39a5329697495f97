-------------------------------- MODULE MCStores --------------------------------
(***************************************************************************)
(* What is kept, and where: a page and what is derived from it, the schema *)
(* of a brain, a brain that moves to another engine, files that move to    *)
(* cloud storage, skills in a workspace, the ledger of a paid resolver.    *)
(* They share no state, so that a behaviour is one of one of them.         *)
(***************************************************************************)
EXTENDS PageStore, Migrations, EngineMove, FileOffload, Skillpack, BudgetLedger, TLC

CONSTANTS u1, u2, short, long, old, new, newer, home, away, brief, digest

VARIABLE store

MCChunkCount == [b \in Body |-> IF b = long THEN 2 ELSE 1]
MCLatest == [r \in Runner |-> IF r = old THEN Top - 1 ELSE Top]
MCLinked == {<<home, away>>}
MCFilesOf == [s \in Skill |-> IF s = brief THEN {"brief1"} ELSE {"digest1"}]
MCBundle == <<{brief, digest}, {brief}>>
MCAsked ==
    {[op |-> "install", slug |-> "all", overwrite |-> FALSE, force |-> TRUE],
     [op |-> "install", slug |-> brief, overwrite |-> TRUE, force |-> FALSE],
     [op |-> "uninstall", slug |-> brief, overwrite |-> FALSE, force |-> TRUE]}
Symmetry == Permutations(Session)

StoresInit ==
    /\ store \in {"page", "schema", "engine", "files", "skills", "budget"}
    /\ PageInit /\ MigrationsInit /\ FilesInit /\ BudgetInit
    /\ MoveInit /\ SkillpackInit
    \* The others in one initial state.
    /\ store # "engine" => HasRow(source) \union HasRow(target) = {}
    /\ store # "files" => \A f \in File : wanted[f] = CHOOSE text \in Text : TRUE
    /\ store # "skills" => fence = NoFence

storesVars == <<store, pageVars, migrationVars, moveVars, fileVars, skillVars, budgetVars>>

StoringPage ==
    /\ store = "page" /\ PageNext
    /\ UNCHANGED <<store, migrationVars, moveVars, fileVars, skillVars, budgetVars>>
Migrating ==
    /\ store = "schema" /\ MigrationsNext
    /\ UNCHANGED <<store, pageVars, moveVars, fileVars, skillVars, budgetVars>>
Moving ==
    /\ store = "engine" /\ MoveNext
    /\ UNCHANGED <<store, pageVars, migrationVars, fileVars, skillVars, budgetVars>>
Offloading ==
    /\ store = "files" /\ FilesNext
    /\ UNCHANGED <<store, pageVars, migrationVars, moveVars, skillVars, budgetVars>>
Installing ==
    /\ store = "skills" /\ SkillpackNext
    /\ UNCHANGED <<store, pageVars, migrationVars, moveVars, fileVars, budgetVars>>
Spending ==
    /\ store = "budget" /\ BudgetNext
    /\ UNCHANGED <<store, pageVars, migrationVars, moveVars, fileVars, skillVars>>

\* The workspace may be left alone; the other stores have always something to do.
Rests ==
    /\ store = "skills" /\ commands = MaxCommands /\ \A c \in Installer : doing[c].pc = "idle"
    /\ UNCHANGED storesVars

StoresNext == StoringPage \/ Migrating \/ Moving \/ Offloading \/ Installing \/ Spending \/ Rests

StoresSpec == StoresInit /\ [][StoresNext]_storesVars
================================================================================
