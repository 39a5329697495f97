------------------------------- MODULE Migrations -------------------------------
(***************************************************************************)
(* The schema of a brain and the row of config that says how far it has    *)
(* come: initSchema (core/postgres-engine.ts), runMigrations               *)
(* (core/migrate.ts), verifySchema (core/schema-verify.ts) and the gate    *)
(* of connectEngine (cli.ts).  Every command of every release on every     *)
(* host runs them when it connects.  The advisory lock around them is tied *)
(* to a session that the pool may close.                                   *)
(***************************************************************************)
EXTENDS Naturals

CONSTANTS
    Runner,         \* processes that connect
    Latest,         \* LATEST_VERSION of the release each of them runs
    Top,            \* LATEST_VERSION of the newest of them
    Columns,        \* versions that add columns to a table that exists
    Detached        \* versions whose statements are no one transaction

ASSUME MigrationsAssumption ==
    /\ Top \in Nat \ {0} /\ Latest \in [Runner -> 1..Top]
    /\ Columns \subseteq 2..Top /\ Detached \subseteq 2..Top
    /\ "nobody" \notin Runner

VARIABLES
    version,        \* config.version
    effect,         \* by version: what the schema has of it: "no", "part" or "yes"
    lock,           \* whose session has pg_advisory_lock(42)
    runner,         \* where each process is, and the version it is at
    unverified      \* history: a run of the newest release ended short of a verification that had something to heal

migrationVars == <<version, effect, lock, runner, unverified>>

Versions == 2..Top
Phases == {"idle", "locking", "reading", "applying", "stamping", "verifying"}
Away == [pc |-> "idle", at |-> 1]

MigrationsTypeOK ==
    /\ version \in 1..Top
    /\ effect \in [Versions -> {"no", "part", "yes"}]
    /\ lock \in Runner \union {"nobody"}
    /\ runner \in [Runner -> [pc : Phases, at : 1..Top]]
    /\ unverified \in BOOLEAN

MigrationsInit ==
    /\ version = 1 /\ effect = [m \in Versions |-> "no"]
    /\ lock = "nobody" /\ runner = [r \in Runner |-> Away]
    /\ unverified = FALSE

Holed == \E m \in Versions : effect[m] # "yes"
Enters(r, pc) == runner' = [runner EXCEPT ![r].pc = pc]
Unlocked(r) == IF lock = r THEN "nobody" ELSE lock

\* A command connects and finds the brain behind its release (hasPendingMigrations).
connectEngine(r) ==
    /\ runner[r].pc = "idle" /\ version < Latest[r]
    /\ Enters(r, "locking")
    /\ UNCHANGED <<version, effect, lock, unverified>>

\* gbrain init --migrate-only and gbrain upgrade do not ask.
migrateOnly(r) ==
    /\ runner[r].pc = "idle"
    /\ Enters(r, "locking")
    /\ UNCHANGED <<version, effect, lock, unverified>>

Lock(r) ==
    /\ runner[r].pc = "locking" /\ lock \in {"nobody", r}
    /\ lock' = r
    /\ Enters(r, "reading")
    /\ UNCHANGED <<version, effect, unverified>>

\* The pool closes an idle session, or a pooler gives it to somebody else.
SessionEnds ==
    /\ lock # "nobody" /\ lock' = "nobody"
    /\ UNCHANGED <<version, effect, runner, unverified>>

\* runMigrations begins: the row is read once, and what lies above it is pending.
runMigrations(r) ==
    /\ runner[r].pc = "reading"
    /\ runner' = IF version < Latest[r]
                 THEN [runner EXCEPT ![r] = [pc |-> "applying", at |-> version + 1]]
                 ELSE [runner EXCEPT ![r].pc = "verifying"]
    /\ UNCHANGED <<version, effect, lock, unverified>>

\* runMigrationSQL and the handler: idempotent, in one transaction or statement by statement.
\* Behind a pooler an ALTER TABLE may be lost without an error.
runMigrationSQL(r) ==
    LET m == runner[r].at IN
    /\ runner[r].pc = "applying"
    /\ \/ /\ effect' = [effect EXCEPT ![m] = "yes"] /\ Enters(r, "stamping")
       \/ /\ m \in Columns
          /\ UNCHANGED effect /\ Enters(r, "stamping")
       \/ /\ m \in Detached /\ effect[m] = "no"
          /\ effect' = [effect EXCEPT ![m] = "part"] /\ UNCHANGED runner
    /\ UNCHANGED <<version, lock, unverified>>

\* Mutant of setConfig: the row is brought up to date at once.
setConfigToLatest(r) ==
    LET m == runner[r].at IN
    /\ runner[r].pc = "stamping"
    /\ version' = Latest[r]
    /\ runner' = IF m < Latest[r] THEN [runner EXCEPT ![r] = [pc |-> "applying", at |-> m + 1]]
                 ELSE [runner EXCEPT ![r].pc = "verifying"]
    /\ UNCHANGED <<effect, lock, unverified>>

\* The row follows, then the next version's turn or the verification.
setConfig(r) ==
    LET m == runner[r].at IN
    /\ runner[r].pc = "stamping"
    /\ version' = m
    /\ runner' = IF m < Latest[r] THEN [runner EXCEPT ![r] = [pc |-> "applying", at |-> m + 1]]
                 ELSE [runner EXCEPT ![r].pc = "verifying"]
    /\ UNCHANGED <<effect, lock, unverified>>

\* verifySchema adds the columns this release knows of and does not find.
verifySchema(r) ==
    /\ runner[r].pc = "verifying"
    /\ effect' = [m \in Versions |-> IF m \in Columns /\ m <= Latest[r] THEN "yes" ELSE effect[m]]
    /\ unverified' = (unverified /\ Latest[r] # Top)
    /\ runner' = [runner EXCEPT ![r] = Away]
    /\ lock' \in {Unlocked(r), lock}    \* the unlock may go to another session
    /\ UNCHANGED version

\* A statement, a handler or the verification throws, or the process dies.
Abandons(r) ==
    /\ runner[r].pc # "idle"
    /\ runner' = [runner EXCEPT ![r] = Away]
    /\ lock' = Unlocked(r)
    /\ unverified' = (unverified \/ (runner[r].pc = "verifying" /\ Holed))
    /\ UNCHANGED <<version, effect>>

RunnerNext(r) ==
    \/ connectEngine(r) \/ migrateOnly(r) \/ Lock(r) \/ runMigrations(r)
    \/ runMigrationSQL(r) \/ setConfig(r) \/ verifySchema(r) \/ Abandons(r)

MigrationsNext == SessionEnds \/ \E r \in Runner : RunnerNext(r)

MigrationsSpec == MigrationsInit /\ [][MigrationsNext]_migrationVars

-----------------------------------------------------------------------------
(* Properties.                                                             *)

\* config.version never claims too much: what it says has been applied is in the schema, but for a
\* column that a pooler swallowed.  And a swallowed column is not forgotten: once the brain has
\* reached the newest version, so that no connection asks again, either it is there, or a run that
\* will verify is under way, or one died or failed where it should have verified.
SchemaWhole ==
    /\ \A m \in Versions \ Columns : m <= version => effect[m] = "yes"
    /\ version = Top /\ Holed =>
         unverified \/ \E r \in Runner : Latest[r] = Top /\ runner[r].pc = "verifying"
================================================================================
