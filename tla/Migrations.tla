------------------------------ MODULE Migrations ------------------------------
(***************************************************************************)
(* Schema migrations: a deploy runs the migration files of its release, in  *)
(* order, each in a transaction of its own that holds an advisory lock;     *)
(* two deploys may run at once, with the files of two releases, and either  *)
(* may break off anywhere.  The API is ready when no file of its release is *)
(* pending.  Release n has the files 1 to n; the version table is made by a *)
(* transaction of its own, here migration 0.                                *)
(***************************************************************************)
EXTENDS Naturals, FiniteSets

CONSTANTS
    Runner,      \* processes of backend.db.migrate
    Latest,      \* the number of migration files
    Statements,  \* statements of a migration file
    NoRunner,    \* no one holds the advisory lock
    MaxDeploys   \* bound on the runs of the migrations

ASSUME MigrationAssumption ==
    /\ {Latest, Statements} \subseteq Nat \ {0}
    /\ MaxDeploys \in Nat
    /\ NoRunner \notin Runner

VARIABLES
    table,    \* schema_migrations exists
    done,     \* the versions recorded in schema_migrations
    effect,   \* committed effect of each file: how many times it was run
    holder,   \* of the advisory lock
    runner,   \* where each run of the migrations is
    deploys,  \* runs so far
    probe     \* a request to /ready

migrationVars == <<table, done, effect, holder, runner, deploys, probe>>

File == 1..Latest

\* at: the migration whose transaction is next or open; ran: its statements so far.
Running == [pc : {"begin", "check", "run"}, release : File, at : 0..Latest, ran : 0..Statements]

Stopped == [pc |-> "stopped"]

Unasked == [pc |-> "unasked"]

Probing == [pc : {"tables", "versions", "ready", "pending"}, release : File]

MigrationTypeOK ==
    /\ table \in BOOLEAN
    /\ done \in SUBSET File
    /\ effect \in [File -> Nat]
    /\ holder \in Runner \union {NoRunner}
    /\ runner \in [Runner -> Running \union {Stopped}]
    /\ deploys \in 0..MaxDeploys
    /\ probe \in Probing \union {Unasked}

MigrationInit ==
    /\ table = FALSE
    /\ done = {}
    /\ effect = [m \in File |-> 0]
    /\ holder = NoRunner
    /\ runner = [r \in Runner |-> Stopped]
    /\ deploys = 0
    /\ probe = Unasked

-----------------------------------------------------------------------------
(* apply *)

RunnerAt(r, pc) == runner[r].pc = pc

Database == UNCHANGED <<table, done, effect>>

Others == UNCHANGED <<deploys, probe>>

Deploy(r, release) ==
    /\ RunnerAt(r, "stopped")
    /\ deploys < MaxDeploys
    /\ deploys' = deploys + 1
    /\ runner' = [runner EXCEPT ![r] = [pc |-> "begin", release |-> release, at |-> 0, ran |-> 0]]
    /\ Database /\ UNCHANGED <<holder, probe>>

\* BEGIN, and pg_advisory_xact_lock, which waits.
Lock(r) ==
    /\ RunnerAt(r, "begin")
    /\ holder = NoRunner
    /\ holder' = r
    /\ runner' = [runner EXCEPT ![r].pc = "check"]
    /\ Database /\ Others

\* (mutant) one file too many
OneMore(r) ==
    /\ holder' = NoRunner
    /\ runner' = [runner EXCEPT ![r] =
                     IF @.at > @.release THEN Stopped
                     ELSE [pc |-> "begin", release |-> @.release, at |-> @.at + 1, ran |-> 0]]
    /\ Others

\* The transaction ends, and with it the lock; the next file follows.
Finish(r) ==
    /\ holder' = NoRunner
    /\ runner' = [runner EXCEPT ![r] =
                     IF @.at = @.release THEN Stopped
                     ELSE [pc |-> "begin", release |-> @.release, at |-> @.at + 1, ran |-> 0]]
    /\ Others

CreateTable(r) ==
    /\ RunnerAt(r, "check")
    /\ runner[r].at = 0
    /\ table' = TRUE
    /\ Finish(r)
    /\ UNCHANGED <<done, effect>>

\* (mutant) every file is run, whoever recorded it meanwhile
NoCheck(r) ==
    /\ RunnerAt(r, "check")
    /\ runner[r].at # 0
    /\ runner' = [runner EXCEPT ![r].pc = "run"]
    /\ UNCHANGED holder /\ Database /\ Others

\* (mutant) the version is recorded, and committed, ahead of the statements
RecordFirst(r) ==
    /\ RunnerAt(r, "check")
    /\ runner[r].at # 0
    /\ done' = done \union {runner[r].at}
    /\ IF runner[r].at \in done THEN Finish(r)
       ELSE runner' = [runner EXCEPT ![r].pc = "run"] /\ UNCHANGED holder /\ Others
    /\ UNCHANGED <<table, effect>>

\* The version is looked up again under the lock: another run may have recorded it.
Check(r) ==
    /\ RunnerAt(r, "check")
    /\ runner[r].at # 0
    /\ IF runner[r].at \in done THEN Finish(r)
       ELSE runner' = [runner EXCEPT ![r].pc = "run"] /\ UNCHANGED holder /\ Others
    /\ Database

\* A statement takes effect in the open transaction only.
Execute(r) ==
    /\ RunnerAt(r, "run")
    /\ runner[r].ran < Statements
    /\ runner' = [runner EXCEPT ![r].ran = @ + 1]
    /\ UNCHANGED holder /\ Database /\ Others

Commit(r) ==
    /\ RunnerAt(r, "run")
    /\ runner[r].ran = Statements
    /\ done' = done \union {runner[r].at}
    /\ effect' = [effect EXCEPT ![runner[r].at] = @ + 1]
    /\ Finish(r)
    /\ UNCHANGED table

\* A statement fails, the process dies or loses its connection: the transaction is
\* rolled back, the lock released, and no further file is tried.
Break(r) ==
    /\ ~RunnerAt(r, "stopped")
    /\ runner' = [runner EXCEPT ![r] = Stopped]
    /\ holder' = IF holder = r THEN NoRunner ELSE holder
    /\ Database /\ Others

Migrate(r) ==
    \/ Lock(r) \/ CreateTable(r) \/ Check(r) \/ Execute(r) \/ Commit(r)

-----------------------------------------------------------------------------
(* ready and pending: two reads of the database *)

SchemaUnchanged == UNCHANGED <<table, done, effect, holder, runner, deploys>>

AskReady(release) ==
    /\ probe.pc = "unasked"
    /\ probe' = [pc |-> "tables", release |-> release]
    /\ SchemaUnchanged

LookForTable ==
    /\ probe.pc = "tables"
    /\ probe' = [probe EXCEPT !.pc = IF table THEN "versions" ELSE "pending"]
    /\ SchemaUnchanged

LookForVersions ==
    /\ probe.pc = "versions"
    /\ probe' = [probe EXCEPT !.pc = IF 1..probe.release \subseteq done THEN "ready" ELSE "pending"]
    /\ SchemaUnchanged

AnswerReady ==
    /\ probe.pc \in {"ready", "pending"}
    /\ probe' = Unasked
    /\ SchemaUnchanged

MigrationNext ==
    \/ \E r \in Runner : Migrate(r) \/ Break(r) \/ \E n \in File : Deploy(r, n)
    \/ LookForTable \/ LookForVersions \/ AnswerReady
    \/ \E n \in File : AskReady(n)

-----------------------------------------------------------------------------
(* Properties *)

\* "A failing migration leaves neither partial DDL nor a version row behind", and no
\* file is run twice or ahead of an earlier one (migrate.py), however the runs of
\* two releases overlap and break off.
SchemaMatchesVersions ==
    /\ \A m \in File : effect[m] = IF m \in done THEN 1 ELSE 0
    /\ \A m \in done : 1..m \subseteq done

\* An instance that reports ready has every file of its release in effect, though
\* what it looked at may have changed while it looked.
ReadyIsMigrated ==
    probe.pc = "ready" => \A m \in 1..probe.release : effect[m] = 1
=============================================================================
