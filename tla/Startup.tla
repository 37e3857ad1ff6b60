--------------------------------- MODULE Startup --------------------------------
(***************************************************************************)
(* Start-up of processes on one database file: storage.Open with its       *)
(* migrations (internal/storage/db.go, migrate.go), and the session secret *)
(* of a server (settings.go, cmd/breaker/main.go).  "breaker serve" and    *)
(* "breaker scan" both open and migrate the file, at the same time if the  *)
(* user likes, and each may stop anywhere.                                 *)
(*                                                                         *)
(* SQLite makes one statement atomic; no transaction spans two of them.    *)
(* Indexes are left out.  SHIPBREAKER_SESSION_SECRET is not set.           *)
(***************************************************************************)
EXTENDS Integers, Sequences

CONSTANTS Servers,         \* processes of "breaker serve"
          Scanners,        \* processes of "breaker scan"
          Secrets,         \* what rand.Read returns
          NoSecret,        \* no secret
          MaxFaults        \* bound on failures

ASSUME StartupAssumption ==
    /\ Servers \cap Scanners = {}
    /\ NoSecret \notin Secrets
    /\ MaxFaults \in Nat

Processes == Servers \cup Scanners

VARIABLES
    tables,            \* the tables of the file
    versions,          \* the rows of schema_migrations
    stored,            \* the row 'session_secret' of app_settings
    pc,                \* what each process does
    version,           \* the migration it is at
    statement,         \* the statement of that migration
    held,              \* the secret it holds
    issued,            \* secrets that signed a session
    faults             \* failures so far

fileVars    == <<tables, versions, stored>>
startupVars == <<tables, versions, stored, pc, version, statement, held, issued, faults>>

-------------------------------------------------------------------------------
(* The migrations: tables created, in this order. *)

schema   == <<"containers", "schema_migrations", "metrics_raw", "metrics_hourly">>
schemaV2 == <<"app_settings">>

migrations == <<schema, schemaV2>>

Tables == UNION {{migrations[v][k] : k \in DOMAIN migrations[v]} : v \in DOMAIN migrations}

Places == {"off", "opening", "checking", "applying", "recording", "reading", "storing", "running"}

TypeOK ==
    /\ tables \subseteq Tables
    /\ versions \subseteq DOMAIN migrations
    /\ stored \in Secrets \cup {NoSecret}
    /\ pc \in [Processes -> Places]
    /\ version \in [Processes -> 1..Len(migrations) + 1]
    /\ statement \in [Processes -> 1..Len(schema) + 1]
    /\ held \in [Processes -> Secrets \cup {NoSecret}]
    /\ issued \subseteq Secrets
    /\ faults \in 0..MaxFaults
    /\ \A p \in Processes :
        /\ pc[p] \in {"applying", "recording"} => version[p] <= Len(migrations)
        /\ pc[p] = "applying" => statement[p] <= Len(migrations[version[p]])

StartupInit ==
    /\ tables = {} /\ versions = {} /\ stored = NoSecret
    /\ pc = [p \in Processes |-> "off"]
    /\ version = [p \in Processes |-> 1]
    /\ statement = [p \in Processes |-> 1]
    /\ held = [p \in Processes |-> NoSecret]
    /\ issued = {}
    /\ faults = 0

-------------------------------------------------------------------------------
Goto(p, place) == pc' = [pc EXCEPT ![p] = place]

(* The process is gone, with what it held in memory. *)
Leave(p) ==
    /\ Goto(p, "off")
    /\ version' = [version EXCEPT ![p] = 1]
    /\ statement' = [statement EXCEPT ![p] = 1]
    /\ held' = [held EXCEPT ![p] = NoSecret]

Start(p) ==
    /\ pc[p] = "off"
    /\ Goto(p, "opening")
    /\ UNCHANGED <<fileVars, version, statement, held, issued, faults>>

CreateMigrationsTable(p) ==
    /\ pc[p] = "opening"
    /\ tables' = tables \cup {"schema_migrations"}
    /\ Goto(p, "checking")
    /\ UNCHANGED <<versions, stored, version, statement, held, issued, faults>>

(* Open returns: a server needs the session secret, a scan goes on.        *)
AfterOpen(p) == IF p \in Servers THEN "reading" ELSE "running"

(* Mutation: migrations are applied whether recorded or not. *)
CheckMigrationBlindly(p) ==
    /\ pc[p] = "checking"
    /\ IF version[p] > Len(migrations)
       THEN Goto(p, AfterOpen(p)) /\ UNCHANGED statement
       ELSE Goto(p, "applying") /\ statement' = [statement EXCEPT ![p] = 1]
    /\ UNCHANGED <<fileVars, version, held, issued, faults>>

CheckMigration(p) ==
    /\ pc[p] = "checking"
    /\ \/ /\ version[p] > Len(migrations)
          /\ Goto(p, AfterOpen(p))
          /\ UNCHANGED <<version, statement>>
       \/ /\ version[p] \in versions
          /\ version' = [version EXCEPT ![p] = @ + 1]
          /\ UNCHANGED <<pc, statement>>
       \/ /\ version[p] \in DOMAIN migrations \ versions
          /\ Goto(p, "applying")
          /\ statement' = [statement EXCEPT ![p] = 1]
          /\ UNCHANGED version
    /\ UNCHANGED <<fileVars, held, issued, faults>>

(* Mutation: the first statement of a migration is taken for all of it. *)
ApplyFirstStatement(p) ==
    /\ pc[p] = "applying"
    /\ tables' = tables \cup {migrations[version[p]][1]}
    /\ Goto(p, "recording")
    /\ UNCHANGED <<versions, stored, version, statement, held, issued, faults>>

(* CREATE TABLE IF NOT EXISTS; the statements of one ExecContext are       *)
(* executed one by one.                                                    *)
ApplyStatement(p) ==
    /\ pc[p] = "applying"
    /\ tables' = tables \cup {migrations[version[p]][statement[p]]}
    /\ IF statement[p] < Len(migrations[version[p]])
       THEN /\ statement' = [statement EXCEPT ![p] = @ + 1]
            /\ UNCHANGED pc
       ELSE /\ Goto(p, "recording")
            /\ UNCHANGED statement
    /\ UNCHANGED <<versions, stored, version, held, issued, faults>>

(* The version is the primary key: another process may have recorded it.   *)
RecordMigration(p) ==
    /\ pc[p] = "recording"
    /\ IF version[p] \in versions
       THEN /\ Leave(p)
            /\ UNCHANGED versions
       ELSE /\ versions' = versions \cup {version[p]}
            /\ version' = [version EXCEPT ![p] = @ + 1]
            /\ Goto(p, "checking")
            /\ UNCHANGED <<statement, held>>
    /\ UNCHANGED <<tables, stored, issued, faults>>

-------------------------------------------------------------------------------
(* GetOrCreateSecret: SELECT, generate, INSERT. *)

(* 32 random bytes: nobody has them yet. *)
Fresh == Secrets \ ({stored} \cup issued \cup {held[p] : p \in Processes})

ReadSecret(p) ==
    /\ pc[p] = "reading"
    /\ IF "app_settings" \notin tables
       THEN Leave(p)
       ELSE /\ IF stored # NoSecret
               THEN /\ held' = [held EXCEPT ![p] = stored]
                    /\ Goto(p, "running")
               ELSE /\ \E s \in Fresh : held' = [held EXCEPT ![p] = s]
                    /\ Goto(p, "storing")
            /\ UNCHANGED <<version, statement>>
    /\ UNCHANGED <<fileVars, issued, faults>>

(* Mutation: INSERT OR REPLACE. *)
StoreSecretOrReplace(p) ==
    /\ pc[p] = "storing"
    /\ stored' = held[p]
    /\ Goto(p, "running")
    /\ UNCHANGED <<tables, versions, version, statement, held, issued, faults>>

(* The key is the primary key: the INSERT fails when another process has   *)
(* stored a secret since the SELECT.                                       *)
StoreSecret(p) ==
    /\ pc[p] = "storing"
    /\ IF stored # NoSecret
       THEN /\ Leave(p)
            /\ UNCHANGED stored
       ELSE /\ stored' = held[p]
            /\ Goto(p, "running")
            /\ UNCHANGED <<version, statement, held>>
    /\ UNCHANGED <<tables, versions, issued, faults>>

-------------------------------------------------------------------------------
(* A running server signs sessions (handleLogin). *)
CreateSession(p) ==
    /\ p \in Servers
    /\ pc[p] = "running"
    /\ issued' = issued \cup {held[p]}
    /\ UNCHANGED <<fileVars, pc, version, statement, held, faults>>

Stop(p) ==
    /\ pc[p] = "running"
    /\ Leave(p)
    /\ UNCHANGED <<fileVars, issued, faults>>

(* A statement fails (SQLITE_BUSY after five seconds, a full disk), or the *)
(* process is killed.                                                      *)
Fail(p) ==
    /\ pc[p] \notin {"off", "running"}
    /\ faults < MaxFaults
    /\ faults' = faults + 1
    /\ Leave(p)
    /\ UNCHANGED <<fileVars, issued>>

Step(p) ==
    \/ Start(p) \/ CreateMigrationsTable(p) \/ CheckMigration(p) \/ ApplyStatement(p)
    \/ RecordMigration(p) \/ ReadSecret(p) \/ StoreSecret(p)

StartupNext == \E p \in Processes : Step(p) \/ CreateSession(p) \/ Stop(p) \/ Fail(p)

StartupSpec == StartupInit /\ [][StartupNext]_startupVars

(* A process that stops is started again, and does not stand still. *)
FairStartup == StartupSpec /\ \A p \in Processes : WF_startupVars(Step(p))

-------------------------------------------------------------------------------
(* Safety. *)

(* A migration that is recorded is complete, wherever processes stopped    *)
(* between its statements and whichever of them recorded it                *)
(* (migrate.go:93-112).                                                    *)
RecordedIsApplied ==
    \A v \in versions : \A k \in DOMAIN migrations[v] : migrations[v][k] \in tables

(* The session secret survives restarts (main.go:216-217): a session that  *)
(* any server has signed is valid at every running server, though two of   *)
(* them may generate a secret each on an empty database                    *)
(* (settings.go:14-37).                                                    *)
SessionsStayValid ==
    \A p \in Servers : pc[p] = "running" => issued \subseteq {held[p]}

(* Liveness. *)

(* A process that is started again whenever it stops gets to run, whatever *)
(* the others left behind in the file (migrate.go:93-104).                 *)
EveryProcessRuns == \A p \in Processes : []<>(pc[p] = "running")
===============================================================================
