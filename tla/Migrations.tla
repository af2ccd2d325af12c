----------------------------- MODULE Migrations -----------------------------
(***************************************************************************)
(* db:migrate, db:migrate:dry-run and db:reset against one MySQL database. *)
(* Every container start runs the migration runner, so several run at      *)
(* once, from images of different ages.  DDL commits statement by          *)
(* statement and the record of a migration is a statement of its own: a    *)
(* runner that dies between them leaves a half-applied migration behind,   *)
(* and its advisory lock is gone with its connection.                      *)
(***************************************************************************)
EXTENDS Integers, Sequences, FiniteSets

CONSTANTS
  Runner,   \* processes that run one of the three commands
  Crashes   \* bound: processes that die and are started again

ASSUME MigrationsAssumption == Crashes \in Nat

VARIABLES
  schema,    \* the tables, columns and indexes there are
  ledger,    \* schema_migrations: the checksum of each recorded version
  hasTable,  \* schema_migrations exists,
  hasSums,   \*   and has its checksum column
  lock,      \* GET_LOCK('nest_outbox:schema_migrations'): its holder, or {}
  run,       \* run[r]: command, image, place, and what it has read
  crashes,   \* bound: crashes so far
  replayed,  \* history: versions executed while they were recorded
  torn       \* history: a process died, or a reset dropped tables

migrationVars ==
  <<schema, ledger, hasTable, hasSums, lock, run, crashes, replayed, torn>>
database == <<schema, ledger, hasTable, hasSums>>

(* Three kinds of migration stand for the thirteen files: 001 creates tables *)
(* IF NOT EXISTS, 002 and the other ALTERs and indexes are several           *)
(* statements on them, 011 creates a table that refers to users.             *)
Sql == << <<"users">>, <<"index", "column">>, <<"refresh_tokens">> >>
Repeatable == {"users"}

\* The objects that go when reset-database drops the tables of its list.
ResetTables == {"users", "index", "column"}

Version == DOMAIN Sql

\* An image has the files up to a version, one of them perhaps edited.
Image    == {i \in [last : Version, edited : 0 .. 3] : i.edited <= i.last}
Files(r) == 1 .. run[r].image.last
Checksum(r, v) == IF v = run[r].image.edited THEN "edited" ELSE "original"

MigrationsTypeOK ==
  /\ schema \subseteq UNION {{Sql[v][i] : i \in DOMAIN Sql[v]} : v \in Version}
  /\ \A v \in DOMAIN ledger : /\ v \in Version
                              /\ ledger[v] \in {"null", "original", "edited"}
  /\ hasTable \in BOOLEAN /\ hasSums \in BOOLEAN
  /\ lock \in {{}} \union {{r} : r \in Runner}
  /\ run \in [Runner -> [command : {"migrate", "dry-run", "reset"},
                         image : Image, done : SUBSET Version, next : 0 .. 3,
                         pc : {"start", "dropTables", "dropLedger", "lock",
                               "ensure", "backfill", "applied", "apply",
                               "record", "finish", "throw", "done", "failed"}]]
  /\ \A r \in Runner :
       run[r].pc \in {"dropTables", "dropLedger"} => run[r].command = "reset"

\* A new database, or one that an older runner without checksums brought to a
\* version.
MigrationsInit ==
  /\ \E last \in 0 .. 3 :
       /\ schema = UNION {{Sql[v][i] : i \in DOMAIN Sql[v]} : v \in 1 .. last}
       /\ ledger = [v \in 1 .. last |-> "null"]
       /\ hasTable = (last > 0)
  /\ hasSums = FALSE
  /\ lock = {}
  /\ \E command \in [Runner -> {"migrate", "dry-run", "reset"}],
        image \in [Runner -> Image] :
       run = [r \in Runner |-> [command |-> command[r], image |-> image[r],
                                done |-> {}, next |-> 0, pc |-> "start"]]
  /\ crashes = 0 /\ replayed = {} /\ torn = FALSE

-----------------------------------------------------------------------------
InPlace(r, pc) == run[r].pc = pc
Proceed(r, pc) == run' = [run EXCEPT ![r].pc = pc]
Past           == UNCHANGED <<crashes, replayed, torn>>
DryRun(r)      == run[r].command = "dry-run"

Launch(r) ==
  /\ InPlace(r, "start")
  /\ Proceed(r, IF run[r].command = "reset" THEN "dropTables" ELSE "lock")
  /\ Past /\ UNCHANGED <<database, lock>>

\* The tables of the list but the last, with the foreign key checks off ...
DropTables(r) ==
  /\ InPlace(r, "dropTables") /\ Proceed(r, "dropLedger")
  /\ schema' = schema \ ResetTables
  /\ torn' = TRUE
  /\ UNCHANGED <<ledger, hasTable, hasSums, lock, crashes, replayed>>

\* ... and schema_migrations; none of it under the advisory lock.
DropLedger(r) ==
  /\ InPlace(r, "dropLedger") /\ Proceed(r, "lock")
  /\ ledger' = << >> /\ hasTable' = FALSE /\ hasSums' = FALSE
  /\ Past /\ UNCHANGED <<schema, lock>>

\* Injected bug: the lock has another name for each process.
AcquireOwn(r) ==
  /\ InPlace(r, "lock")
  /\ lock' = lock \union {r}
  /\ Proceed(r, IF DryRun(r) THEN "applied" ELSE "ensure")
  /\ Past /\ UNCHANGED database

\* acquireAdvisoryLock.
Acquire(r) ==
  /\ InPlace(r, "lock") /\ lock = {}
  /\ lock' = {r}
  /\ Proceed(r, IF DryRun(r) THEN "applied" ELSE "ensure")
  /\ Past /\ UNCHANGED database

\* Injected bug: what GET_LOCK answered is not looked at.
TimeOutIgnored(r) ==
  /\ InPlace(r, "lock") /\ lock # {}
  /\ Proceed(r, IF DryRun(r) THEN "applied" ELSE "ensure")
  /\ Past /\ UNCHANGED <<database, lock>>

\* GET_LOCK waited lockTimeoutSeconds; the finally blocks release no lock.
TimeOut(r) ==
  /\ InPlace(r, "lock") /\ lock # {}
  /\ Proceed(r, "failed")
  /\ Past /\ UNCHANGED <<database, lock>>

\* CREATE TABLE IF NOT EXISTS, and the two columns when they are missing.
Ensure(r) ==
  /\ InPlace(r, "ensure") /\ Proceed(r, "backfill")
  /\ hasTable' = TRUE /\ hasSums' = TRUE
  /\ Past /\ UNCHANGED <<schema, ledger, lock>>

Legacy == {v \in DOMAIN ledger : ledger[v] = "null"}

\* backfillLegacyChecksums, one UPDATE for each row it has read.
Backfill(r) ==
  /\ InPlace(r, "backfill") /\ hasSums
  /\ \/ Legacy = {} /\ Proceed(r, "applied") /\ UNCHANGED ledger
     \/ \E v \in Legacy :
          /\ \A w \in Legacy : v <= w
          /\ IF v \in Files(r)
               THEN ledger' = [ledger EXCEPT ![v] = Checksum(r, v)] /\ UNCHANGED run
               ELSE Proceed(r, "throw") /\ UNCHANGED ledger
  /\ Past /\ UNCHANGED <<schema, hasTable, hasSums, lock>>

\* Injected bug: a recorded migration without a file is let pass.
FitsKnown(r) ==
  \A v \in DOMAIN ledger \intersect Files(r) : ledger[v] \in {"null", Checksum(r, v)}

\* validateAppliedChecksums on what readAppliedMigrations read.
Fits(r) ==
  \A v \in DOMAIN ledger : v \in Files(r) /\ ledger[v] \in {"null", Checksum(r, v)}

Remaining(r) == Files(r) \ run[r].done

ReadApplied(r) ==
  /\ InPlace(r, "applied")
  /\ run' = [run EXCEPT ![r].pc = IF ~Fits(r) THEN "throw"
                                  ELSE IF DryRun(r) THEN "finish" ELSE "apply",
                        ![r].done = DOMAIN ledger, ![r].next = 0]
  /\ Past /\ UNCHANGED <<database, lock>>

\* Whether the server refuses to make the object: it is there, or what it
\* depends on is not.
Refused(object) ==
  \/ object \in schema \ Repeatable
  \/ object # "users" /\ "users" \notin schema

\* The first migration that was not applied.
Pending(r) == CHOOSE v \in Remaining(r) : \A w \in Remaining(r) : v <= w

\* Its next statement.
Execute(r) ==
  LET v == Pending(r)  object == Sql[v][run[r].next + 1] IN
  /\ InPlace(r, "apply") /\ Remaining(r) # {}
  /\ IF Refused(object)
       THEN Proceed(r, "throw") /\ UNCHANGED schema
       ELSE /\ schema' = schema \union {object}
            /\ run' = [run EXCEPT ![r].next = @ + 1,
                 ![r].pc = IF run[r].next + 1 = Len(Sql[v]) THEN "record" ELSE @]
  /\ replayed' = IF v \in DOMAIN ledger THEN replayed \union {v} ELSE replayed
  /\ UNCHANGED <<ledger, hasTable, hasSums, lock, crashes, torn>>

\* INSERT INTO schema_migrations; a reset may have dropped it meanwhile.
Record(r) ==
  LET v == Pending(r) IN
  /\ InPlace(r, "record")
  /\ IF ~hasSums \/ v \in DOMAIN ledger
       THEN Proceed(r, "throw") /\ UNCHANGED ledger
       ELSE /\ ledger' = [w \in DOMAIN ledger \union {v} |->
                            IF w = v THEN Checksum(r, v) ELSE ledger[w]]
            /\ run' = [run EXCEPT ![r].done = @ \union {v}, ![r].next = 0,
                                  ![r].pc = "apply"]
  /\ Past /\ UNCHANGED <<schema, hasTable, hasSums, lock>>

\* Backfill found no table: a reset dropped it meanwhile.
LedgerGone(r) ==
  /\ InPlace(r, "backfill") /\ ~hasSums
  /\ Proceed(r, "throw")
  /\ Past /\ UNCHANGED <<database, lock>>

\* The end of the loop or a throw; either way the lock is released.
Release(r) ==
  /\ \/ InPlace(r, "apply") /\ Remaining(r) = {} /\ Proceed(r, "done")
     \/ InPlace(r, "finish") /\ Proceed(r, "done")
     \/ InPlace(r, "throw") /\ Proceed(r, "failed")
  /\ lock' = lock \ {r}
  /\ Past /\ UNCHANGED database

\* The process dies and its container starts the command again; the server
\* releases what the connection had locked.
Crash(r) ==
  /\ crashes < Crashes /\ crashes' = crashes + 1
  /\ run[r].pc \notin {"start", "done", "failed"}
  /\ Proceed(r, "start")
  /\ lock' = lock \ {r}
  /\ torn' = TRUE
  /\ UNCHANGED <<database, replayed>>

MigrationsNext ==
  \E r \in Runner :
    \/ Launch(r) \/ DropTables(r) \/ DropLedger(r) \/ Acquire(r) \/ TimeOut(r)
    \/ Ensure(r) \/ Backfill(r) \/ ReadApplied(r) \/ Execute(r) \/ Record(r)
    \/ LedgerGone(r) \/ Release(r) \/ Crash(r)

MigrationsSpec == MigrationsInit /\ [][MigrationsNext]_migrationVars

-----------------------------------------------------------------------------
(* Properties.                                                              *)

Resetting ==
  \E r \in Runner : /\ run[r].command = "reset"
                    /\ \/ run[r].pc \in {"dropTables", "dropLedger"}
                       \/ run[r].pc = "start" /\ torn

\* However many containers start together and die, what is recorded is in the
\* schema whole and is not executed again; only the drops of a reset tear a
\* recorded migration.  And a migration fails at its SQL only after a crash or a
\* reset: otherwise every throw is a refusal of the history.
AppliedOnce ==
  /\ replayed = {}
  /\ Resetting \/ \A v \in DOMAIN ledger : \A i \in DOMAIN Sql[v] : Sql[v][i] \in schema
  /\ torn \/ \A r \in Runner : run[r].pc = "throw" =>
       \E v \in DOMAIN ledger : v \notin Files(r) \/ ledger[v] # Checksum(r, v)

\* A runner executes SQL only over a history it knows: each recorded version is
\* one of its files, unchanged, also when older images run beside it.
NoForeignHistory ==
  \A r \in Runner : run[r].pc \in {"apply", "record"} =>
    \A v \in DOMAIN ledger : v \in Files(r) /\ ledger[v] = Checksum(r, v)

\* A reset that nothing disturbs leaves a migrated database.
ResetRebuilds ==
  \A r \in Runner :
    (run[r].command = "reset" /\ run[r].pc = "failed") =>
      crashes > 0 \/ \E q \in Runner \ {r} : run[q].pc # "start"

-----------------------------------------------------------------------------
(* The inductive invariant.  TLC checks it on a small instance,             *)
(* DatabaseProofs proves it for every one.                                  *)

Objects(v)  == {Sql[v][i] : i \in DOMAIN Sql[v]}
Executed(r) == {Sql[Pending(r)][i] : i \in 1 .. run[r].next}

Inside   == {r \in Runner : run[r].pc \in {"ensure", "backfill", "applied", "apply",
                                           "record", "finish", "throw"}}
Applying == {r \in Runner : run[r].pc \in {"apply", "record"}}

\* No reset has dropped tables whose records are still there.
Standing == ~torn \/ ~Resetting

\* A runner between GET_LOCK and RELEASE_LOCK is alone there; the backfill is
\* behind it when it reads the records.
LockKept ==
  \A r \in Inside :
    /\ lock = {r}
    /\ run[r].pc \in {"ensure", "backfill", "apply", "record"} => ~DryRun(r)
    /\ run[r].pc = "applied" /\ ~DryRun(r) => Legacy = {}

\* It has counted every recorded migration as applied, and is at a statement of
\* the first one that is left; what it executed of that one is in the schema.
Progress(r) ==
  /\ DOMAIN ledger \subseteq run[r].done /\ run[r].done \subseteq Files(r)
  /\ IF Remaining(r) = {}
       THEN run[r].next = 0 /\ run[r].pc = "apply"
       ELSE IF run[r].pc = "apply" THEN run[r].next < Len(Sql[Pending(r)])
                                   ELSE run[r].next = Len(Sql[Pending(r)])
  /\ hasSums /\ Standing => Executed(r) \subseteq schema

\* Before the first crash or reset there is nothing in the schema that is not
\* recorded, but for the migration that is being executed.
Untorn ==
  /\ \A r \in Runner : run[r].command = "reset" => run[r].pc \in {"start", "dropTables"}
  /\ \A r \in Inside : run[r].pc = "ensure" \/ DryRun(r) \/ hasSums
  /\ \A r \in Applying : run[r].done = DOMAIN ledger
  /\ \A object \in schema : \/ \E v \in DOMAIN ledger : object \in Objects(v)
                            \/ \E r \in Applying : object \in Executed(r)

MigrationsInv ==
  /\ MigrationsTypeOK /\ LockKept
  /\ \A r \in Applying : Progress(r)
  /\ Standing => \A v \in DOMAIN ledger : Objects(v) \subseteq schema
  /\ torn \/ Untorn
  /\ AppliedOnce /\ NoForeignHistory
=============================================================================
