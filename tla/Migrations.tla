----------------------------- MODULE Migrations -----------------------------
(***************************************************************************)
(* tools/database/migrate-postgres.mjs: runs that bring one database up to *)
(* the migration files of their releases.  Runs may start together, from   *)
(* different releases, and may crash anywhere; a release may lack, add or  *)
(* change files of another.  Every statement may fail, and COMMIT may take *)
(* effect although its answer is lost.                                     *)
(***************************************************************************)
EXTENDS Naturals

CONSTANTS Runs,      \* processes running the script
          Nobody,    \* no run
          Releases   \* the sets of migration files a run may find

(* Names in the order of localeCompare; sum stands for the SQL and its      *)
(* SHA-256.                                                                 *)
File == [package : STRING, name : Nat, sum : STRING]

ASSUME ReleasesAssumption == \A release \in Releases : release \subseteq File
ASSUME NobodyAssumption == Nobody \notin Runs

VARIABLES record,   \* schema_migration: the committed rows
          effects,  \* the committed executions of migration SQL
          lock,     \* who holds pg_advisory_lock(736468487)
          run       \* the runs

migrationVars == <<record, effects, lock, run>>

Working == {"locked", "next", "begun", "executed", "inserted"}

MigrationInit ==
  /\ record = {}
  /\ effects = {}
  /\ lock = Nobody
  /\ run = [r \in Runs |-> [pc |-> "idle", release |-> {}, left |-> {}]]

-----------------------------------------------------------------------------

RunAt(r, pc) == run[r].pc = pc
Row(file) == [name |-> file.name, sum |-> file.sum]
NamesOf(files) == {file.name : file \in files}

HasDuplicates(release) == \E f, g \in release : f # g /\ f.name = g.name

(* The next of the sorted list. *)
IsFirst(file, files) == file \in files /\ \A other \in files : file.name <= other.name

GoTo(r, pc) == run' = [run EXCEPT ![r].pc = pc]

(* The finally blocks, or the end of the session: the lock is released, an  *)
(* open transaction is gone.                                                *)
Stop(r, pc) ==
  /\ GoTo(r, pc)
  /\ lock' = IF lock = r THEN Nobody ELSE lock

Start(r, release) ==
  /\ RunAt(r, "idle")
  /\ run' = [run EXCEPT ![r] = [pc |-> "connected", release |-> release, left |-> release]]
  /\ UNCHANGED <<record, effects, lock>>

(* Mutation: nobody waits. *)
TakeLockAnyway(r) ==
  /\ RunAt(r, "connected")
  /\ lock' = r
  /\ GoTo(r, "locked")
  /\ UNCHANGED <<record, effects>>

(* pg_advisory_lock waits for the session that holds it. *)
TakeLock(r) ==
  /\ RunAt(r, "connected")
  /\ lock = Nobody
  /\ lock' = r
  /\ GoTo(r, "locked")
  /\ UNCHANGED <<record, effects>>

(* The table is created if need be, the files are collected and sorted; two *)
(* packages must not use one name.                                          *)
Collect(r) ==
  /\ RunAt(r, "locked")
  /\ IF HasDuplicates(run[r].release) THEN Stop(r, "duplicate")
     ELSE GoTo(r, "next") /\ UNCHANGED lock
  /\ UNCHANGED <<record, effects>>

(* The file is read and hashed and its row selected: applied and unchanged  *)
(* is skipped, applied and changed stops the run.                           *)
Inspect(r, file) ==
  LET recorded == {row \in record : row.name = file.name}
  IN  /\ RunAt(r, "next")
      /\ IsFirst(file, run[r].left)
      /\ IF recorded = {} THEN GoTo(r, "begun") /\ UNCHANGED lock
         ELSE IF recorded = {Row(file)}
         THEN run' = [run EXCEPT ![r].left = @ \ {file}] /\ UNCHANGED lock
         ELSE Stop(r, "changed")
      /\ UNCHANGED <<record, effects>>

(* BEGIN, the migration's SQL. *)
Execute(r) ==
  /\ RunAt(r, "begun")
  /\ GoTo(r, "executed")
  /\ UNCHANGED <<record, effects, lock>>

(* INSERT INTO schema_migration: migration_name is the primary key. *)
InsertRow(r, file) ==
  /\ RunAt(r, "executed")
  /\ IsFirst(file, run[r].left)
  /\ IF file.name \in NamesOf(record) THEN Stop(r, "unique")
     ELSE GoTo(r, "inserted") /\ UNCHANGED lock
  /\ UNCHANGED <<record, effects>>

(* COMMIT takes effect.  When the answer is lost the run fails. *)
CommitMigration(r, file, answered) ==
  /\ RunAt(r, "inserted")
  /\ IsFirst(file, run[r].left)
  /\ record' = record \cup {Row(file)}
  /\ effects' = effects \cup {[file |-> file, by |-> r, before |-> NamesOf(record)]}
  /\ IF answered
     THEN run' = [run EXCEPT ![r].pc = "next", ![r].left = @ \ {file}] /\ UNCHANGED lock
     ELSE Stop(r, "broken")

(* A statement fails: ROLLBACK, and the run ends. *)
Break(r) ==
  /\ run[r].pc \in Working \cup {"connected"}
  /\ Stop(r, "broken")
  /\ UNCHANGED <<record, effects>>

Crash(r) ==
  /\ run[r].pc \in Working \cup {"connected"}
  /\ Stop(r, "crashed")
  /\ UNCHANGED <<record, effects>>

Finish(r) ==
  /\ RunAt(r, "next")
  /\ run[r].left = {}
  /\ Stop(r, "done")
  /\ UNCHANGED <<record, effects>>

-----------------------------------------------------------------------------

MigrationNext ==
  \E r \in Runs :
    \/ \E release \in Releases : Start(r, release)
    \/ TakeLock(r)
    \/ Collect(r)
    \/ \E file \in run[r].left :
         \/ Inspect(r, file)
         \/ InsertRow(r, file)
         \/ \E answered \in BOOLEAN : CommitMigration(r, file, answered)
    \/ Execute(r)
    \/ Break(r)
    \/ Crash(r)
    \/ Finish(r)

MigrationSpec == MigrationInit /\ [][MigrationNext]_migrationVars

-----------------------------------------------------------------------------
(* Safety *)

(* schema_migration tells what the schema is: its rows are the executions   *)
(* that committed, each name executed once whichever runs met, crashed or   *)
(* lost an answer; every execution came after all lower names of its run's  *)
(* release; a run that finished left every file of its release applied as   *)
(* it read it; a run is refused only for a changed or doubled file, never   *)
(* because another run was at work.                                         *)
SchemaIsItsRecord ==
  /\ record = {Row(e.file) : e \in effects}
  /\ \A e, f \in effects : e.file.name = f.file.name => e = f
  /\ \A e \in effects :
       \A other \in run[e.by].release :
         other.name < e.file.name => other.name \in e.before
  /\ \A r \in Runs :
       /\ RunAt(r, "done") => \A file \in run[r].release : Row(file) \in record
       /\ RunAt(r, "changed") =>
            \E file \in run[r].release, row \in record :
              row.name = file.name /\ row.sum # file.sum
       /\ ~RunAt(r, "unique")

=============================================================================
