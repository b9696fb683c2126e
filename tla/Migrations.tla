----------------------------- MODULE Migrations -----------------------------
(***************************************************************************)
(* makemigrations and migrate of the command line tool                     *)
(* (cmd/gin-ninja-cli/migrations.go): files in the migrations directory,   *)
(* the schema of the database and the table of the versions applied to it. *)
(*                                                                         *)
(* One developer runs makemigrations. Files of other branches arrive by    *)
(* version control. Several processes run migrate, as deployments do; each *)
(* can fail or be killed between any two steps. Nothing keeps two of them  *)
(* apart but the transactions of the database.                             *)
(***************************************************************************)
EXTENDS Integers, SequencesExt

CONSTANTS
  Objects,     \* what a migration can create: tables, columns, constraints
  Reversible,  \* those that reverseMigrationStatement has a reverse for
  IfExists,    \* those whose reverse is no error when the object is not there
  Slugs,       \* migration names, as numbers in the order of file names
  Migrators,   \* processes that run migrate
  Dialects,
  MaxTime,     \* bound: the last second of the clock
  MaxFiles,    \* bound: the files in the directory
  NoProcess

ASSUME MigrationsAssumption ==
  /\ IfExists \subseteq Reversible /\ Reversible \subseteq Objects
  /\ Slugs \subseteq Nat
  /\ Dialects \subseteq {"transactional", "autocommit"}  \* SQLite, Postgres; MySQL
  /\ MaxTime \in Nat \ {0} /\ MaxFiles \in Nat
  /\ NoProcess \notin Migrators

VARIABLES
  dialect,           \* of the database, fixed
  now,               \* the clock
  collected,         \* the statements makemigrations is writing
  files,             \* the directory
  db,                \* the database: schema, and the versions applied
  lock, draft,       \* the process whose transaction has written, and what it sees
  pc, loaded, goal,  \* each migrate: where it is, its files, its target index
  way, plan, todo,   \* up or down, the files to go, the statements to go
  crossed            \* history: "down" once anything was rolled back, "both" once
                     \* a migrate has gone up while another went down

baseVars    == <<db, lock, draft>>
migrateVars == <<pc, loaded, goal, way, plan, todo>>
vars == <<dialect, now, collected, files, baseVars, migrateVars, crossed>>

\* A file is named by the second it was made in and a slug. The second is its
\* version. A bumped name can be MaxFiles seconds ahead of the clock.
Stamps == 1..(MaxTime + MaxFiles)
File == [stamp : Stamps, slug : Slugs, creates : SUBSET Objects]
Database == [schema : SUBSET Objects, applied : SUBSET Stamps]

Empty == [schema |-> {}, applied |-> {}]

TypeOK ==
  /\ dialect \in Dialects /\ now \in 1..MaxTime
  /\ collected \subseteq Objects
  /\ files \subseteq File
  /\ db \in Database /\ draft \in Database
  /\ lock \in Migrators \cup {NoProcess}
  /\ pc \in [Migrators -> {"idle", "loaded", "ready", "tx", "commit", "ok"}]
  /\ loaded \in [Migrators -> Seq(File)] /\ goal \in [Migrators -> 0..MaxFiles]
  /\ way \in [Migrators -> {"none", "up", "down"}]
  /\ plan \in [Migrators -> Seq(File)] /\ todo \in [Migrators -> SUBSET Objects]
  /\ crossed \in SUBSET {"down", "both"}
  \* Only a transaction that is running holds the lock.
  /\ lock # NoProcess => pc[lock] \in {"tx", "commit"} /\ dialect = "transactional"

Init ==
  /\ dialect \in Dialects /\ now = 1
  /\ collected = {} /\ files = {}
  /\ db = Empty /\ lock = NoProcess /\ draft = Empty
  /\ pc = [p \in Migrators |-> "idle"]
  /\ loaded = [p \in Migrators |-> <<>>] /\ goal = [p \in Migrators |-> 0]
  /\ way = [p \in Migrators |-> "none"]
  /\ plan = [p \in Migrators |-> <<>>] /\ todo = [p \in Migrators |-> {}]
  /\ crossed = {}

Tick == now < MaxTime /\ now' = now + 1
        /\ UNCHANGED <<dialect, collected, files, baseVars, migrateVars, crossed>>

-----------------------------------------------------------------------------
(* makemigrations, and other branches.                                     *)

\* collectMigrationStatements: what AutoMigrate would do to the database as it is for
\* the models there are by now, whatever the files in the directory are going to do.
MakeCollect ==
  /\ collected = {} /\ Cardinality(files) < MaxFiles
  /\ \E models \in SUBSET Objects : collected' = models \ db.schema
  /\ collected' # {}
  /\ UNCHANGED <<dialect, now, files, baseVars, migrateVars, crossed>>

\* uniqueMigrationFileName: as many seconds later as it takes to be unique.
IsUniqueStamp(stamp, slug) ==
  /\ stamp >= now /\ \A f \in files : <<f.stamp, f.slug>> # <<stamp, slug>>
  /\ \A t \in now..(stamp - 1) : \E f \in files : <<f.stamp, f.slug>> = <<t, slug>>

\* os.WriteFile replaces a file of the same name.
WriteFile(f) ==
  files' = {g \in files : <<g.stamp, g.slug>> # <<f.stamp, f.slug>>} \cup {f}

MakeWrite(slug) ==
  /\ collected # {} /\ Cardinality(files) < MaxFiles
  /\ \E stamp \in Stamps :
       /\ IsUniqueStamp(stamp, slug)
       /\ WriteFile([stamp |-> stamp, slug |-> slug, creates |-> collected])
  /\ collected' = {}
  /\ UNCHANGED <<dialect, now, baseVars, migrateVars, crossed>>

MakeFails ==
  /\ collected # {}
  /\ collected' = {}
  /\ UNCHANGED <<dialect, now, files, baseVars, migrateVars, crossed>>

\* A file of another branch: made at any time before, for any object.
Merge(stamp, slug, o) ==
  /\ stamp < now /\ Cardinality(files) < MaxFiles
  /\ \A f \in files : <<f.stamp, f.slug>> # <<stamp, slug>>
  /\ WriteFile([stamp |-> stamp, slug |-> slug, creates |-> {o}])
  /\ UNCHANGED <<dialect, now, collected, baseVars, migrateVars, crossed>>

-----------------------------------------------------------------------------
(* migrate: the plan.                                                      *)

Before(f, g) == f.stamp < g.stamp \/ (f.stamp = g.stamp /\ f.slug < g.slug)

IsApplied(f) == f.stamp \in db.applied

\* The files of the directory in their order.
Sorted(list) == \A i, j \in DOMAIN list : i < j => Before(list[i], list[j])

LoadFiles(p) ==
  /\ pc[p] = "idle"
  /\ files # {}
  /\ \E list \in [1..Cardinality(files) -> files] :
       Sorted(list) /\ loaded' = [loaded EXCEPT ![p] = list]
  /\ pc' = [pc EXCEPT ![p] = "loaded"]
  /\ UNCHANGED <<dialect, now, collected, files, baseVars, goal, way, plan, todo, crossed>>

\* currentMigrationIndex: the length of the applied prefix. 0 is none.
IsCurrentIndex(list, n) ==
  /\ n \in 0..Len(list)
  /\ \A i \in 1..n : IsApplied(list[i])
  /\ n < Len(list) => ~IsApplied(list[n + 1])

\* Beyond that prefix nothing may be applied.
IsLinear(list) ==
  \A i, j \in DOMAIN list : i < j /\ IsApplied(list[j]) => IsApplied(list[i])

PlanFor(list, current, target) ==
  IF target > current THEN SubSeq(list, current + 1, target)
                      ELSE Reverse(SubSeq(list, target + 1, current))

\* The processes that are applying or rolling back.
Migrating == {p \in Migrators : pc[p] \in {"ready", "tx", "commit"}}

\* The applied versions are read and the plan is made. The target is zero, the
\* last file or one that is named; a target that is not found changes nothing.
MakePlan(p, current, target) ==
  LET list == loaded[p]
      direction == IF target > current THEN "up" ELSE IF target < current THEN "down" ELSE "none"
      against == \E q \in Migrating : way[q] # direction
  IN
  /\ pc[p] = "loaded"
  /\ IsCurrentIndex(list, current) /\ IsLinear(list)
  /\ target \in 0..Len(list)
  /\ goal' = [goal EXCEPT ![p] = target]
  /\ way' = [way EXCEPT ![p] = direction]
  /\ plan' = [plan EXCEPT ![p] = PlanFor(list, current, target)]
  /\ pc' = [pc EXCEPT ![p] = IF direction = "none" THEN "ok" ELSE "ready"]
  /\ crossed' = crossed \cup (IF direction = "down" THEN {"down"} ELSE {})
                        \cup (IF direction # "none" /\ against THEN {"both"} ELSE {})
  /\ UNCHANGED <<dialect, now, collected, files, baseVars, loaded, todo>>

-----------------------------------------------------------------------------
(* migrate: one migration, in one transaction.                             *)

Migration(p) == Head(plan[p])

\* What the connection of p sees.
View(p) == IF lock = p THEN draft ELSE db

\* A plausible bug: the statements are executed on the pool, not on the tx.
WriteOnPool(p, view) == db' = view /\ UNCHANGED <<lock, draft>>

\* The first write of a transaction waits for the one that has written before.
\* In MySQL a DDL statement commits at once and ends the transaction.
Write(p, view) ==
  IF dialect = "transactional"
  THEN lock \in {NoProcess, p} /\ lock' = p /\ draft' = view /\ UNCHANGED db
  ELSE db' = view /\ UNCHANGED <<lock, draft>>

\* applyMigration, rollbackMigration: an irreversible one is not begun.
BeginMigration(p) ==
  /\ pc[p] = "ready"
  /\ way[p] = "down" => Migration(p).creates \subseteq Reversible
  /\ todo' = [todo EXCEPT ![p] = Migration(p).creates]
  /\ pc' = [pc EXCEPT ![p] = "tx"]
  /\ UNCHANGED <<dialect, now, collected, files, baseVars, loaded, goal, way, plan, crossed>>

\* One statement; creating what is there is an error, and so is dropping what
\* is not there, but for a DROP ... IF EXISTS.
ExecStatement(p, o) ==
  LET schema == View(p).schema IN
  /\ pc[p] = "tx" /\ o \in todo[p]
  /\ IF way[p] = "up"
     THEN o \notin schema /\ Write(p, [View(p) EXCEPT !.schema = @ \cup {o}])
     ELSE o \in schema \cup IfExists /\ Write(p, [View(p) EXCEPT !.schema = @ \ {o}])
  /\ todo' = [todo EXCEPT ![p] = @ \ {o}]
  /\ UNCHANGED <<dialect, now, collected, files, pc, loaded, goal, way, plan, crossed>>

\* recordAppliedMigrationTx, where the version is a primary key, and
\* deleteAppliedMigrationTx.
Record(p) ==
  LET version == Migration(p).stamp IN
  /\ pc[p] = "tx" /\ todo[p] = {}
  /\ IF way[p] = "up"
     THEN /\ version \notin View(p).applied
          /\ Write(p, [View(p) EXCEPT !.applied = @ \cup {version}])
     ELSE Write(p, [View(p) EXCEPT !.applied = @ \ {version}])
  /\ pc' = [pc EXCEPT ![p] = "commit"]
  /\ UNCHANGED <<dialect, now, collected, files, loaded, goal, way, plan, todo, crossed>>

\* tx.Commit and tx.Rollback: the transaction is over.
EndTx(p) ==
  /\ lock' = IF lock = p THEN NoProcess ELSE lock
  /\ draft' = IF lock = p THEN Empty ELSE draft

\* A plausible bug: migrate returns after the first migration.
CommitOnlyOne(p) ==
  /\ pc[p] = "commit"
  /\ db' = View(p)
  /\ EndTx(p)
  /\ plan' = [plan EXCEPT ![p] = Tail(@)]
  /\ pc' = [pc EXCEPT ![p] = "ok"]
  /\ UNCHANGED <<dialect, now, collected, files, loaded, goal, way, todo, crossed>>

Commit(p) ==
  /\ pc[p] = "commit"
  /\ db' = View(p)
  /\ EndTx(p)
  /\ plan' = [plan EXCEPT ![p] = Tail(@)]
  /\ pc' = [pc EXCEPT ![p] = IF Len(plan[p]) = 1 THEN "ok" ELSE "ready"]
  /\ UNCHANGED <<dialect, now, collected, files, loaded, goal, way, todo, crossed>>

\* A plausible bug: the transaction is left open on an error.
ExitInTx(p) ==
  /\ pc[p] # "idle"
  /\ pc' = [pc EXCEPT ![p] = "idle"] /\ way' = [way EXCEPT ![p] = "none"]
  /\ loaded' = [loaded EXCEPT ![p] = <<>>] /\ goal' = [goal EXCEPT ![p] = 0]
  /\ plan' = [plan EXCEPT ![p] = <<>>] /\ todo' = [todo EXCEPT ![p] = {}]
  /\ UNCHANGED <<dialect, now, collected, files, baseVars, crossed>>

\* The end of the process, with success or, at any point, without: an error of
\* the database, a history that is not linear, a crash. The database rolls back
\* what was not committed.
Exit(p) ==
  /\ pc[p] # "idle"
  /\ EndTx(p)
  /\ pc' = [pc EXCEPT ![p] = "idle"] /\ way' = [way EXCEPT ![p] = "none"]
  /\ loaded' = [loaded EXCEPT ![p] = <<>>] /\ goal' = [goal EXCEPT ![p] = 0]
  /\ plan' = [plan EXCEPT ![p] = <<>>] /\ todo' = [todo EXCEPT ![p] = {}]
  /\ UNCHANGED <<dialect, now, collected, files, db, crossed>>

-----------------------------------------------------------------------------

Make == MakeCollect \/ MakeFails \/ \E slug \in Slugs : MakeWrite(slug)

Others ==
  \E stamp \in 1..MaxTime, slug \in Slugs, o \in Objects : Merge(stamp, slug, o)

Migrate(p) ==
  \/ LoadFiles(p) \/ (\E current, target \in 0..MaxFiles : MakePlan(p, current, target))
  \/ BeginMigration(p) \/ (\E o \in Objects : ExecStatement(p, o))
  \/ Record(p) \/ Commit(p) \/ Exit(p)

Next == Tick \/ Make \/ Others \/ \E p \in Migrators : Migrate(p)

Spec == Init /\ [][Next]_vars

-----------------------------------------------------------------------------

\* Version numbers identify files. Two makemigrations in one second with names
\* of their own, or two branches, can break that: uniqueMigrationFileName keeps
\* file names apart, and then one of the two files counts as applied when the
\* other is.
VersionsDistinct == \A f, g \in files : f.stamp = g.stamp => f = g

\* The schema is what the recorded migrations make it, whatever fails or crashes
\* and however many processes migrate at once, as long as no process goes up
\* while another goes down. Where DDL commits by itself, a failure may leave
\* more in the schema than is recorded, and, until something is rolled back,
\* never less.
SchemaMatchesRecords ==
  LET made == UNION {f.creates : f \in {g \in files : IsApplied(g)}} IN
  VersionsDistinct =>
    /\ dialect = "transactional" /\ "both" \notin crossed => db.schema = made
    /\ crossed = {} => made \subseteq db.schema

\* migrate applies a file only when every file it has seen before it has been
\* applied, and rolls one back only when every later one has been: also when its
\* plan has become old because another process did part of the work.
OrderRespected ==
  [][ \A p \in Migrators :
        (pc[p] = "tx" /\ pc'[p] = "commit" /\ "both" \notin crossed) =>
          \A f \in Range(loaded[p]) :
            /\ way[p] = "up" /\ Before(f, Migration(p)) => IsApplied(f)
            /\ way[p] = "down" /\ Before(Migration(p), f) => ~IsApplied(f) ]_vars

\* When migrate reports success its target is reached.
SuccessMeansReached ==
  [][ \A p \in Migrators :
        (pc[p] # "ok" /\ pc'[p] = "ok" /\ "both" \notin crossed') =>
          \A i \in DOMAIN loaded[p] :
            /\ way'[p] # "down" /\ i <= goal'[p] => loaded[p][i].stamp \in db'.applied
            /\ way'[p] # "up" /\ i > goal'[p] => loaded[p][i].stamp \notin db'.applied ]_vars

\* makemigrations never replaces a file, in particular one made in the same
\* second with the same name.
FilesKept == [][files \subseteq files']_vars

\* No file is lost and none is applied or rolled back out of turn.
FilesInOrder == OrderRespected /\ FilesKept
=============================================================================
