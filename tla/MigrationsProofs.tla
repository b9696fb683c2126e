--------------------------- MODULE MigrationsProofs ---------------------------
(***************************************************************************)
(* The properties of Migrations for any number of processes that migrate,  *)
(* of files and of objects, however many seconds the clock counts.         *)
(***************************************************************************)
EXTENDS Migrations, FiniteSetTheorems, SequenceTheorems, TLAPS

\* Nobody has gone up while another went down.
OneWay == "both" \notin crossed

InTx(p) == pc[p] \in {"tx", "commit"}

\* What a process has seen are files of the directory, in their order.
ListsAreFiles ==
  /\ IsFiniteSet(files)
  /\ \A p \in Migrators :
       /\ \A i \in DOMAIN loaded[p] : loaded[p][i] \in files
       /\ Sorted(loaded[p])

\* The plan of a process that goes up is what is left up to its goal, and all before it
\* has been applied; the plan of one that goes down is what is left down to its goal, and
\* nothing after it is applied: whatever the others that go the same way have done.
PlanUp(p) ==
  /\ Len(plan[p]) \in 1..goal[p] /\ goal[p] <= Len(loaded[p])
  /\ \A i \in 1..Len(plan[p]) : plan[p][i] = loaded[p][goal[p] - Len(plan[p]) + i]
  /\ OneWay => \A i \in 1..(goal[p] - Len(plan[p])) : IsApplied(loaded[p][i])

PlanDown(p) ==
  /\ Len(plan[p]) >= 1 /\ goal[p] + Len(plan[p]) <= Len(loaded[p])
  /\ \A i \in 1..Len(plan[p]) : plan[p][i] = loaded[p][goal[p] + Len(plan[p]) - i + 1]
  /\ OneWay => \A i \in (goal[p] + Len(plan[p]) + 1)..Len(loaded[p]) : ~IsApplied(loaded[p][i])

PlansHold ==
  \A p \in Migrating :
    \/ way[p] = "up" /\ PlanUp(p)
    \/ way[p] = "down" /\ PlanDown(p) /\ "down" \in crossed

WaysAgree == OneWay => \A p, q \in Migrating : way[p] = way[q]

\* What a transaction has executed of its migration so far.
Executed(p) == Migration(p).creates \ todo[p]

\* What it sees is what is committed and what it has executed; another one has not
\* committed since.
Drafted(p) ==
  LET version == Migration(p).stamp IN
  IF way[p] = "up"
  THEN /\ Executed(p) \cap db.schema = {}
       /\ draft.schema = db.schema \cup Executed(p)
       /\ pc[p] = "tx" => draft.applied = db.applied
       /\ pc[p] = "commit" =>
            version \notin db.applied /\ draft.applied = db.applied \cup {version}
  ELSE /\ draft.schema = db.schema \ Executed(p)
       /\ pc[p] = "tx" => draft.applied = db.applied
       /\ pc[p] = "commit" => draft.applied = db.applied \ {version}

TransactionHolds(p) ==
  /\ todo[p] \subseteq Migration(p).creates
  /\ pc[p] = "commit" => todo[p] = {}
  /\ dialect = "transactional" =>
       /\ lock = p => Drafted(p)
       /\ lock # p => pc[p] = "tx" /\ Executed(p) = {}
  /\ dialect # "transactional" =>
       /\ crossed = {} => Executed(p) \subseteq db.schema
       /\ pc[p] = "commit" /\ OneWay => (IsApplied(Migration(p)) <=> way[p] = "up")

TransactionsHold == \A p \in Migrators : InTx(p) => TransactionHolds(p)

AppliedFiles == {g \in files : IsApplied(g)}
Made == UNION {g.creates : g \in AppliedFiles}

\* No two files that are applied create the same object, nor does one that is going to be
\* rolled back and another that is applied.
Disjoint(f) == \A g \in AppliedFiles : g # f => f.creates \cap g.creates = {}

RecordsHold ==
  VersionsDistinct =>
    /\ dialect = "transactional" /\ OneWay =>
         /\ db.schema = Made
         /\ \A f \in AppliedFiles : Disjoint(f)
         /\ \A p \in Migrating : way[p] = "down" => \A i \in 1..Len(plan[p]) : Disjoint(plan[p][i])
    /\ crossed = {} => Made \subseteq db.schema

\* A version that is recorded has its file.
RecordsHaveFiles == \A version \in db.applied : \E f \in files : f.stamp = version

MigrationsInv ==
  /\ TypeOK /\ ListsAreFiles
  /\ PlansHold /\ WaysAgree
  /\ TransactionsHold
  /\ RecordsHaveFiles /\ RecordsHold

-----------------------------------------------------------------------------

\* Nothing has been written and nobody has come.
LEMMA MigrationsStart == Init => MigrationsInv
<1>. SUFFICES ASSUME Init PROVE MigrationsInv
  OBVIOUS
<1>1. TypeOK
  <2>1. Empty \in Database
    BY DEF Empty, Database
  <2>2. <<>> \in Seq(File)
    OBVIOUS
  <2>. QED
    BY <2>1, <2>2, MigrationsAssumption DEF Init, TypeOK
<1>2. ListsAreFiles
  BY FS_EmptySet DEF Init, ListsAreFiles, Sorted
<1>3. Migrating = {} /\ \A p \in Migrators : ~InTx(p)
  BY DEF Init, Migrating, InTx
<1>4. PlansHold /\ WaysAgree /\ TransactionsHold
  BY <1>3 DEF PlansHold, WaysAgree, TransactionsHold
<1>5. RecordsHaveFiles /\ RecordsHold
  BY <1>3 DEF Init, Empty, RecordsHaveFiles, RecordsHold, Made, AppliedFiles, IsApplied
<1>. QED
  BY <1>1, <1>2, <1>4, <1>5 DEF MigrationsInv

\* The clock, and statements that are collected or thrown away.
LEMMA CollectKeeps ==
  ASSUME MigrationsInv, Tick \/ MakeCollect \/ MakeFails
  PROVE  MigrationsInv'
<1>1. UNCHANGED <<dialect, files, baseVars, migrateVars, crossed>>
  BY DEF Tick, MakeCollect, MakeFails
<1>2. now' \in 1..MaxTime /\ collected' \subseteq Objects
  BY MigrationsAssumption DEF MigrationsInv, TypeOK, Tick, MakeCollect, MakeFails
<1>3. TypeOK'
  BY <1>1, <1>2 DEF MigrationsInv, TypeOK, baseVars, migrateVars
<1>4. ListsAreFiles' /\ PlansHold' /\ WaysAgree'
  BY <1>1 DEF MigrationsInv, baseVars, migrateVars, ListsAreFiles, PlansHold, WaysAgree, PlanUp,
     PlanDown, OneWay, Migrating, IsApplied, Sorted
<1>5. TransactionsHold'
  BY <1>1 DEF MigrationsInv, baseVars, migrateVars, TransactionsHold,
     TransactionHolds, InTx, Executed, Migration,
     Drafted, OneWay, IsApplied
<1>6. RecordsHaveFiles' /\ RecordsHold'
  BY <1>1 DEF MigrationsInv, baseVars, migrateVars, RecordsHaveFiles, RecordsHold, Made,
     AppliedFiles, IsApplied, Disjoint, Migrating, OneWay, VersionsDistinct
<1>. QED
  BY <1>3, <1>4, <1>5, <1>6 DEF MigrationsInv

\* A new file, of this developer or another, under a name that is not taken.
LEMMA NewFileKeeps ==
  ASSUME MigrationsInv, NEW f \in File, WriteFile(f),
         \A g \in files : <<g.stamp, g.slug>> # <<f.stamp, f.slug>>,
         collected' \subseteq Objects,
         UNCHANGED <<dialect, now, baseVars, migrateVars, crossed>>
  PROVE  MigrationsInv' /\ files \subseteq files'
<1>1. files' = files \cup {f} /\ f \notin files
  BY DEF WriteFile
<1>2. /\ dialect' = dialect /\ db' = db /\ lock' = lock /\ draft' = draft /\ pc' = pc
      /\ loaded' = loaded /\ goal' = goal /\ way' = way /\ plan' = plan /\ todo' = todo
      /\ crossed' = crossed /\ now' = now
  BY DEF baseVars, migrateVars
<1>3. TypeOK'
  BY <1>1, <1>2 DEF MigrationsInv, TypeOK
<1>4. IsFiniteSet(files')
  BY <1>1, FS_AddElement DEF MigrationsInv, ListsAreFiles
<1>5. ListsAreFiles'
  BY <1>1, <1>2, <1>4 DEF MigrationsInv, ListsAreFiles, Sorted
<1>6. PlansHold' /\ WaysAgree'
  BY <1>2 DEF MigrationsInv, PlansHold, WaysAgree, PlanUp, PlanDown, OneWay, Migrating, IsApplied
<1>7. TransactionsHold'
  BY <1>2 DEF MigrationsInv, TransactionsHold, TransactionHolds, InTx, Executed, Migration, Drafted,
     OneWay, IsApplied
<1>8. RecordsHaveFiles'
  BY <1>1, <1>2 DEF MigrationsInv, RecordsHaveFiles
<1>9. ASSUME VersionsDistinct'
      PROVE  VersionsDistinct /\ AppliedFiles' = AppliedFiles
  <2>1. ~ IsApplied(f)
    BY <1>1, <1>9 DEF MigrationsInv, RecordsHaveFiles, VersionsDistinct, IsApplied
  <2>. QED
    BY <1>1, <1>2, <1>9, <2>1 DEF VersionsDistinct, AppliedFiles, IsApplied
<1>10. RecordsHold'
  BY <1>2, <1>9 DEF MigrationsInv, RecordsHold, Made, Disjoint, Migrating, OneWay
<1>. QED
  BY <1>1, <1>3, <1>5, <1>6, <1>7, <1>8, <1>10 DEF MigrationsInv

LEMMA MakeWriteKeeps ==
  ASSUME MigrationsInv, NEW slug \in Slugs, MakeWrite(slug)
  PROVE  MigrationsInv' /\ files \subseteq files'
<1>1. PICK stamp \in Stamps :
        /\ IsUniqueStamp(stamp, slug)
        /\ WriteFile([stamp |-> stamp, slug |-> slug, creates |-> collected])
  BY DEF MakeWrite
<1>2. PICK f : f = [stamp |-> stamp, slug |-> slug, creates |-> collected]
  OBVIOUS
<1>3. f \in File /\ f.stamp = stamp /\ f.slug = slug
  BY <1>2 DEF MigrationsInv, TypeOK, File
<1>4. WriteFile(f)
  BY <1>1, <1>2 DEF WriteFile
<1>5. \A g \in files : <<g.stamp, g.slug>> # <<f.stamp, f.slug>>
  BY <1>1, <1>3 DEF IsUniqueStamp
<1>. QED
  BY <1>3, <1>4, <1>5, NewFileKeeps DEF MakeWrite

LEMMA MergeKeeps ==
  ASSUME MigrationsInv, NEW stamp \in 1..MaxTime, NEW slug \in Slugs, NEW o \in Objects,
         Merge(stamp, slug, o)
  PROVE  MigrationsInv' /\ files \subseteq files'
<1>1. PICK f : f = [stamp |-> stamp, slug |-> slug, creates |-> {o}]
  OBVIOUS
<1>2. f \in File /\ f.stamp = stamp /\ f.slug = slug
  BY <1>1, MigrationsAssumption DEF File, Stamps
<1>3. WriteFile(f)
  BY <1>1 DEF Merge, WriteFile
<1>4. \A g \in files : <<g.stamp, g.slug>> # <<f.stamp, f.slug>>
  BY <1>2 DEF Merge
<1>. QED
  BY <1>2, <1>3, <1>4, NewFileKeeps DEF Merge, MigrationsInv, TypeOK

-----------------------------------------------------------------------------
(* migrate, outside of the transactions.                                   *)

LEMMA LoadKeeps ==
  ASSUME MigrationsInv, NEW p \in Migrators, LoadFiles(p)
  PROVE  MigrationsInv'
<1>1. PICK list \in [1..Cardinality(files) -> files] :
        Sorted(list) /\ loaded' = [loaded EXCEPT ![p] = list]
  BY DEF LoadFiles
<1>2. /\ pc[p] = "idle" /\ pc' = [pc EXCEPT ![p] = "loaded"]
      /\ UNCHANGED <<dialect, now, collected, files, db, lock, draft, goal, way, plan, todo,
                     crossed>>
  BY DEF LoadFiles, baseVars
<1>3. /\ pc'[p] = "loaded" /\ loaded'[p] = list
      /\ \A q \in Migrators \ {p} : pc'[q] = pc[q] /\ loaded'[q] = loaded[q]
  BY <1>1, <1>2 DEF MigrationsInv, TypeOK
<1>4. TypeOK'
  <2>1. Cardinality(files) \in Nat /\ files \subseteq File
    BY FS_CardinalityType DEF MigrationsInv, ListsAreFiles, TypeOK
  <2>2. list \in Seq(File)
    BY <2>1
  <2>3. loaded' \in [Migrators -> Seq(File)]
    BY <1>1, <2>2 DEF MigrationsInv, TypeOK
  <2>4. /\ pc' \in [Migrators -> {"idle", "loaded", "ready", "tx", "commit", "ok"}]
        /\ lock # NoProcess => pc'[lock] \in {"tx", "commit"} /\ dialect = "transactional"
    BY <1>2 DEF MigrationsInv, TypeOK
  <2>. QED
    BY <1>2, <2>3, <2>4 DEF MigrationsInv, TypeOK
<1>5. ListsAreFiles'
  BY <1>1, <1>2, <1>3 DEF MigrationsInv, ListsAreFiles, Sorted, Before
<1>6. Migrating' = Migrating /\ p \notin Migrating
  BY <1>2, <1>3 DEF Migrating
<1>7. \A q \in Migrating : loaded'[q] = loaded[q]
  BY <1>3, <1>6 DEF Migrating
<1>8. PlansHold' /\ WaysAgree'
  BY <1>2, <1>6, <1>7, SMTT(20) DEF MigrationsInv, PlansHold, WaysAgree, PlanUp, PlanDown, OneWay, IsApplied
<1>9. \A q \in Migrators : InTx(q)' => InTx(q) /\ pc'[q] = pc[q]
  BY <1>2, <1>3 DEF InTx
<1>10. TransactionsHold'
  BY <1>2, <1>9 DEF MigrationsInv, TransactionsHold, TransactionHolds, Executed, Migration, Drafted, OneWay,
     IsApplied
<1>11. RecordsHaveFiles' /\ RecordsHold'
  BY <1>2, <1>6 DEF MigrationsInv, RecordsHaveFiles, RecordsHold, VersionsDistinct, Made,
     AppliedFiles, IsApplied, Disjoint, OneWay
<1>. QED
  BY <1>4, <1>5, <1>8, <1>10, <1>11 DEF MigrationsInv

\* What a plan consists of.
ArePartsOf(steps, list, current, target) ==
  /\ steps \in Seq(File)
  /\ target > current =>
       /\ Len(steps) = target - current
       /\ \A i \in 1..(target - current) : steps[i] = list[current + i]
  /\ target <= current =>
       /\ Len(steps) = current - target
       /\ \A i \in 1..(current - target) : steps[i] = list[current - i + 1]

LEMMA PlansAreParts ==
  ASSUME NEW list \in Seq(File), NEW current \in 0..Len(list), NEW target \in 0..Len(list)
  PROVE  ArePartsOf(PlanFor(list, current, target), list, current, target)
<1>. PICK steps : steps = PlanFor(list, current, target)
  OBVIOUS
<1>. SUFFICES ArePartsOf(steps, list, current, target)
  OBVIOUS
<1>1. CASE target > current
  <2>1. PICK part : part = SubSeq(list, current + 1, target)
    OBVIOUS
  <2>2. /\ part \in Seq(File) /\ Len(part) = target - current
        /\ \A i \in 1..(target - current) : part[i] = list[current + i]
    BY <1>1, <2>1, SubSeqProperties
  <2>3. steps = part
    BY <1>1, <2>1 DEF PlanFor
  <2>. QED
    BY <1>1, <2>2, <2>3 DEF ArePartsOf
<1>2. CASE target <= current
  <2>1. PICK part : part = SubSeq(list, target + 1, current)
    OBVIOUS
  <2>2. /\ part \in Seq(File) /\ Len(part) = current - target
        /\ \A i \in 1..(current - target) : part[i] = list[target + i]
    BY <1>2, <2>1, SubSeqProperties
  <2>3. steps = Reverse(part)
    BY <1>2, <2>1 DEF PlanFor
  <2>4. steps = [i \in 1..Len(part) |-> part[(Len(part) - i) + 1]]
    BY <2>3 DEF Reverse
  <2>5. /\ steps \in Seq(File) /\ Len(steps) = current - target
        /\ \A i \in 1..(current - target) : steps[i] = list[current - i + 1]
    BY <1>2, <2>2, <2>4
  <2>. QED
    BY <1>2, <2>5 DEF ArePartsOf
<1>. QED
  BY <1>1, <1>2

\* The plan is made of what has been applied, and in the same way as the others' or crossing
\* theirs.
LEMMA PlanKeeps ==
  ASSUME MigrationsInv, NEW p \in Migrators, NEW current \in 0..MaxFiles,
         NEW target \in 0..MaxFiles, MakePlan(p, current, target)
  PROVE  MigrationsInv'
<1>1. PICK list : list = loaded[p]
  OBVIOUS
<1>2. PICK steps : steps = PlanFor(list, current, target)
  OBVIOUS
<1>3. PICK direction : direction = IF target > current THEN "up"
                                   ELSE IF target < current THEN "down" ELSE "none"
  OBVIOUS
<1>4. /\ pc[p] = "loaded" /\ IsCurrentIndex(list, current) /\ IsLinear(list)
      /\ target \in 0..Len(list)
      /\ goal' = [goal EXCEPT ![p] = target] /\ way' = [way EXCEPT ![p] = direction]
      /\ plan' = [plan EXCEPT ![p] = steps]
      /\ pc' = [pc EXCEPT ![p] = IF direction = "none" THEN "ok" ELSE "ready"]
      /\ crossed \subseteq crossed' /\ crossed' \subseteq crossed \cup {"down", "both"}
      /\ direction = "down" => "down" \in crossed'
      /\ direction # "none" /\ (\E q \in Migrating : way[q] # direction) => "both" \in crossed'
      /\ UNCHANGED <<dialect, now, collected, files, db, lock, draft, loaded, todo>>
  BY <1>1, <1>2, <1>3 DEF MakePlan, baseVars
<1>5. /\ list \in Seq(File) /\ current \in 0..Len(list) /\ target \in 0..Len(list)
      /\ direction \in {"up", "down", "none"}
  BY <1>1, <1>3, <1>4 DEF MigrationsInv, TypeOK, IsCurrentIndex
<1>6. /\ steps \in Seq(File)
      /\ direction = "up" =>
           /\ target > current /\ Len(steps) = target - current
           /\ \A i \in 1..(target - current) : steps[i] = list[current + i]
      /\ direction = "down" =>
           /\ target < current /\ Len(steps) = current - target
           /\ \A i \in 1..(current - target) : steps[i] = list[current - i + 1]
  <2>1. ArePartsOf(steps, list, current, target)
    BY <1>2, <1>5, PlansAreParts
  <2>2. /\ direction = "up" <=> target > current
        /\ direction = "down" <=> target < current
    BY <1>3, <1>5
  <2>3. current \in Int /\ target \in Int
    BY <1>5
  <2>4. target < current => target <= current
    BY <2>3
  <2>. QED
    BY <2>1, <2>2, <2>4 DEF ArePartsOf
<1>7. /\ pc'[p] = (IF direction = "none" THEN "ok" ELSE "ready")
      /\ goal'[p] = target /\ way'[p] = direction /\ plan'[p] = steps
      /\ \A q \in Migrators \ {p} : /\ pc'[q] = pc[q] /\ goal'[q] = goal[q]
                                    /\ way'[q] = way[q] /\ plan'[q] = plan[q]
  BY <1>4 DEF MigrationsInv, TypeOK
<1>8. TypeOK'
  <2>1. /\ pc' \in [Migrators -> {"idle", "loaded", "ready", "tx", "commit", "ok"}]
        /\ lock # NoProcess => pc'[lock] \in {"tx", "commit"} /\ dialect = "transactional"
        /\ goal' \in [Migrators -> 0..MaxFiles] /\ way' \in [Migrators -> {"none", "up", "down"}]
        /\ plan' \in [Migrators -> Seq(File)] /\ crossed' \in SUBSET {"down", "both"}
    BY <1>4, <1>5, <1>6 DEF MigrationsInv, TypeOK
  <2>. QED
    BY <1>4, <2>1 DEF MigrationsInv, TypeOK
<1>9. ListsAreFiles'
  BY <1>4 DEF MigrationsInv, ListsAreFiles, Sorted
<1>10. /\ p \notin Migrating /\ Migrating \subseteq Migrators
       /\ Migrating' = IF direction = "none" THEN Migrating ELSE Migrating \cup {p}
  BY <1>4, <1>7 DEF Migrating
<1>11. OneWay' => OneWay /\ (direction # "none" => \A q \in Migrating : way[q] = direction)
  BY <1>4 DEF OneWay
<1>12. PlansHold'
  <2>1. ASSUME NEW q \in Migrating
        PROVE  \/ way'[q] = "up" /\ PlanUp(q)'
               \/ way'[q] = "down" /\ PlanDown(q)' /\ "down" \in crossed'
    BY <1>4, <1>7, <1>10, <1>11, SMTT(20) DEF MigrationsInv, PlansHold, PlanUp, PlanDown, IsApplied
  <2>2. CASE direction = "up"
    <3>1. /\ loaded'[p] = list /\ goal'[p] = target /\ plan'[p] = steps /\ db' = db
          /\ Len(list) \in Nat /\ current \in 0..Len(list) /\ target \in 0..Len(list)
          /\ target > current /\ Len(steps) = target - current
      BY <1>1, <1>4, <1>5, <1>6, <1>7, <2>2
    <3>2. \A i \in 1..Len(steps) : steps[i] = list[target - Len(steps) + i]
      <4>1. target - Len(steps) = current
        BY <3>1
      <4>. QED
        BY <1>6, <2>2, <3>1, <4>1
    <3>3. \A i \in 1..(target - Len(steps)) : IsApplied(list[i])'
      <4>1. target - Len(steps) = current
        BY <3>1
      <4>. QED
        BY <1>4, <3>1, <4>1 DEF IsCurrentIndex, IsApplied
    <3>4. Len(steps) \in 1..target /\ target <= Len(list)
      BY <3>1
    <3>5. PlanUp(p)'
      BY <3>1, <3>2, <3>3, <3>4 DEF PlanUp, IsApplied
    <3>. QED
      BY <1>7, <1>10, <2>1, <2>2, <3>5 DEF PlansHold
  <2>3. CASE direction = "down"
    <3>1. ASSUME NEW i \in (current + 1)..Len(list)
          PROVE  ~ IsApplied(list[i])
      <4>1. current + 1 \in DOMAIN list /\ i \in DOMAIN list /\ ~ IsApplied(list[current + 1])
        BY <1>4, <1>5 DEF IsCurrentIndex
      <4>. QED
        BY <1>4, <1>5, <4>1 DEF IsLinear
    <3>2. /\ loaded'[p] = list /\ goal'[p] = target /\ plan'[p] = steps /\ db' = db
          /\ Len(list) \in Nat /\ current \in 0..Len(list) /\ target \in 0..Len(list)
          /\ target < current /\ Len(steps) = current - target
      BY <1>1, <1>4, <1>5, <1>6, <1>7, <2>3
    <3>3. target + Len(steps) = current /\ Len(steps) >= 1 /\ target + Len(steps) <= Len(list)
      BY <3>2
    <3>4. \A i \in 1..Len(steps) : steps[i] = list[target + Len(steps) - i + 1]
      BY <1>6, <2>3, <3>2, <3>3
    <3>5. \A i \in (target + Len(steps) + 1)..Len(list) : ~ IsApplied(list[i])'
      BY <3>1, <3>2, <3>3 DEF IsApplied
    <3>6. PlanDown(p)'
      BY <3>2, <3>3, <3>4, <3>5 DEF PlanDown, IsApplied
    <3>. QED
      BY <1>4, <1>7, <1>10, <2>1, <2>3, <3>6 DEF PlansHold
  <2>4. CASE direction = "none"
    BY <1>10, <2>1, <2>4 DEF PlansHold
  <2>. QED
    BY <1>5, <2>2, <2>3, <2>4
<1>13. WaysAgree'
  BY <1>7, <1>10, <1>11 DEF MigrationsInv, WaysAgree
<1>14. TransactionsHold'
  <2>1. \A q \in Migrators : InTx(q)' => q # p /\ InTx(q)
    BY <1>7 DEF InTx
  <2>. QED
    BY <1>4, <1>7, <2>1 DEF MigrationsInv, TransactionsHold, TransactionHolds, Executed, Migration, Drafted, OneWay,
     IsApplied
<1>15. RecordsHold'
  <2>1. ASSUME VersionsDistinct, dialect = "transactional", OneWay', NEW q \in Migrating',
               way'[q] = "down", NEW i \in 1..Len(plan'[q])
        PROVE  Disjoint(plan'[q][i])
    <3>1. CASE q # p
      BY <1>4, <1>7, <1>10, <1>11, <2>1, <3>1 DEF MigrationsInv, RecordsHold
    <3>2. CASE q = p
      <4>1. /\ direction = "down" /\ i \in 1..(current - target) /\ current - i + 1 \in 1..current
            /\ plan'[q][i] = list[current - i + 1]
        BY <1>5, <1>6, <1>7, <2>1, <3>2
      <4>2. IsApplied(list[current - i + 1]) /\ list[current - i + 1] \in files
        BY <1>1, <1>4, <1>5, <4>1 DEF IsCurrentIndex, MigrationsInv, ListsAreFiles
      <4>. QED
        BY <1>11, <2>1, <4>1, <4>2 DEF MigrationsInv, RecordsHold, AppliedFiles
    <3>. QED
      BY <3>1, <3>2
  <2>2. /\ VersionsDistinct' <=> VersionsDistinct
        /\ AppliedFiles' = AppliedFiles /\ Made' = Made
        /\ \A f : Disjoint(f)' <=> Disjoint(f)
    BY <1>4 DEF VersionsDistinct, AppliedFiles, IsApplied, Made, Disjoint
  <2>3. crossed' = {} => crossed = {}
    BY <1>4
  <2>. QED
    BY <1>4, <1>11, <2>1, <2>2, <2>3 DEF MigrationsInv, RecordsHold
<1>16. RecordsHaveFiles'
  BY <1>4 DEF MigrationsInv, RecordsHaveFiles
<1>. QED
  BY <1>8, <1>9, <1>12, <1>13, <1>14, <1>15, <1>16 DEF MigrationsInv

-----------------------------------------------------------------------------
(* migrate, in the transactions.                                           *)

\* A plan that is being carried out is made of files of the directory.
LEMMA PlannedFiles ==
  ASSUME MigrationsInv, NEW p \in Migrating
  PROVE  /\ p \in Migrators /\ plan[p] \in Seq(File) /\ Len(plan[p]) \in Nat \ {0}
         /\ \A i \in 1..Len(plan[p]) : plan[p][i] \in files
         /\ Migration(p) = plan[p][1] /\ Migration(p) \in files /\ Migration(p) \in File
         /\ way[p] \in {"up", "down"}
         /\ way[p] = "down" => "down" \in crossed
<1>1. /\ p \in Migrators /\ plan[p] \in Seq(File) /\ loaded[p] \in Seq(File)
      /\ goal[p] \in Nat /\ files \subseteq File
  BY MigrationsAssumption DEF Migrating, MigrationsInv, TypeOK
<1>2. Len(plan[p]) \in Nat /\ Len(loaded[p]) \in Nat
  BY <1>1
<1>3. /\ Len(plan[p]) >= 1
      /\ \A i \in 1..Len(plan[p]) : \E j \in 1..Len(loaded[p]) : plan[p][i] = loaded[p][j]
  <2>1. CASE way[p] = "up" /\ PlanUp(p)
    <3>1. \A i \in 1..Len(plan[p]) : goal[p] - Len(plan[p]) + i \in 1..Len(loaded[p])
      BY <1>1, <1>2, <2>1 DEF PlanUp
    <3>. QED
      BY <1>2, <2>1, <3>1 DEF PlanUp
  <2>2. CASE way[p] = "down" /\ PlanDown(p)
    <3>1. \A i \in 1..Len(plan[p]) : goal[p] + Len(plan[p]) - i + 1 \in 1..Len(loaded[p])
      BY <1>1, <1>2, <2>2, SMTT(20) DEF PlanDown
    <3>. QED
      BY <1>2, <2>2, <3>1 DEF PlanDown
  <2>. QED
    BY <2>1, <2>2 DEF MigrationsInv, PlansHold
<1>4. \A i \in 1..Len(plan[p]) : plan[p][i] \in files
  BY <1>1, <1>3 DEF MigrationsInv, ListsAreFiles
<1>5. Migration(p) = plan[p][1]
  BY <1>1, <1>2, <1>3 DEF Migration
<1>. QED
  BY <1>1, <1>2, <1>3, <1>4, <1>5 DEF MigrationsInv, PlansHold

\* A plan stands while the others that are migrating go the same way.
LEMMA PlansStand ==
  ASSUME MigrationsInv, NEW p \in Migrating, NEW q \in Migrating,
         UNCHANGED <<loaded, goal, way, crossed>>, plan'[q] = plan[q],
         way[p] = "up" => db.applied \subseteq db'.applied,
         way[p] = "down" => db'.applied \subseteq db.applied
  PROVE  \/ way'[q] = "up" /\ PlanUp(q)'
         \/ way'[q] = "down" /\ PlanDown(q)' /\ "down" \in crossed'
<1>1. OneWay => way[p] = way[q]
  BY DEF MigrationsInv, WaysAgree
<1>2. CASE way[q] = "up" /\ PlanUp(q)
  BY <1>1, <1>2 DEF PlanUp, OneWay, IsApplied
<1>3. CASE way[q] = "down" /\ PlanDown(q) /\ "down" \in crossed
  BY <1>1, <1>3 DEF PlanDown, OneWay, IsApplied
<1>. QED
  BY <1>2, <1>3 DEF MigrationsInv, PlansHold

LEMMA BeginKeeps ==
  ASSUME MigrationsInv, NEW p \in Migrators, BeginMigration(p)
  PROVE  MigrationsInv'
<1>1. /\ pc[p] = "ready" /\ pc' = [pc EXCEPT ![p] = "tx"]
      /\ todo' = [todo EXCEPT ![p] = Migration(p).creates]
      /\ UNCHANGED <<dialect, now, collected, files, db, lock, draft, loaded, goal, way, plan,
                     crossed>>
  BY DEF BeginMigration, baseVars
<1>2. /\ pc'[p] = "tx" /\ todo'[p] = Migration(p).creates
      /\ \A q \in Migrators \ {p} : pc'[q] = pc[q] /\ todo'[q] = todo[q]
  BY <1>1 DEF MigrationsInv, TypeOK
<1>3. p \in Migrating /\ Migrating' = Migrating
  BY <1>1, <1>2 DEF Migrating
<1>4. Migration(p).creates \subseteq Objects
  BY <1>3, PlannedFiles DEF File
<1>5. lock # p
  BY <1>1, MigrationsAssumption DEF MigrationsInv, TypeOK
<1>6. TypeOK'
  <2>1. /\ pc' \in [Migrators -> {"idle", "loaded", "ready", "tx", "commit", "ok"}]
        /\ todo' \in [Migrators -> SUBSET Objects]
        /\ lock # NoProcess => pc'[lock] \in {"tx", "commit"} /\ dialect = "transactional"
    BY <1>1, <1>4 DEF MigrationsInv, TypeOK
  <2>. QED
    BY <1>1, <2>1 DEF MigrationsInv, TypeOK
<1>7. ListsAreFiles' /\ PlansHold' /\ WaysAgree'
  BY <1>1, <1>3 DEF MigrationsInv, ListsAreFiles, PlansHold, WaysAgree, PlanUp, PlanDown, OneWay,
     IsApplied, Sorted
<1>8. TransactionsHold'
  <2>1. ASSUME NEW q \in Migrators, q # p, InTx(q)'
        PROVE  InTx(q) /\ pc'[q] = pc[q] /\ todo'[q] = todo[q]
    BY <1>1, <1>2, <2>1 DEF InTx
  <2>2. Executed(p)' = {}
    BY <1>1, <1>2 DEF Executed, Migration
  <2>. QED
    BY <1>1, <1>2, <1>5, <2>1, <2>2 DEF MigrationsInv, TransactionsHold, TransactionHolds, Executed, Migration,
       Drafted, OneWay, IsApplied
<1>9. RecordsHaveFiles' /\ RecordsHold'
  BY <1>1, <1>3 DEF MigrationsInv, RecordsHaveFiles, RecordsHold, VersionsDistinct, Made,
     AppliedFiles, IsApplied, Disjoint, OneWay
<1>. QED
  BY <1>6, <1>7, <1>8, <1>9 DEF MigrationsInv

\* A process that ends gives its transaction up; nobody else has waited for what it held.
LEMMA ExitKeeps ==
  ASSUME MigrationsInv, NEW p \in Migrators, Exit(p)
  PROVE  MigrationsInv'
<1>1. /\ pc' = [pc EXCEPT ![p] = "idle"] /\ way' = [way EXCEPT ![p] = "none"]
      /\ loaded' = [loaded EXCEPT ![p] = <<>>] /\ goal' = [goal EXCEPT ![p] = 0]
      /\ plan' = [plan EXCEPT ![p] = <<>>] /\ todo' = [todo EXCEPT ![p] = {}]
      /\ lock' = (IF lock = p THEN NoProcess ELSE lock)
      /\ draft' = (IF lock = p THEN Empty ELSE draft)
      /\ UNCHANGED <<dialect, now, collected, files, db, crossed>>
  BY DEF Exit, EndTx
<1>2. /\ pc'[p] = "idle" /\ loaded'[p] = <<>>
      /\ \A q \in Migrators \ {p} :
           /\ pc'[q] = pc[q] /\ way'[q] = way[q] /\ loaded'[q] = loaded[q]
           /\ goal'[q] = goal[q] /\ plan'[q] = plan[q] /\ todo'[q] = todo[q]
  BY <1>1 DEF MigrationsInv, TypeOK
<1>3. Migrating' = Migrating \ {p} /\ \A q \in Migrators : InTx(q)' => InTx(q) /\ q # p
  BY <1>1, <1>2 DEF Migrating, InTx
<1>4. TypeOK'
  <2>1. /\ pc' \in [Migrators -> {"idle", "loaded", "ready", "tx", "commit", "ok"}]
        /\ way' \in [Migrators -> {"none", "up", "down"}]
        /\ loaded' \in [Migrators -> Seq(File)] /\ plan' \in [Migrators -> Seq(File)]
        /\ todo' \in [Migrators -> SUBSET Objects]
    BY <1>1 DEF MigrationsInv, TypeOK
  <2>2. goal' \in [Migrators -> 0..MaxFiles]
    BY <1>1, MigrationsAssumption DEF MigrationsInv, TypeOK
  <2>3. lock' \in Migrators \cup {NoProcess} /\ draft' \in Database
    BY <1>1 DEF MigrationsInv, TypeOK, Empty, Database
  <2>4. lock' # NoProcess => pc'[lock'] \in {"tx", "commit"} /\ dialect = "transactional"
    BY <1>1, <1>2 DEF MigrationsInv, TypeOK
  <2>. QED
    BY <1>1, <2>1, <2>2, <2>3, <2>4 DEF MigrationsInv, TypeOK
<1>5. ListsAreFiles'
  BY <1>1, <1>2 DEF MigrationsInv, ListsAreFiles, Sorted, Before
<1>6. \A q \in Migrating' : q \in Migrators \ {p} /\ q \in Migrating
  BY <1>3 DEF Migrating
<1>7. PlansHold' /\ WaysAgree'
  <2>1. ASSUME NEW q \in Migrating'
        PROVE  \/ way'[q] = "up" /\ PlanUp(q)'
               \/ way'[q] = "down" /\ PlanDown(q)' /\ "down" \in crossed'
    <3>1. /\ way'[q] = way[q] /\ plan'[q] = plan[q] /\ goal'[q] = goal[q]
          /\ loaded'[q] = loaded[q] /\ db' = db /\ crossed' = crossed /\ q \in Migrating
      BY <1>1, <1>2, <1>6, <2>1
    <3>2. (PlanUp(q) => PlanUp(q)') /\ (PlanDown(q) => PlanDown(q)')
      BY <3>1 DEF PlanUp, PlanDown, OneWay, IsApplied
    <3>. QED
      BY <3>1, <3>2 DEF MigrationsInv, PlansHold
  <2>. QED
    BY <1>1, <1>2, <1>6, <2>1 DEF MigrationsInv, PlansHold, WaysAgree, OneWay
<1>8. TransactionsHold'
  <2>1. ASSUME NEW q \in Migrators, InTx(q)'
        PROVE  TransactionHolds(q)'
    <3>1. /\ InTx(q) /\ pc'[q] = pc[q] /\ way'[q] = way[q] /\ plan'[q] = plan[q]
          /\ todo'[q] = todo[q] /\ (lock' = q <=> lock = q)
          /\ lock = q => draft' = draft
      BY <1>1, <1>2, <1>3, <2>1, MigrationsAssumption
    <3>2. TransactionHolds(q)
      BY <3>1 DEF MigrationsInv, TransactionsHold
    <3>3. Executed(q)' = Executed(q)
      BY <3>1 DEF Executed, Migration
    <3>4. lock = q /\ Drafted(q) => Drafted(q)'
      BY <1>1, <3>1, <3>3 DEF Drafted, Migration
    <3>. QED
      BY <1>1, <3>1, <3>2, <3>3, <3>4 DEF TransactionHolds, Migration, OneWay, IsApplied
  <2>. QED
    BY <2>1 DEF TransactionsHold
<1>9. RecordsHaveFiles' /\ RecordsHold'
  BY <1>1, <1>2, <1>6 DEF MigrationsInv, RecordsHaveFiles, RecordsHold, VersionsDistinct, Made,
     AppliedFiles, IsApplied, Disjoint, OneWay
<1>. QED
  BY <1>4, <1>5, <1>7, <1>8, <1>9 DEF MigrationsInv

\* A transaction sees what is committed until it has written.
LEMMA SeenBefore ==
  ASSUME MigrationsInv, NEW p \in Migrators, pc[p] = "tx"
  PROVE  /\ p \in Migrating /\ InTx(p) /\ TransactionHolds(p) /\ View(p) \in Database
         /\ lock # p => View(p) = db /\ (dialect = "transactional" => Executed(p) = {})
         /\ lock = p => View(p) = draft /\ Drafted(p)
         /\ dialect # "transactional" => lock = NoProcess
<1>1. p \in Migrating /\ InTx(p) /\ TransactionHolds(p)
  BY DEF Migrating, InTx, MigrationsInv, TransactionsHold
<1>2. View(p) \in Database /\ (dialect # "transactional" => lock = NoProcess)
  BY DEF View, MigrationsInv, TypeOK
<1>3. lock = p => dialect = "transactional"
  BY MigrationsAssumption DEF MigrationsInv, TypeOK
<1>. QED
  BY <1>1, <1>2, <1>3 DEF View, TransactionHolds

LEMMA ExecKeeps ==
  ASSUME MigrationsInv, NEW p \in Migrators, NEW o \in Objects, ExecStatement(p, o)
  PROVE  MigrationsInv'
<1>1. PICK seen : seen = View(p)
  OBVIOUS
<1>2. PICK view : view = IF way[p] = "up" THEN [seen EXCEPT !.schema = @ \cup {o}]
                                          ELSE [seen EXCEPT !.schema = @ \ {o}]
  OBVIOUS
<1>3. /\ pc[p] = "tx" /\ o \in todo[p] /\ Write(p, view)
      /\ way[p] = "up" => o \notin seen.schema
      /\ todo' = [todo EXCEPT ![p] = @ \ {o}]
      /\ UNCHANGED <<dialect, now, collected, files, pc, loaded, goal, way, plan, crossed>>
  BY <1>1, <1>2 DEF ExecStatement
<1>4. /\ p \in Migrating /\ InTx(p) /\ TransactionHolds(p) /\ seen \in Database
      /\ lock # p => seen = db /\ (dialect = "transactional" => Executed(p) = {})
      /\ lock = p => seen = draft /\ Drafted(p)
      /\ dialect # "transactional" => lock = NoProcess
  BY <1>1, <1>3, SeenBefore
<1>5. /\ view \in Database /\ view.applied = seen.applied
      /\ way[p] = "up" => view.schema = seen.schema \cup {o}
      /\ way[p] = "down" => view.schema = seen.schema \ {o}
  BY <1>2, <1>4 DEF Database
<1>6. todo'[p] = todo[p] \ {o} /\ \A q \in Migrators \ {p} : todo'[q] = todo[q]
  BY <1>3 DEF MigrationsInv, TypeOK
<1>7. /\ dialect = "transactional" =>
           lock \in {NoProcess, p} /\ lock' = p /\ draft' = view /\ db' = db
      /\ dialect # "transactional" => db' = view /\ lock' = lock /\ draft' = draft
  BY <1>3 DEF Write
<1>8. db'.applied = db.applied
  BY <1>4, <1>5, <1>7, MigrationsAssumption
<1>9. Executed(p)' = Executed(p) \cup {o} /\ \A q \in Migrators \ {p} : Executed(q)' = Executed(q)
  <2>1. o \in Migration(p).creates
    BY <1>3, <1>4 DEF TransactionHolds
  <2>2. \A q \in Migrators : Migration(q)' = Migration(q)
    BY <1>3 DEF Migration
  <2>. QED
    BY <1>6, <2>1, <2>2 DEF Executed
<1>10. TypeOK'
  <2>1. todo' \in [Migrators -> SUBSET Objects]
    BY <1>3 DEF MigrationsInv, TypeOK
  <2>2. db' \in Database /\ draft' \in Database /\ lock' \in Migrators \cup {NoProcess}
    BY <1>5, <1>7 DEF MigrationsInv, TypeOK
  <2>3. lock' # NoProcess => pc[lock'] \in {"tx", "commit"} /\ dialect = "transactional"
    BY <1>3, <1>7 DEF MigrationsInv, TypeOK
  <2>. QED
    BY <1>3, <2>1, <2>2, <2>3 DEF MigrationsInv, TypeOK
<1>11. ListsAreFiles' /\ PlansHold' /\ WaysAgree' /\ Migrating' = Migrating
  <2>1. Migrating' = Migrating /\ p \in Migrating
    BY <1>3, <1>4 DEF Migrating
  <2>2. PlansHold'
    BY <1>3, <1>8, <2>1, PlansStand DEF PlansHold
  <2>. QED
    BY <1>3, <2>1, <2>2 DEF MigrationsInv, ListsAreFiles, WaysAgree, OneWay, Sorted
<1>12. way[p] \in {"up", "down"} /\ (crossed = {} => way[p] = "up")
  BY <1>4, PlannedFiles
<1>13. ASSUME NEW q \in Migrators, InTx(q)'
       PROVE  TransactionHolds(q)'
  <2>1. InTx(q) /\ TransactionHolds(q)
    BY <1>3, <1>13 DEF InTx, MigrationsInv, TransactionsHold
  <2>2. Migration(q)' = Migration(q) /\ (IsApplied(Migration(q)))' = IsApplied(Migration(q))
    BY <1>3, <1>8 DEF Migration, IsApplied
  <2>3. CASE q = p
    <3>1. /\ todo'[p] \subseteq Migration(p)' .creates
          /\ pc'[p] = "tx"
      BY <1>3, <1>4, <1>6, <2>2, <2>3 DEF TransactionHolds
    <3>2. dialect = "transactional" => lock' = p /\ Drafted(p)'
      <4>. SUFFICES ASSUME dialect = "transactional" PROVE Drafted(p)'
        BY <1>7
      <4>1. /\ lock' = p /\ draft' = view /\ db' = db /\ way' = way /\ pc' = pc
        BY <1>3, <1>7
      <4>2. /\ way[p] = "up" =>
                 Executed(p) \cap db.schema = {} /\ seen.schema = db.schema \cup Executed(p)
            /\ way[p] = "down" => seen.schema = db.schema \ Executed(p)
            /\ seen.applied = db.applied
        BY <1>3, <1>4, <1>12 DEF Drafted
      <4>3. /\ way[p] = "up" => Executed(p)' \cap db.schema = {}
                                /\ view.schema = db.schema \cup Executed(p)'
            /\ way[p] = "down" => view.schema = db.schema \ Executed(p)'
        BY <1>3, <1>5, <1>9, <4>2
      <4>. QED
        BY <1>3, <1>5, <1>12, <4>1, <4>2, <4>3 DEF Drafted
    <3>3. dialect # "transactional" /\ crossed' = {} => Executed(p)' \subseteq db'.schema
      <4>. SUFFICES ASSUME dialect # "transactional", crossed = {}
                    PROVE  Executed(p)' \subseteq db'.schema
        BY <1>3
      <4>1. lock = NoProcess /\ seen = db /\ way[p] = "up" /\ Executed(p) \subseteq db.schema
        BY <1>4, <1>12, MigrationsAssumption DEF TransactionHolds
      <4>. QED
        BY <1>5, <1>7, <1>9, <4>1
    <3>. QED
      BY <1>3, <2>3, <3>1, <3>2, <3>3 DEF TransactionHolds
  <2>4. CASE q # p
    <3>1. dialect = "transactional" => lock # q /\ lock' # q
      BY <1>7, <2>4, MigrationsAssumption
    <3>2. dialect # "transactional" /\ crossed = {} => db.schema \subseteq db'.schema
      BY <1>4, <1>5, <1>7, <1>12, MigrationsAssumption
    <3>. QED
      BY <1>3, <1>6, <1>9, <2>1, <2>2, <2>4, <3>1, <3>2 DEF TransactionHolds, OneWay
  <2>. QED
    BY <2>3, <2>4
<1>14. RecordsHaveFiles'
  BY <1>3, <1>8 DEF MigrationsInv, RecordsHaveFiles
<1>15. RecordsHold'
  <2>1. /\ AppliedFiles' = AppliedFiles /\ Made' = Made
        /\ \A f : Disjoint(f)' <=> Disjoint(f)
    BY <1>3, <1>8 DEF AppliedFiles, IsApplied, Made, Disjoint
  <2>2. crossed = {} => db.schema \subseteq db'.schema
    BY <1>4, <1>5, <1>7, <1>12, MigrationsAssumption
  <2>. QED
    BY <1>3, <1>7, <1>11, <2>1, <2>2 DEF MigrationsInv, RecordsHold, VersionsDistinct, OneWay
<1>. QED
  BY <1>10, <1>11, <1>13, <1>14, <1>15 DEF MigrationsInv, TransactionsHold

\* The version of the migration is recorded, or no longer recorded.
LEMMA RecordKeeps ==
  ASSUME MigrationsInv, NEW p \in Migrators, Record(p)
  PROVE  MigrationsInv'
<1>1. PICK seen : seen = View(p)
  OBVIOUS
<1>2. PICK version : version = Migration(p).stamp
  OBVIOUS
<1>3. PICK view : view = IF way[p] = "up" THEN [seen EXCEPT !.applied = @ \cup {version}]
                                          ELSE [seen EXCEPT !.applied = @ \ {version}]
  OBVIOUS
<1>4. /\ pc[p] = "tx" /\ todo[p] = {} /\ Write(p, view)
      /\ way[p] = "up" => version \notin seen.applied
      /\ pc' = [pc EXCEPT ![p] = "commit"]
      /\ UNCHANGED <<dialect, now, collected, files, loaded, goal, way, plan, todo, crossed>>
  BY <1>1, <1>2, <1>3 DEF Record
<1>5. /\ p \in Migrating /\ InTx(p) /\ TransactionHolds(p) /\ seen \in Database
      /\ lock # p => seen = db /\ (dialect = "transactional" => Executed(p) = {})
      /\ lock = p => seen = draft /\ Drafted(p)
      /\ dialect # "transactional" => lock = NoProcess
  BY <1>1, <1>4, SeenBefore
<1>6. /\ Migration(p) \in files /\ Migration(p) \in File /\ version \in Stamps
      /\ way[p] \in {"up", "down"} /\ (crossed = {} => way[p] = "up")
  BY <1>2, <1>5, PlannedFiles DEF File
<1>7. /\ view \in Database /\ view.schema = seen.schema
      /\ way[p] = "up" => view.applied = seen.applied \cup {version}
      /\ way[p] = "down" => view.applied = seen.applied \ {version}
  BY <1>3, <1>5, <1>6 DEF Database
<1>8. pc'[p] = "commit" /\ \A q \in Migrators \ {p} : pc'[q] = pc[q]
  BY <1>4 DEF MigrationsInv, TypeOK
<1>9. /\ dialect = "transactional" =>
           lock \in {NoProcess, p} /\ lock' = p /\ draft' = view /\ db' = db
      /\ dialect # "transactional" =>
           db' = view /\ lock' = lock /\ draft' = draft /\ lock = NoProcess /\ seen = db
  BY <1>4, <1>5, MigrationsAssumption DEF Write
<1>10. /\ db'.schema = db.schema
       /\ way[p] = "up" => db.applied \subseteq db'.applied
                           /\ db'.applied \subseteq db.applied \cup {version}
       /\ way[p] = "down" => db'.applied \subseteq db.applied
       /\ dialect = "transactional" => db'.applied = db.applied
  BY <1>7, <1>9
<1>11. Migrating' = Migrating /\ \A q \in Migrators : InTx(q)' <=> InTx(q)
  BY <1>4, <1>8 DEF Migrating, InTx
<1>12. TypeOK'
  <2>1. pc' \in [Migrators -> {"idle", "loaded", "ready", "tx", "commit", "ok"}]
    BY <1>4 DEF MigrationsInv, TypeOK
  <2>2. db' \in Database /\ draft' \in Database /\ lock' \in Migrators \cup {NoProcess}
    BY <1>7, <1>9 DEF MigrationsInv, TypeOK
  <2>3. lock' # NoProcess => pc'[lock'] \in {"tx", "commit"} /\ dialect = "transactional"
    BY <1>8, <1>9
  <2>. QED
    BY <1>4, <2>1, <2>2, <2>3 DEF MigrationsInv, TypeOK
<1>13. ListsAreFiles' /\ PlansHold' /\ WaysAgree'
  <2>1. PlansHold'
    BY <1>4, <1>5, <1>10, <1>11, PlansStand DEF PlansHold
  <2>. QED
    BY <1>4, <1>11, <2>1 DEF MigrationsInv, ListsAreFiles, WaysAgree, OneWay, Sorted
<1>14. \A q \in Migrators : Migration(q)' = Migration(q) /\ Executed(q)' = Executed(q)
  BY <1>4 DEF Migration, Executed
<1>15. ASSUME NEW q \in Migrators, InTx(q)'
       PROVE  TransactionHolds(q)'
  <2>1. InTx(q) /\ TransactionHolds(q) /\ q \in Migrating
    BY <1>11, <1>15 DEF InTx, MigrationsInv, TransactionsHold, Migrating
  <2>2. CASE q = p
    <3>1. dialect = "transactional" => Drafted(p)'
      <4>. SUFFICES ASSUME dialect = "transactional" PROVE Drafted(p)'
        OBVIOUS
      <4>1. /\ draft' = view /\ db' = db /\ way' = way /\ Migration(p)' .stamp = version
        BY <1>2, <1>4, <1>9, <1>14
      <4>2. /\ way[p] = "up" =>
                 Executed(p) \cap db.schema = {} /\ seen.schema = db.schema \cup Executed(p)
            /\ way[p] = "down" => seen.schema = db.schema \ Executed(p)
            /\ seen.applied = db.applied
        BY <1>4, <1>5, <1>6 DEF Drafted
      <4>. QED
        BY <1>4, <1>6, <1>7, <1>8, <1>14, <4>1, <4>2 DEF Drafted
    <3>2. dialect # "transactional" => (IsApplied(Migration(p))' <=> way'[p] = "up")
      BY <1>2, <1>4, <1>6, <1>7, <1>9, <1>14 DEF IsApplied
    <3>. QED
      BY <1>4, <1>8, <1>9, <1>10, <1>14, <2>1, <2>2, <3>1, <3>2 DEF TransactionHolds
  <2>3. CASE q # p
    <3>1. dialect = "transactional" => lock # q /\ lock' # q
      BY <1>9, <2>3, MigrationsAssumption
    <3>2. ASSUME OneWay, dialect # "transactional", pc[q] = "commit"
          PROVE  IsApplied(Migration(q))' <=> way[q] = "up"
      <4>1. way[p] = way[q] /\ (IsApplied(Migration(q)) <=> way[q] = "up")
        BY <1>5, <2>1, <3>2 DEF MigrationsInv, WaysAgree, TransactionHolds
      <4>. QED
        BY <1>6, <1>10, <1>14, <4>1 DEF IsApplied
    <3>. QED
      BY <1>4, <1>8, <1>10, <1>14, <2>1, <2>3, <3>1, <3>2 DEF TransactionHolds, OneWay
  <2>. QED
    BY <2>2, <2>3
<1>16. RecordsHaveFiles'
  BY <1>2, <1>4, <1>6, <1>10 DEF MigrationsInv, RecordsHaveFiles
<1>17. RecordsHold'
  <2>1. CASE dialect = "transactional"
    <3>1. /\ AppliedFiles' = AppliedFiles /\ Made' = Made
          /\ \A f : Disjoint(f)' <=> Disjoint(f)
      BY <1>4, <1>10, <2>1 DEF AppliedFiles, IsApplied, Made, Disjoint
    <3>. QED
      BY <1>4, <1>10, <1>11, <3>1 DEF MigrationsInv, RecordsHold, VersionsDistinct, OneWay
  <2>2. CASE dialect # "transactional"
    <3>1. ASSUME VersionsDistinct, crossed = {}
          PROVE  Made' \subseteq db.schema
      <4>1. Migration(p).creates \subseteq db.schema
        BY <1>4, <1>5, <2>2, <3>1 DEF TransactionHolds, Executed
      <4>2. \A g \in AppliedFiles' : g \in AppliedFiles \/ g = Migration(p)
        BY <1>2, <1>4, <1>6, <1>10, <3>1 DEF VersionsDistinct, AppliedFiles, IsApplied
      <4>. QED
        BY <3>1, <4>1, <4>2 DEF Made, MigrationsInv, RecordsHold
    <3>. QED
      BY <1>4, <1>10, <2>2, <3>1 DEF RecordsHold, VersionsDistinct
  <2>. QED
    BY <2>1, <2>2
<1>. QED
  BY <1>12, <1>13, <1>15, <1>16, <1>17 DEF MigrationsInv, TransactionsHold

\* The migration is committed, and the next of the plan is at its head.
LEMMA CommitKeeps ==
  ASSUME MigrationsInv, NEW p \in Migrators, Commit(p)
  PROVE  MigrationsInv'
<1>1. PICK version : version = Migration(p).stamp
  OBVIOUS
<1>2. /\ pc[p] = "commit" /\ db' = View(p)
      /\ lock' = (IF lock = p THEN NoProcess ELSE lock)
      /\ draft' = (IF lock = p THEN Empty ELSE draft)
      /\ plan' = [plan EXCEPT ![p] = Tail(plan[p])]
      /\ pc' = [pc EXCEPT ![p] = IF Len(plan[p]) = 1 THEN "ok" ELSE "ready"]
      /\ UNCHANGED <<dialect, now, collected, files, loaded, goal, way, todo, crossed>>
  BY DEF Commit, EndTx
<1>3. p \in Migrating /\ InTx(p) /\ TransactionHolds(p)
  BY <1>2 DEF Migrating, InTx, MigrationsInv, TransactionsHold
<1>4. /\ plan[p] \in Seq(File) /\ Len(plan[p]) \in Nat \ {0}
      /\ \A i \in 1..Len(plan[p]) : plan[p][i] \in files
      /\ Migration(p) = plan[p][1] /\ Migration(p) \in files /\ Migration(p) \in File
      /\ way[p] \in {"up", "down"} /\ (crossed = {} => way[p] = "up")
  BY <1>3, PlannedFiles
<1>5. /\ pc'[p] = (IF Len(plan[p]) = 1 THEN "ok" ELSE "ready") /\ plan'[p] = Tail(plan[p])
      /\ \A q \in Migrators \ {p} : pc'[q] = pc[q] /\ plan'[q] = plan[q]
  BY <1>2 DEF MigrationsInv, TypeOK
<1>6. PICK creates : creates = Migration(p).creates
  OBVIOUS
<1>7. Executed(p) = creates
  BY <1>2, <1>3, <1>6 DEF TransactionHolds, Executed
\* What is committed.
<1>8. dialect = "transactional" =>
        /\ lock = p /\ db' = draft
        /\ way[p] = "up" =>
             /\ version \notin db.applied /\ db'.applied = db.applied \cup {version}
             /\ creates \cap db.schema = {} /\ db'.schema = db.schema \cup creates
        /\ way[p] = "down" =>
             db'.applied = db.applied \ {version} /\ db'.schema = db.schema \ creates
  BY <1>1, <1>2, <1>3, <1>4, <1>7 DEF TransactionHolds, Drafted, View
<1>9. dialect # "transactional" =>
        /\ lock = NoProcess /\ db' = db
        /\ OneWay => (IsApplied(Migration(p)) <=> way[p] = "up")
  BY <1>2, <1>3, MigrationsAssumption DEF TransactionHolds, View, MigrationsInv, TypeOK
<1>10. /\ way[p] = "up" => db.applied \subseteq db'.applied
                           /\ db'.applied \subseteq db.applied \cup {version}
       /\ way[p] = "down" => db'.applied \subseteq db.applied
       /\ OneWay => (version \in db'.applied <=> way[p] = "up")
  BY <1>1, <1>4, <1>8, <1>9 DEF IsApplied
<1>11. PICK rest : rest = Tail(plan[p])
  OBVIOUS
<1>12. /\ rest \in Seq(File) /\ Len(rest) = Len(plan[p]) - 1
       /\ \A i \in 1..Len(rest) : rest[i] = plan[p][i + 1]
  BY <1>4, <1>11
<1>13. /\ Migrating' \subseteq Migrating
       /\ p \in Migrating' => Len(rest) \in Nat \ {0}
       /\ \A q \in Migrators : InTx(q)' => InTx(q) /\ q # p
  BY <1>2, <1>4, <1>5, <1>12 DEF Migrating, InTx
<1>14. TypeOK'
  <2>1. /\ pc' \in [Migrators -> {"idle", "loaded", "ready", "tx", "commit", "ok"}]
        /\ plan' \in [Migrators -> Seq(File)]
    BY <1>2, <1>11, <1>12 DEF MigrationsInv, TypeOK
  <2>2. db' \in Database /\ draft' \in Database /\ lock' \in Migrators \cup {NoProcess}
    BY <1>2 DEF MigrationsInv, TypeOK, View, Empty, Database
  <2>3. lock' # NoProcess => pc'[lock'] \in {"tx", "commit"} /\ dialect = "transactional"
    BY <1>2, <1>5 DEF MigrationsInv, TypeOK
  <2>. QED
    BY <1>2, <2>1, <2>2, <2>3 DEF MigrationsInv, TypeOK
<1>15. PlansHold'
  <2>1. ASSUME NEW q \in Migrating', q # p
        PROVE  \/ way'[q] = "up" /\ PlanUp(q)'
               \/ way'[q] = "down" /\ PlanDown(q)' /\ "down" \in crossed'
    <3>1. q \in Migrating /\ plan'[q] = plan[q]
      BY <1>5, <1>13, <2>1 DEF Migrating
    <3>. QED
      BY <1>2, <1>3, <1>10, <3>1, PlansStand
  <2>2. ASSUME p \in Migrating'
        PROVE  \/ way'[p] = "up" /\ PlanUp(p)'
               \/ way'[p] = "down" /\ PlanDown(p)' /\ "down" \in crossed'
    <3>1. PICK n : n = Len(rest)
      OBVIOUS
    <3>2. /\ n \in Nat \ {0} /\ Len(plan[p]) = n + 1 /\ plan'[p] = rest /\ goal'[p] = goal[p]
          /\ loaded'[p] = loaded[p] /\ goal[p] \in Nat /\ Len(loaded[p]) \in Nat
      BY <1>2, <1>4, <1>5, <1>11, <1>12, <1>13, <2>2, <3>1, MigrationsAssumption
         DEF MigrationsInv, TypeOK
    <3>3. CASE way[p] = "up" /\ PlanUp(p)
      <4>1. n + 1 <= goal[p] /\ goal[p] <= Len(loaded[p])
        BY <3>2, <3>3 DEF PlanUp
      <4>2. \A i \in 1..n : rest[i] = loaded[p][goal[p] - n + i]
        <5>1. ASSUME NEW i \in 1..n PROVE rest[i] = loaded[p][goal[p] - n + i]
          <6>1. i + 1 \in 1..Len(plan[p]) /\ rest[i] = plan[p][i + 1]
            BY <1>12, <3>1, <3>2
          <6>2. PICK to \in Nat : to = goal[p]
            BY <3>2
          <6>3. to - (n + 1) + (i + 1) = to - n + i
            BY <3>2
          <6>. QED
            BY <3>2, <3>3, <6>1, <6>2, <6>3 DEF PlanUp
        <5>. QED
          BY <5>1
      <4>3. ASSUME OneWay, NEW i \in 1..(goal[p] - n)
            PROVE  loaded[p][i].stamp \in db'.applied
        <5>1. CASE i = goal[p] - n
          <6>1. 1 \in 1..Len(plan[p]) /\ goal[p] - Len(plan[p]) + 1 = i
            BY <3>2, <5>1
          <6>2. plan[p][1] = loaded[p][i]
            BY <3>3, <6>1 DEF PlanUp
          <6>. QED
            BY <1>1, <1>4, <1>10, <3>3, <4>3, <6>2
        <5>2. CASE i # goal[p] - n
          <6>1. i \in 1..(goal[p] - Len(plan[p]))
            BY <3>2, <4>1, <5>2
          <6>. QED
            BY <1>10, <3>3, <4>3, <6>1 DEF PlanUp, IsApplied
        <5>. QED
          BY <5>1, <5>2
      <4>4. PlanUp(p)'
        BY <1>2, <3>1, <3>2, <4>1, <4>2, <4>3 DEF PlanUp, OneWay, IsApplied
      <4>. QED
        BY <1>2, <3>3, <4>4
    <3>4. CASE way[p] = "down" /\ PlanDown(p) /\ "down" \in crossed
      <4>1. goal[p] + n + 1 <= Len(loaded[p])
        BY <3>2, <3>4 DEF PlanDown
      <4>2. \A i \in 1..n : rest[i] = loaded[p][goal[p] + n - i + 1]
        <5>1. ASSUME NEW i \in 1..n PROVE rest[i] = loaded[p][goal[p] + n - i + 1]
          <6>1. /\ i + 1 \in 1..Len(plan[p]) /\ rest[i] = plan[p][i + 1]
                /\ goal[p] + Len(plan[p]) - (i + 1) + 1 = goal[p] + n - i + 1
            BY <1>12, <3>1, <3>2
          <6>. QED
            BY <3>2, <3>4, <6>1 DEF PlanDown
        <5>. QED
          BY <5>1
      <4>3. ASSUME OneWay, NEW i \in (goal[p] + n + 1)..Len(loaded[p])
            PROVE  loaded[p][i].stamp \notin db'.applied
        <5>1. CASE i = goal[p] + n + 1
          <6>1. 1 \in 1..Len(plan[p]) /\ goal[p] + Len(plan[p]) - 1 + 1 = i
            BY <3>2, <5>1
          <6>2. plan[p][1] = loaded[p][i]
            BY <3>4, <6>1 DEF PlanDown
          <6>. QED
            BY <1>1, <1>4, <1>10, <3>4, <4>3, <6>2
        <5>2. CASE i # goal[p] + n + 1
          <6>1. i \in (goal[p] + Len(plan[p]) + 1)..Len(loaded[p])
            BY <3>2, <4>1, <5>2
          <6>. QED
            BY <1>10, <3>4, <4>3, <6>1 DEF PlanDown, IsApplied
        <5>. QED
          BY <5>1, <5>2
      <4>4. PlanDown(p)'
        <5>1. /\ Len(plan'[p]) = n /\ n >= 1 /\ goal'[p] + n <= Len(loaded'[p])
          BY <3>1, <3>2, <4>1
        <5>2. \A i \in 1..n : plan'[p][i] = loaded'[p][goal'[p] + n - i + 1]
          BY <3>2, <4>2
        <5>3. OneWay' => \A i \in (goal'[p] + n + 1)..Len(loaded'[p]) :
                           loaded'[p][i].stamp \notin db'.applied
          BY <1>2, <3>2, <4>3 DEF OneWay
        <5>. QED
          BY <5>1, <5>2, <5>3 DEF PlanDown, IsApplied
      <4>. QED
        BY <1>2, <3>4, <4>4
    <3>. QED
      BY <1>3, <3>3, <3>4 DEF MigrationsInv, PlansHold
  <2>. QED
    BY <2>1, <2>2 DEF PlansHold
<1>16. ListsAreFiles' /\ WaysAgree'
  BY <1>2, <1>13 DEF MigrationsInv, ListsAreFiles, WaysAgree, OneWay, Sorted
<1>17. ASSUME NEW q \in Migrators, InTx(q)'
       PROVE  TransactionHolds(q)'
  <2>1. /\ InTx(q) /\ q # p /\ TransactionHolds(q) /\ q \in Migrating
        /\ pc'[q] = pc[q] /\ plan'[q] = plan[q]
    BY <1>5, <1>13, <1>17 DEF MigrationsInv, TransactionsHold, InTx, Migrating
  <2>2. Migration(q)' = Migration(q) /\ Executed(q)' = Executed(q)
    BY <1>2, <2>1 DEF Migration, Executed
  <2>3. dialect = "transactional" => lock # q /\ lock' # q
    BY <1>2, <1>8, <2>1, MigrationsAssumption
  <2>4. dialect # "transactional" => (IsApplied(Migration(q))' <=> IsApplied(Migration(q)))
    BY <1>9, <2>2 DEF IsApplied
  <2>. QED
    BY <1>2, <1>9, <2>1, <2>2, <2>3, <2>4 DEF TransactionHolds, OneWay
<1>18. RecordsHaveFiles'
  BY <1>1, <1>2, <1>4, <1>10 DEF MigrationsInv, RecordsHaveFiles
<1>19. RecordsHold'
  <2>1. CASE dialect # "transactional"
    BY <1>2, <1>9, <2>1 DEF MigrationsInv, RecordsHold, VersionsDistinct, Made, AppliedFiles,
       IsApplied
  <2>2. CASE dialect = "transactional"
    <3>. SUFFICES ASSUME VersionsDistinct, OneWay
                  PROVE  /\ db'.schema = Made'
                         /\ \A f \in AppliedFiles' : Disjoint(f)'
                         /\ \A q \in Migrating' : way[q] = "down" =>
                              (\A i \in 1..Len(plan[q]) : Disjoint(plan[q][i]))'
      <4>1. /\ VersionsDistinct' <=> VersionsDistinct
            /\ OneWay' <=> OneWay
            /\ crossed' = {} => OneWay
        BY <1>2 DEF VersionsDistinct, OneWay
      <4>. QED
        BY <1>2, <2>2, <4>1 DEF RecordsHold
    <3>1. /\ db.schema = Made /\ \A f \in AppliedFiles : Disjoint(f)
          /\ \A q \in Migrating : way[q] = "down" => \A i \in 1..Len(plan[q]) : Disjoint(plan[q][i])
      BY <2>2 DEF MigrationsInv, RecordsHold
    <3>2. \A q \in Migrating' : q \in Migrating /\ way[q] = way[p]
      BY <1>3, <1>13 DEF MigrationsInv, WaysAgree
    <3>3. CASE way[p] = "up"
      <4>1. AppliedFiles' = AppliedFiles \cup {Migration(p)}
        BY <1>1, <1>2, <1>4, <1>8, <2>2, <3>3 DEF VersionsDistinct, AppliedFiles, IsApplied
      <4>2. Made' = Made \cup creates
        BY <1>6, <4>1 DEF Made
      <4>3. \A g \in AppliedFiles : g.creates \subseteq Made
        BY DEF Made
      <4>4. \A f \in AppliedFiles' : Disjoint(f)'
        BY <1>6, <1>8, <2>2, <3>1, <3>3, <4>1, <4>3 DEF Disjoint
      <4>. QED
        BY <1>8, <2>2, <3>1, <3>2, <3>3, <4>2, <4>4
    <3>4. CASE way[p] = "down"
      <4>1. AppliedFiles' = AppliedFiles \ {Migration(p)}
        BY <1>1, <1>2, <1>4, <1>8, <2>2, <3>4 DEF VersionsDistinct, AppliedFiles, IsApplied
      <4>2. Disjoint(Migration(p))
        BY <1>3, <1>4, <3>1, <3>4
      <4>3. Made' = Made \ creates
        BY <1>6, <4>1, <4>2 DEF Made, Disjoint
      <4>4. \A f : Disjoint(f) => Disjoint(f)'
        BY <4>1 DEF Disjoint
      <4>5. \A q \in Migrating' : \A i \in 1..Len(plan'[q]) :
              \E j \in 1..Len(plan[q]) : plan'[q][i] = plan[q][j]
        <5>1. ASSUME NEW q \in Migrating', q # p, NEW i \in 1..Len(plan'[q])
              PROVE  plan'[q] = plan[q]
          BY <1>5, <3>2, <5>1 DEF Migrating
        <5>2. ASSUME NEW i \in 1..Len(plan'[p])
              PROVE  i + 1 \in 1..Len(plan[p]) /\ plan'[p][i] = plan[p][i + 1]
          BY <1>4, <1>5, <1>11, <1>12, <5>2
        <5>. QED
          BY <5>1, <5>2
      <4>6. ASSUME NEW q \in Migrating'
            PROVE  (\A i \in 1..Len(plan[q]) : Disjoint(plan[q][i]))'
        <5>1. \A i \in 1..Len(plan[q]) : Disjoint(plan[q][i])
          BY <3>1, <3>2, <3>4, <4>6
        <5>2. \A i \in 1..Len(plan'[q]) : \E f : f = plan'[q][i] /\ Disjoint(f)
          BY <4>5, <4>6, <5>1
        <5>. QED
          BY <4>1, <5>2 DEF Disjoint
      <4>7. \A f \in AppliedFiles' : Disjoint(f)'
        BY <3>1, <4>1, <4>4
      <4>. QED
        BY <1>8, <2>2, <3>1, <3>4, <4>3, <4>6, <4>7
    <3>. QED
      BY <1>4, <3>3, <3>4
  <2>. QED
    BY <2>1, <2>2
<1>. QED
  BY <1>14, <1>15, <1>16, <1>17, <1>18, <1>19 DEF MigrationsInv, TransactionsHold

-----------------------------------------------------------------------------

LEMMA MigrationsStep ==
  ASSUME MigrationsInv, [Next]_vars
  PROVE  MigrationsInv' /\ files \subseteq files'
<1>1. CASE Tick \/ MakeCollect \/ MakeFails
  BY <1>1, CollectKeeps DEF Tick, MakeCollect, MakeFails
<1>2. ASSUME NEW slug \in Slugs, MakeWrite(slug) PROVE MigrationsInv' /\ files \subseteq files'
  BY <1>2, MakeWriteKeeps
<1>3. CASE Others
  BY <1>3, MergeKeeps DEF Others
<1>4. ASSUME NEW p \in Migrators, Migrate(p) PROVE MigrationsInv' /\ files \subseteq files'
  <2>1. CASE LoadFiles(p)
    BY <2>1, LoadKeeps DEF LoadFiles
  <2>2. ASSUME NEW current \in 0..MaxFiles, NEW target \in 0..MaxFiles,
               MakePlan(p, current, target)
        PROVE  MigrationsInv' /\ files \subseteq files'
    BY <2>2, PlanKeeps DEF MakePlan
  <2>3. CASE BeginMigration(p)
    BY <2>3, BeginKeeps DEF BeginMigration
  <2>4. ASSUME NEW o \in Objects, ExecStatement(p, o)
        PROVE  MigrationsInv' /\ files \subseteq files'
    BY <2>4, ExecKeeps DEF ExecStatement
  <2>5. CASE Record(p)
    BY <2>5, RecordKeeps DEF Record
  <2>6. CASE Commit(p)
    BY <2>6, CommitKeeps DEF Commit
  <2>7. CASE Exit(p)
    BY <2>7, ExitKeeps DEF Exit
  <2>. QED
    BY <1>4, <2>1, <2>2, <2>3, <2>4, <2>5, <2>6, <2>7 DEF Migrate
<1>5. CASE UNCHANGED vars
  <2>1. UNCHANGED <<dialect, now, collected, files, db, lock, draft, pc, loaded, goal, way, plan,
                    todo, crossed>>
    BY <1>5 DEF vars, baseVars, migrateVars
  <2>2. TypeOK' /\ ListsAreFiles'
    BY <2>1 DEF MigrationsInv, TypeOK, ListsAreFiles, Sorted
  <2>3. PlansHold' /\ WaysAgree'
    BY <2>1 DEF MigrationsInv, PlansHold, WaysAgree, PlanUp, PlanDown, OneWay, Migrating, IsApplied
  <2>4. TransactionsHold'
    BY <2>1 DEF MigrationsInv, TransactionsHold, TransactionHolds, InTx, Executed, Migration,
       Drafted, OneWay, IsApplied
  <2>5. RecordsHaveFiles' /\ RecordsHold'
    BY <2>1 DEF MigrationsInv, RecordsHaveFiles, RecordsHold, Made, AppliedFiles, IsApplied,
       Disjoint, Migrating, OneWay, VersionsDistinct
  <2>. QED
    BY <2>1, <2>2, <2>3, <2>4, <2>5 DEF MigrationsInv
<1>. QED
  BY <1>1, <1>2, <1>3, <1>4, <1>5 DEF Next, Make

\* At every point of makemigrations and of every migrate: the types, what each process has
\* seen, planned and executed, and what the recorded versions say of the schema.
THEOREM MigrationsInvHolds == Spec => []MigrationsInv
<1>1. Init => MigrationsInv
  BY MigrationsStart
<1>2. MigrationsInv /\ [Next]_vars => MigrationsInv'
  BY MigrationsStep
<1>. QED
  BY <1>1, <1>2, PTL DEF Spec

\* The schema is what the recorded migrations make it, whatever fails or crashes and however
\* many processes apply at once (execMigrationStatements, migrations.go 1279-1301); where DDL commits
\* by itself it is never less than that until something is rolled back.
THEOREM SchemaIsRecorded == Spec => []SchemaMatchesRecords
<1>1. MigrationsInv => SchemaMatchesRecords
  <2>. SUFFICES ASSUME MigrationsInv PROVE SchemaMatchesRecords
    OBVIOUS
  <2>1. Made = UNION {f.creates : f \in {g \in files : IsApplied(g)}}
    BY DEF Made, AppliedFiles
  <2>. QED
    BY <2>1 DEF MigrationsInv, RecordsHold, SchemaMatchesRecords, OneWay
<1>. QED
  BY <1>1, MigrationsInvHolds, PTL

\* The order of the files is the order of the list.
LEMMA ListOrder ==
  ASSUME MigrationsInv, NEW p \in Migrators, NEW i \in DOMAIN loaded[p],
         NEW j \in DOMAIN loaded[p], Before(loaded[p][i], loaded[p][j])
  PROVE  i < j
<1>1. loaded[p] \in Seq(File) /\ Sorted(loaded[p])
  BY DEF MigrationsInv, TypeOK, ListsAreFiles
<1>2. i \in Nat /\ j \in Nat /\ loaded[p][i] \in File /\ loaded[p][j] \in File
  BY <1>1
<1>3. ASSUME NEW f \in File, NEW g \in File, Before(f, g)
      PROVE  f # g /\ ~ Before(g, f)
  <2>1. Stamps \subseteq Int /\ Slugs \subseteq Int
    BY MigrationsAssumption DEF Stamps
  <2>2. f.stamp \in Int /\ g.stamp \in Int /\ f.slug \in Int /\ g.slug \in Int
    BY <2>1 DEF File
  <2>. QED
    BY <1>3, <2>2 DEF Before
<1>4. i # j /\ ~ (j < i)
  BY <1>1, <1>2, <1>3 DEF Sorted
<1>. QED
  BY <1>2, <1>4

\* A migration is recorded as applied only when every earlier file its process has seen is,
\* and as rolled back only when no later one is (currentMigrationIndex and the loops of
\* runMigrate, also when other processes have done part of the plan).
THEOREM OrderIsRespected == Spec => OrderRespected
<1>. DEFINE Prop == \A p \in Migrators :
                      (pc[p] = "tx" /\ pc'[p] = "commit" /\ "both" \notin crossed) =>
                        \A f \in Range(loaded[p]) :
                          /\ way[p] = "up" /\ Before(f, Migration(p)) => IsApplied(f)
                          /\ way[p] = "down" /\ Before(Migration(p), f) => ~IsApplied(f)
<1>1. MigrationsInv /\ [Next]_vars => Prop
  <2>. SUFFICES ASSUME MigrationsInv, NEW p \in Migrators, pc[p] = "tx", OneWay,
                       NEW i \in DOMAIN loaded[p]
                PROVE  /\ way[p] = "up" /\ Before(loaded[p][i], Migration(p)) =>
                            IsApplied(loaded[p][i])
                       /\ way[p] = "down" /\ Before(Migration(p), loaded[p][i]) =>
                            ~ IsApplied(loaded[p][i])
    BY DEF OneWay, Range
  <2>1. /\ p \in Migrating /\ Len(plan[p]) \in Nat \ {0} /\ Migration(p) = plan[p][1]
        /\ loaded[p] \in Seq(File) /\ goal[p] \in Nat /\ i \in 1..Len(loaded[p])
        /\ Len(loaded[p]) \in Nat
    <3>1. p \in Migrating
      BY DEF Migrating
    <3>2. loaded[p] \in Seq(File) /\ goal[p] \in Nat
      BY MigrationsAssumption DEF MigrationsInv, TypeOK
    <3>. QED
      BY <3>1, <3>2, PlannedFiles
  <2>2. ASSUME way[p] = "up", Before(loaded[p][i], Migration(p))
        PROVE  IsApplied(loaded[p][i])
    <3>1. PlanUp(p)
      BY <2>1, <2>2 DEF MigrationsInv, PlansHold
    <3>2. PICK j : j = goal[p] - Len(plan[p]) + 1
      OBVIOUS
    <3>3. j \in 1..Len(loaded[p]) /\ Migration(p) = loaded[p][j]
      BY <2>1, <3>1, <3>2 DEF PlanUp
    <3>4. i < j
      BY <2>1, <2>2, <3>3, ListOrder
    <3>5. i \in 1..(goal[p] - Len(plan[p]))
      BY <2>1, <3>2, <3>3, <3>4
    <3>. QED
      BY <3>1, <3>5 DEF PlanUp
  <2>3. ASSUME way[p] = "down", Before(Migration(p), loaded[p][i])
        PROVE  ~ IsApplied(loaded[p][i])
    <3>1. PlanDown(p)
      BY <2>1, <2>3 DEF MigrationsInv, PlansHold
    <3>2. PICK j : j = goal[p] + Len(plan[p])
      OBVIOUS
    <3>3. j \in 1..Len(loaded[p]) /\ Migration(p) = loaded[p][j]
      <4>1. 1 \in 1..Len(plan[p]) /\ goal[p] + Len(plan[p]) - 1 + 1 = j
        BY <2>1, <3>2
      <4>. QED
        BY <2>1, <3>1, <3>2, <4>1 DEF PlanDown
    <3>4. j < i
      BY <2>1, <2>3, <3>3, ListOrder
    <3>5. i \in (goal[p] + Len(plan[p]) + 1)..Len(loaded[p])
      BY <2>1, <3>2, <3>3, <3>4
    <3>. QED
      BY <3>1, <3>5 DEF PlanDown
  <2>. QED
    BY <2>2, <2>3
<1>. QED
  BY <1>1, MigrationsInvHolds, PTL DEF Spec, OrderRespected, Prop

\* No migration file is ever lost, one of the same second and name in particular
\* (uniqueMigrationFileName), and none is applied or rolled back out of turn.
THEOREM FilesStayInOrder == Spec => FilesInOrder
<1>1. MigrationsInv /\ [Next]_vars => files \subseteq files'
  BY MigrationsStep
<1>2. [Next]_vars /\ files \subseteq files' => [files \subseteq files']_vars
  OBVIOUS
<1>3. Spec => FilesKept
  BY <1>1, <1>2, MigrationsInvHolds, PTL DEF Spec, FilesKept
<1>. QED
  BY <1>3, OrderIsRespected DEF FilesInOrder

\* When migrate reports success, all that its target asks for is applied and nothing beyond
\* it is: also when the others have done part of it (runMigrate, migrations.go 203-240).
THEOREM SuccessIsReached == Spec => SuccessMeansReached
<1>. DEFINE Reached(p) ==
              \A i \in DOMAIN loaded[p] :
                /\ way'[p] # "down" /\ i <= goal'[p] => loaded[p][i].stamp \in db'.applied
                /\ way'[p] # "up" /\ i > goal'[p] => loaded[p][i].stamp \notin db'.applied
            Prop == \A p \in Migrators :
                      (pc[p] # "ok" /\ pc'[p] = "ok" /\ "both" \notin crossed') => Reached(p)
<1>1. MigrationsInv /\ [Next]_vars => Prop
  <2>. SUFFICES ASSUME MigrationsInv, [Next]_vars, NEW p \in Migrators, pc[p] # "ok",
                       pc'[p] = "ok", OneWay'
                PROVE  Reached(p)
    BY DEF OneWay
  <2>1. loaded[p] \in Seq(File) /\ Len(loaded[p]) \in Nat
    BY DEF MigrationsInv, TypeOK
  <2>2. ASSUME NEW current \in 0..MaxFiles, NEW target \in 0..MaxFiles,
               MakePlan(p, current, target)
        PROVE  Reached(p)
    <3>1. PICK list : list = loaded[p]
      OBVIOUS
    <3>2. /\ IsCurrentIndex(list, current) /\ IsLinear(list) /\ target \in 0..Len(list)
          /\ goal' = [goal EXCEPT ![p] = target] /\ db' = db
          /\ pc' = [pc EXCEPT ![p] = IF (IF target > current THEN "up"
                                         ELSE IF target < current THEN "down" ELSE "none") = "none"
                                     THEN "ok" ELSE "ready"]
      BY <2>2, <3>1 DEF MakePlan, baseVars
    <3>3. goal'[p] = target /\ current = target
      BY <3>2 DEF MigrationsInv, TypeOK
    <3>4. \A i \in 1..Len(list) : i <= current => IsApplied(list[i])
      BY <3>2 DEF IsCurrentIndex
    <3>5. \A i \in 1..Len(list) : i > current => ~ IsApplied(list[i])
      <4>. SUFFICES ASSUME NEW i \in 1..Len(list), i > current PROVE ~ IsApplied(list[i])
        OBVIOUS
      <4>1. current + 1 \in 1..Len(list) /\ ~ IsApplied(list[current + 1])
        BY <2>1, <3>1, <3>2 DEF IsCurrentIndex
      <4>2. i = current + 1 \/ current + 1 < i
        OBVIOUS
      <4>. QED
        BY <2>1, <3>1, <3>2, <4>1, <4>2 DEF IsLinear
    <3>. QED
      BY <2>1, <3>1, <3>2, <3>3, <3>4, <3>5 DEF IsApplied
  <2>3. CASE Commit(p)
    <3>1. /\ pc[p] = "commit" /\ pc' = [pc EXCEPT ![p] = IF Len(plan[p]) = 1 THEN "ok" ELSE "ready"]
          /\ UNCHANGED <<goal, way, loaded, crossed, dialect>> /\ db' = View(p)
      BY <2>3 DEF Commit
    <3>2. /\ p \in Migrating /\ InTx(p) /\ TransactionHolds(p) /\ OneWay
          /\ Len(plan[p]) = 1
      BY <3>1 DEF Migrating, InTx, MigrationsInv, TransactionsHold, TypeOK, OneWay
    <3>3. PICK f : f = Migration(p)
      OBVIOUS
    <3>4. /\ f \in File /\ f = plan[p][1] /\ way[p] \in {"up", "down"}
          /\ goal[p] \in Nat
      BY <3>2, <3>3, PlannedFiles, MigrationsAssumption DEF MigrationsInv, TypeOK
    <3>5. /\ way[p] = "up" => db.applied \subseteq db'.applied /\ f.stamp \in db'.applied
          /\ way[p] = "down" => db'.applied \subseteq db.applied /\ f.stamp \notin db'.applied
      <4>1. dialect = "transactional" => db' = draft /\ Drafted(p)
        BY <3>1, <3>2 DEF TransactionHolds, View
      <4>2. dialect # "transactional" => db' = db /\ (IsApplied(f) <=> way[p] = "up")
        BY <3>1, <3>2, <3>3, MigrationsAssumption DEF TransactionHolds, View, MigrationsInv, TypeOK
      <4>. QED
        BY <3>1, <3>3, <3>4, <4>1, <4>2 DEF Drafted, IsApplied
    <3>6. CASE way[p] = "up"
      <4>1. PlanUp(p)
        BY <3>2, <3>6 DEF MigrationsInv, PlansHold
      <4>2. goal[p] \in 1..Len(loaded[p]) /\ f = loaded[p][goal[p]]
        <5>1. goal[p] >= 1 /\ goal[p] - 1 + 1 = goal[p] /\ 1 \in 1..1
          BY <3>2, <3>4, <4>1 DEF PlanUp
        <5>. QED
          BY <2>1, <3>2, <3>4, <4>1, <5>1 DEF PlanUp
      <4>3. \A i \in 1..(goal[p] - 1) : IsApplied(loaded[p][i])
        BY <3>2, <4>1 DEF PlanUp
      <4>4. \A i \in 1..Len(loaded[p]) : i <= goal[p] => i = goal[p] \/ i \in 1..(goal[p] - 1)
        BY <3>4
      <4>. QED
        BY <2>1, <3>1, <3>5, <3>6, <4>2, <4>3, <4>4 DEF IsApplied
    <3>7. CASE way[p] = "down"
      <4>1. PlanDown(p)
        BY <3>2, <3>7 DEF MigrationsInv, PlansHold
      <4>2. goal[p] + 1 \in 1..Len(loaded[p]) /\ f = loaded[p][goal[p] + 1]
        <5>1. goal[p] + 1 - 1 + 1 = goal[p] + 1 /\ 1 \in 1..1
          BY <3>4
        <5>. QED
          BY <2>1, <3>2, <3>4, <4>1, <5>1 DEF PlanDown
      <4>3. \A i \in (goal[p] + 1 + 1)..Len(loaded[p]) : ~ IsApplied(loaded[p][i])
        BY <3>2, <4>1 DEF PlanDown
      <4>4. \A i \in 1..Len(loaded[p]) :
              i > goal[p] => i = goal[p] + 1 \/ i \in (goal[p] + 1 + 1)..Len(loaded[p])
        BY <2>1, <3>4
      <4>. QED
        BY <2>1, <3>1, <3>5, <3>7, <4>2, <4>3, <4>4 DEF IsApplied
    <3>. QED
      BY <3>4, <3>6, <3>7
  <2>4. (\E current, target \in 0..MaxFiles : MakePlan(p, current, target)) \/ Commit(p)
    <3>1. ASSUME NEW q \in Migrators, LoadFiles(q) \/ BeginMigration(q) \/ Record(q) \/ Exit(q)
          PROVE  FALSE
      BY <3>1 DEF LoadFiles, BeginMigration, Record, Exit, MigrationsInv, TypeOK
    <3>2. ASSUME NEW q \in Migrators, NEW o \in Objects, ExecStatement(q, o)
          PROVE  FALSE
      BY <3>2 DEF ExecStatement
    <3>3. ASSUME NEW q \in Migrators, q # p,
                 (\E current, target \in 0..MaxFiles : MakePlan(q, current, target)) \/ Commit(q)
          PROVE  FALSE
      BY <3>3 DEF MakePlan, Commit, MigrationsInv, TypeOK
    <3>4. ~ (Tick \/ Make \/ Others \/ UNCHANGED vars)
      BY DEF Tick, Make, MakeCollect, MakeFails, MakeWrite, Others, Merge, vars, migrateVars
    <3>. QED
      BY <3>1, <3>2, <3>3, <3>4 DEF Next, Migrate
  <2>. QED
    BY <2>2, <2>3, <2>4
<1>. QED
  BY <1>1, MigrationsInvHolds, PTL DEF Spec, SuccessMeansReached, Prop, Reached
===============================================================================
