----------------------------- MODULE AdminProofs -----------------------------
(***************************************************************************)
(* The properties of AdminWrite for any number of rows, owners, users and  *)
(* requests, whatever they send and whatever the scopes of the users; and  *)
(* ReadsKeepTheRules of AdminSite for any resources, permissions, rows and *)
(* requests: what the fields of a resource become when it is registered,   *)
(* and what a reader is shown.                                             *)
(***************************************************************************)
EXTENDS AdminWrite, AdminSite, FiniteSetTheorems, LeastElements

\* Where a request is says what it has in its hands.
HandsAreFull ==
  \A r \in Requests :
    /\ pc[r] = "taken" => kind[r] \in Deletes
    /\ pc[r] = "written" => kind[r] \notin Deletes
    /\ pc[r] \in {"taken", "probed", "written"} => item[r] \in Ids
    /\ kind[r] = "update" /\ pc[r] \in {"found", "probed"} => item[r] \in Ids /\ model[r] \in Row

\* A row that r has inserted: there was none.
Inserted(r, id) ==
  /\ id = item[r] /\ pc[r] \in {"written", "commit"}
  /\ db[id] = Absent /\ draft[id].status = "live"

\* A row that r has updated: one it may see, and the columns it did not send are
\* those of the row as committed.
Updated(r, id) ==
  /\ id = item[r] /\ pc[r] \in {"written", "commit"}
  /\ db[id] \in Row /\ Visible(r, db[id]) /\ draft[id].status = "live"
  /\ "relation" \notin DOMAIN payload[r] =>
       \A c \in Columns \ DOMAIN payload[r] : draft[id][c] = db[id][c]

\* A row that r has deleted: one it may see.
Removed(r, id) ==
  /\ pc[r] \in {"found", "taken", "probed", "commit"}
  /\ db[id] \in Row /\ Visible(r, db[id]) /\ draft[id].status = "deleted"

\* What a transaction has locked it has written, and before it commits what it
\* wrote live has been reloaded with its permissions.
LocksAreEarned ==
  \A r \in Requests, id \in Ids :
    lock[id] = r =>
      /\ kind[r] = "create" => Inserted(r, id)
      /\ kind[r] = "update" => Updated(r, id)
      /\ kind[r] \in Deletes => Removed(r, id)
      /\ pc[r] = "commit" /\ draft[id].status = "live" => Visible(r, draft[id])

\* The rows a transaction holds.
Held(r) == {id \in Ids : lock[id] = r}

DeletionsAreLocks ==
  \A r \in Requests : deleted[r] = IF kind[r] \in Deletes THEN Cardinality(Held(r)) ELSE 0

WriteInv == TypeOK /\ HandsAreFull /\ LocksAreEarned /\ DeletionsAreLocks

-----------------------------------------------------------------------------

\* A row that is there has a status, an owner and a name.
LEMMA RowsAreThere ==
  /\ Absent \notin Row /\ Absent.status = "absent"
  /\ \A row \in Row : /\ DOMAIN row = {"status", "owner", "name"}
                      /\ row.status \in {"live", "deleted"}
                      /\ row.owner \in Owners /\ row.name \in Names
  BY DEF Row, Absent

\* As many rows are held as there are at most.
LEMMA HeldAreFew ==
  ASSUME NEW r
  PROVE  /\ IsFiniteSet(Held(r)) /\ Cardinality(Held(r)) \in 0..Cardinality(Ids)
         /\ Held(r) = {} => Cardinality(Held(r)) = 0
<1>1. Held(r) \in SUBSET Ids
  BY DEF Held
<1>. QED
  BY <1>1, AdminAssumption, FS_Subset, FS_CardinalityType, FS_EmptySet

LEMMA WritesStart == Init => WriteInv
<1>. SUFFICES ASSUME Init PROVE WriteInv
  OBVIOUS
<1>1. \A r \in Requests : Held(r) = {}
  BY AdminAssumption DEF Init, Held
<1>2. TypeOK
  <2>1. Absent \in Row \cup {Absent} /\ NoTable \in Table
    BY DEF NoTable, Table
  <2>2. db \in Table
    BY DEF Init, Table
  <2>3. 0 \in 0..Cardinality(Ids)
    BY AdminAssumption, FS_CardinalityType
  <2>. QED
    BY <2>1, <2>2, <2>3 DEF Init, TypeOK
<1>3. HandsAreFull /\ LocksAreEarned
  BY AdminAssumption DEF Init, HandsAreFull, LocksAreEarned
<1>4. DeletionsAreLocks
  BY <1>1, HeldAreFew DEF Init, DeletionsAreLocks
<1>. QED
  BY <1>2, <1>3, <1>4 DEF WriteInv

-----------------------------------------------------------------------------
(* Steps that write no row.                                                *)

\* A request ends: its locks go, and only rows it held may have changed.
LEMMA EndsKeeps ==
  ASSUME WriteInv, NEW r \in Requests,
         NEW response \in {"ok", "notFound", "forbidden", "error"}, Ends(r, response),
         db' \in Table, \A id \in Ids : lock[id] # r => db'[id] = db[id]
  PROVE  WriteInv'
<1>1. /\ pc' \in [Requests -> {"idle", "found", "taken", "probed", "written", "commit", "done"}]
      /\ pc'[r] = "done" /\ \A q \in Requests \ {r} : pc'[q] = pc[q]
      /\ item' \in [Requests -> Ids \cup {NoId}] /\ \A q \in Requests \ {r} : item'[q] = item[q]
      /\ model' \in [Requests -> Row \cup {Absent}]
      /\ \A q \in Requests \ {r} : model'[q] = model[q]
      /\ kind' = kind /\ user' = user /\ payload' = payload
  BY DEF WriteInv, TypeOK, Ends, requestVars
<1>2. /\ draft' \in Table /\ lock' \in [Ids -> Requests \cup {NoRequest}]
      /\ \A id \in Ids : /\ lock[id] = r => lock'[id] = NoRequest
                         /\ lock[id] # r => lock'[id] = lock[id] /\ draft'[id] = draft[id]
  BY DEF WriteInv, TypeOK, Ends, Unlock, Table
<1>3. NoRequest \notin Requests
  BY AdminAssumption
<1>5. deleted'[r] = 0 /\ \A q \in Requests \ {r} : deleted'[q] = deleted[q]
  BY DEF WriteInv, TypeOK, Ends
<1>6. TypeOK'
  <2>1. NoTable \in Table /\ 0 \in 0..Cardinality(Ids)
    BY AdminAssumption, FS_CardinalityType DEF NoTable, Table
  <2>2. /\ snap' \in [Requests -> Table] /\ todo' \in [Requests -> SUBSET Ids]
        /\ pinned' \in [Requests -> SUBSET Ids] /\ deleted' \in [Requests -> 0..Cardinality(Ids)]
        /\ answer' \in [Requests -> {"none", "ok", "notFound", "forbidden", "error"}]
        /\ isolation' \in Isolations
    BY <2>1 DEF WriteInv, TypeOK, Ends
  <2>3. \A id \in Ids : lock'[id] # NoRequest => pc'[lock'[id]] \notin {"idle", "done"}
    BY <1>1, <1>2 DEF WriteInv, TypeOK
  <2>. QED
    BY <1>1, <1>2, <2>2, <2>3 DEF WriteInv, TypeOK
<1>7. HandsAreFull'
  BY <1>1 DEF WriteInv, HandsAreFull
<1>8. LocksAreEarned'
  <2>. SUFFICES ASSUME NEW q \in Requests, NEW id \in Ids, lock'[id] = q
                PROVE  /\ kind[q] = "create" => Inserted(q, id)'
                       /\ kind[q] = "update" => Updated(q, id)'
                       /\ kind[q] \in Deletes => Removed(q, id)'
                       /\ pc'[q] = "commit" /\ draft'[id].status = "live" => Visible(q, draft[id])'
    BY <1>1 DEF LocksAreEarned
  <2>1. q # r /\ lock[id] = q
    BY <1>2, <1>3
  <2>2. draft'[id] = draft[id] /\ db'[id] = db[id] /\ pc'[q] = pc[q] /\ item'[q] = item[q]
    BY <1>1, <1>2, <2>1
  <2>. QED
    BY <1>1, <2>1, <2>2 DEF WriteInv, LocksAreEarned, Inserted, Updated, Removed, Visible
<1>9. DeletionsAreLocks'
  <2>. SUFFICES ASSUME NEW q \in Requests
                PROVE  deleted'[q] = IF kind[q] \in Deletes THEN Cardinality(Held(q)') ELSE 0
    BY <1>1 DEF DeletionsAreLocks
  <2>1. CASE q = r
    <3>1. Held(q)' = {}
      BY <1>2, <1>3, <2>1 DEF Held
    <3>. QED
      BY <1>5, <2>1, <3>1, FS_EmptySet
  <2>2. CASE q # r
    <3>1. Held(q)' = Held(q)
      BY <1>2, <1>3, <2>2 DEF Held
    <3>. QED
      BY <1>5, <2>2, <3>1 DEF WriteInv, DeletionsAreLocks
  <2>. QED
    BY <2>1, <2>2
<1>. QED
  BY <1>6, <1>7, <1>8, <1>9 DEF WriteInv

\* WithTransaction rolls back.
LEMMA AbortKeeps ==
  ASSUME WriteInv, NEW r \in Requests,
         NEW response \in {"notFound", "forbidden", "error"}, Abort(r, response)
  PROVE  WriteInv'
  BY EndsKeeps DEF Abort, WriteInv, TypeOK

\* COMMIT.
LEMMA CommitKeeps ==
  ASSUME WriteInv, NEW r \in Requests, Commit(r)
  PROVE  WriteInv'
<1>1. db' \in Table /\ \A id \in Ids : lock[id] # r => db'[id] = db[id]
  BY DEF WriteInv, TypeOK, Table, Commit, Current
<1>. QED
  BY <1>1, EndsKeeps DEF Commit

\* What a request must have in its hands to be there, and what it must have done
\* with the rows it has locked.
MayGo(r, location, id, row) ==
  /\ location = "taken" => kind[r] \in Deletes
  /\ location = "written" => kind[r] \notin Deletes
  /\ location \in {"taken", "probed", "written"} => id \in Ids
  /\ kind[r] = "update" /\ location \in {"found", "probed"} => id \in Ids /\ row \in Row
  /\ \A i \in Held(r) :
       /\ kind[r] \in Deletes => location \in {"found", "taken", "probed", "commit"}
       /\ kind[r] \notin Deletes => location \in {"written", "commit"} /\ id = item[r]
       /\ location = "commit" /\ draft[i].status = "live" => Visible(r, draft[i])

Going == {"found", "taken", "probed", "written", "commit"}

\* A request goes on without a write.
LEMMA MovesKeep ==
  ASSUME WriteInv, NEW r \in Requests, NEW location \in Going, Goto(r, location),
         UNCHANGED <<tableVars, requestVars, deleted, answer>>,
         snap' \in [Requests -> Table], todo' \in [Requests -> SUBSET Ids],
         pinned' \in [Requests -> SUBSET Ids],
         item' \in [Requests -> Ids \cup {NoId}], model' \in [Requests -> Row \cup {Absent}],
         \A q \in Requests \ {r} : item'[q] = item[q] /\ model'[q] = model[q],
         MayGo(r, location, item'[r], model'[r])
  PROVE  WriteInv'
<1>1. /\ pc' \in [Requests -> Going \cup {"idle", "done"}]
      /\ pc'[r] = location /\ \A q \in Requests \ {r} : pc'[q] = pc[q]
  BY DEF WriteInv, TypeOK, Goto, Going
<1>2. /\ db' = db /\ draft' = draft /\ lock' = lock
      /\ kind' = kind /\ user' = user /\ payload' = payload /\ deleted' = deleted
  BY DEF tableVars, requestVars
<1>3. TypeOK'
  <2>1. \A id \in Ids : lock'[id] # NoRequest => pc'[lock'[id]] \notin {"idle", "done"}
    BY <1>1, <1>2 DEF WriteInv, TypeOK, Going
  <2>. QED
    BY <1>1, <1>2, <2>1 DEF WriteInv, TypeOK, Going, tableVars
<1>4. HandsAreFull'
  BY <1>1, <1>2 DEF WriteInv, HandsAreFull, MayGo
<1>5. LocksAreEarned'
  <2>. SUFFICES ASSUME NEW q \in Requests, NEW id \in Ids, lock[id] = q
                PROVE  /\ kind[q] = "create" => Inserted(q, id)'
                       /\ kind[q] = "update" => Updated(q, id)'
                       /\ kind[q] \in Deletes => Removed(q, id)'
                       /\ pc'[q] = "commit" /\ draft[id].status = "live" => Visible(q, draft[id])'
    BY <1>2 DEF LocksAreEarned
  <2>1. CASE q # r
    BY <1>1, <1>2, <2>1 DEF WriteInv, LocksAreEarned, Inserted, Updated, Removed, Visible
  <2>2. CASE q = r
    <3>1. id \in Held(r)
      BY <2>2 DEF Held
    <3>2. /\ kind[r] \in Deletes => location \in {"found", "taken", "probed", "commit"}
          /\ kind[r] \notin Deletes => location \in {"written", "commit"} /\ item'[r] = item[r]
          /\ location = "commit" /\ draft[id].status = "live" => Visible(r, draft[id])
      BY <3>1 DEF MayGo
    <3>3. /\ kind[r] = "create" => Inserted(r, id) /\ kind[r] \notin Deletes
          /\ kind[r] = "update" => Updated(r, id) /\ kind[r] \notin Deletes
          /\ kind[r] \in Deletes => Removed(r, id)
      BY <2>2 DEF WriteInv, LocksAreEarned, Deletes
    <3>. QED
      BY <1>1, <1>2, <2>2, <3>2, <3>3 DEF Inserted, Updated, Removed, Visible
  <2>. QED
    BY <2>1, <2>2
<1>6. DeletionsAreLocks'
  BY <1>2 DEF WriteInv, DeletionsAreLocks, Held
<1>. QED
  BY <1>3, <1>4, <1>5, <1>6 DEF WriteInv

\* A step before the first write holds no row.
LEMMA NothingHeldYet ==
  ASSUME WriteInv, NEW r \in Requests,
         pc[r] = "idle" \/ (kind[r] \notin Deletes /\ pc[r] \in {"found", "probed"})
  PROVE  Held(r) = {}
<1>. SUFFICES ASSUME NEW id \in Ids, lock[id] = r PROVE FALSE
  BY DEF Held
<1>1. pc[r] # "idle"
  BY AdminAssumption DEF WriteInv, TypeOK
<1>2. kind[r] \in {"create", "update"}
  BY <1>1 DEF WriteInv, TypeOK, Kinds
<1>. QED
  BY <1>1, <1>2 DEF WriteInv, LocksAreEarned, Inserted, Updated

LEMMA FindKeeps ==
  ASSUME WriteInv, NEW r \in Requests, NEW id \in Ids, Find(r, id)
  PROVE  WriteInv'
<1>1. CASE ~ Visible(r, db[id])
  BY <1>1, AbortKeeps DEF Find
<1>2. CASE Visible(r, db[id])
  <2>1. Held(r) = {}
    BY NothingHeldYet DEF Find
  <2>2. db[id] \in Row /\ pinned[r] \cup {id} \in SUBSET Ids /\ Asked(r, id) \in SUBSET Ids
    BY <1>2, RowsAreThere DEF WriteInv, TypeOK, Table, Visible, Asked
  <2>3. /\ item' \in [Requests -> Ids \cup {NoId}] /\ item'[r] = id
        /\ model' \in [Requests -> Row \cup {Absent}] /\ model'[r] \in Row
        /\ \A q \in Requests \ {r} : item'[q] = item[q] /\ model'[q] = model[q]
        /\ snap' \in [Requests -> Table] /\ todo' \in [Requests -> SUBSET Ids]
        /\ pinned' \in [Requests -> SUBSET Ids]
    BY <1>2, <2>2 DEF WriteInv, TypeOK, Find
  <2>4. MayGo(r, "found", item'[r], model'[r])
    BY <2>1, <2>3 DEF MayGo
  <2>. QED
    BY <1>2, <2>3, <2>4, MovesKeep DEF Find, Going
<1>. QED
  BY <1>1, <1>2

LEMMA FindAllKeeps ==
  ASSUME WriteInv, NEW r \in Requests, NEW ids \in SUBSET Ids, FindAll(r, ids)
  PROVE  WriteInv'
<1>1. Held(r) = {}
  BY NothingHeldYet DEF FindAll
<1>2. /\ snap' \in [Requests -> Table] /\ todo' \in [Requests -> SUBSET Ids]
      /\ pinned' \in [Requests -> SUBSET Ids]
      /\ item' = item /\ model' = model
  BY DEF WriteInv, TypeOK, FindAll
<1>3. MayGo(r, "found", item'[r], model'[r])
  BY <1>1 DEF MayGo, FindAll
<1>. QED
  BY <1>2, <1>3, MovesKeep DEF FindAll, Going, WriteInv, TypeOK

\* Update: nothing to save, the probe, and the reload.
LEMMA NothingToSaveKeeps ==
  ASSUME WriteInv, NEW r \in Requests, NothingToSave(r)
  PROVE  WriteInv'
<1>1. Held(r) = {}
  BY NothingHeldYet DEF NothingToSave, Deletes
<1>2. MayGo(r, "commit", item'[r], model'[r])
  BY <1>1 DEF MayGo, NothingToSave
<1>. QED
  BY <1>2, MovesKeep DEF NothingToSave, localVars, Going, WriteInv, TypeOK

LEMMA ProbeKeeps ==
  ASSUME WriteInv, NEW r \in Requests, Probe(r)
  PROVE  WriteInv'
<1>1. CASE ~ Finds(r, item[r])
  BY <1>1, AbortKeeps DEF Probe
<1>2. CASE Finds(r, item[r])
  <2>1. Held(r) = {}
    BY NothingHeldYet DEF Probe, Deletes
  <2>2. item[r] \in Ids /\ model[r] \in Row
    BY DEF WriteInv, HandsAreFull, Probe
  <2>3. MayGo(r, "probed", item'[r], model'[r])
    BY <1>2, <2>1, <2>2 DEF MayGo, Probe, localVars
  <2>. QED
    BY <1>2, <2>3, MovesKeep DEF Probe, localVars, Going, WriteInv, TypeOK
<1>. QED
  BY <1>1, <1>2

LEMMA ReloadKeeps ==
  ASSUME WriteInv, NEW r \in Requests, Reload(r)
  PROVE  WriteInv'
<1>1. CASE ~ Finds(r, item[r])
  BY <1>1, AbortKeeps DEF Reload
<1>2. CASE Finds(r, item[r])
  <2>1. kind[r] \in {"create", "update"}
    BY DEF WriteInv, TypeOK, HandsAreFull, Reload, Kinds
  <2>2. ASSUME NEW id \in Held(r)
        PROVE  id = item[r] /\ Visible(r, draft[id])
    <3>1. id = item[r] /\ lock[id] = r
      BY <2>1, <2>2 DEF WriteInv, LocksAreEarned, Inserted, Updated, Held
    <3>. QED
      BY <1>2, <3>1 DEF Finds, View, Current
  <2>3. MayGo(r, "commit", item'[r], model'[r])
    BY <1>2, <2>1, <2>2 DEF MayGo, Reload, localVars, Deletes
  <2>. QED
    BY <1>2, <2>3, MovesKeep DEF Reload, localVars, Going, WriteInv, TypeOK
<1>. QED
  BY <1>1, <1>2

\* Delete: the next row, its probe, and the end of the loop.
LEMMA TakeKeeps ==
  ASSUME WriteInv, NEW r \in Requests, NEW id \in Ids, Take(r, id)
  PROVE  WriteInv'
<1>1. /\ item' \in [Requests -> Ids \cup {NoId}] /\ item'[r] = id
      /\ \A q \in Requests \ {r} : item'[q] = item[q]
      /\ todo' \in [Requests -> SUBSET Ids]
  BY DEF WriteInv, TypeOK, Take
<1>2. MayGo(r, "taken", item'[r], model'[r])
  BY <1>1 DEF MayGo, Take, Deletes
<1>. QED
  BY <1>1, <1>2, MovesKeep DEF Take, Going, WriteInv, TypeOK

LEMMA NotDeletedKeeps ==
  ASSUME WriteInv, NEW r \in Requests, kind[r] \in Deletes, item[r] \in Ids, NotDeleted(r)
  PROVE  WriteInv'
<1>1. CASE kind[r] = "delete"
  BY <1>1, AbortKeeps DEF NotDeleted
<1>2. CASE kind[r] # "delete"
  <2>1. pinned[r] \cup {item[r]} \in SUBSET Ids /\ Asked(r, item[r]) \in SUBSET Ids
    BY DEF WriteInv, TypeOK, Asked
  <2>2. pinned' \in [Requests -> SUBSET Ids]
    BY <1>2, <2>1 DEF WriteInv, TypeOK, NotDeleted
  <2>3. MayGo(r, "found", item'[r], model'[r])
    BY DEF MayGo, Deletes
  <2>. QED
    BY <1>2, <2>2, <2>3, MovesKeep DEF NotDeleted, Going, WriteInv, TypeOK
<1>. QED
  BY <1>1, <1>2

LEMMA ProbeDeleteKeeps ==
  ASSUME WriteInv, NEW r \in Requests, ProbeDelete(r)
  PROVE  WriteInv'
<1>1. kind[r] \in Deletes /\ item[r] \in Ids
  BY DEF WriteInv, HandsAreFull, ProbeDelete
<1>2. CASE ~ Finds(r, item[r])
  BY <1>1, <1>2, NotDeletedKeeps DEF ProbeDelete
<1>3. CASE Finds(r, item[r])
  <2>1. pinned[r] \cup {item[r]} \in SUBSET Ids /\ Asked(r, item[r]) \in SUBSET Ids
    BY <1>1 DEF WriteInv, TypeOK, Asked
  <2>2. pinned' \in [Requests -> SUBSET Ids]
    BY <1>3, <2>1 DEF WriteInv, TypeOK, ProbeDelete
  <2>3. MayGo(r, "probed", item'[r], model'[r])
    BY <1>1, <1>3 DEF MayGo, Deletes, ProbeDelete
  <2>. QED
    BY <1>3, <2>2, <2>3, MovesKeep DEF ProbeDelete, Going, WriteInv, TypeOK
<1>. QED
  BY <1>2, <1>3

LEMMA AllDeletedKeeps ==
  ASSUME WriteInv, NEW r \in Requests, AllDeleted(r)
  PROVE  WriteInv'
<1>1. \A id \in Held(r) : draft[id].status = "deleted"
  BY DEF WriteInv, LocksAreEarned, Removed, AllDeleted, Held
<1>2. MayGo(r, "commit", item'[r], model'[r])
  BY <1>1 DEF MayGo, AllDeleted, Deletes
<1>. QED
  BY <1>2, MovesKeep DEF AllDeleted, localVars, Going, WriteInv, TypeOK

-----------------------------------------------------------------------------
(* Steps that write a row.                                                 *)

\* What r may write to a row that nobody has locked.
MayWrite(r, id, row) ==
  /\ row \in Row
  /\ kind[r] = "create" => db[id] = Absent /\ row.status = "live"
  /\ kind[r] = "update" =>
       /\ db[id] \in Row /\ Visible(r, db[id]) /\ row.status = "live"
       /\ "relation" \notin DOMAIN payload[r] =>
            \A c \in Columns \ DOMAIN payload[r] : row[c] = db[id][c]
  /\ kind[r] \in Deletes => db[id] \in Row /\ Visible(r, db[id]) /\ row.status = "deleted"

\* The first write of a create or an update, the next of a delete.
LEMMA WritesKeep ==
  ASSUME WriteInv, NEW r \in Requests, NEW id \in Ids, NEW row, NEW location \in Going,
         WriteRow(r, id, row), lock[id] = NoRequest, MayWrite(r, id, row), Goto(r, location),
         UNCHANGED <<requestVars, todo, pinned, model, answer>>, snap' \in [Requests -> Table],
         item' \in [Requests -> Ids \cup {NoId}], item'[r] = id,
         \A q \in Requests \ {r} : item'[q] = item[q],
         \/ kind[r] \notin Deletes /\ location = "written" /\ Held(r) = {} /\ deleted' = deleted
         \/ kind[r] \in Deletes /\ location = "found" /\ deleted' = [deleted EXCEPT ![r] = @ + 1]
  PROVE  WriteInv'
<1>1. /\ pc' \in [Requests -> Going \cup {"idle", "done"}]
      /\ pc'[r] = location /\ \A q \in Requests \ {r} : pc'[q] = pc[q]
  BY DEF WriteInv, TypeOK, Goto, Going
<1>2. /\ draft' \in Table /\ lock' \in [Ids -> Requests \cup {NoRequest}]
      /\ lock'[id] = r /\ draft'[id] = row
      /\ \A i \in Ids \ {id} : lock'[i] = lock[i] /\ draft'[i] = draft[i]
      /\ db' = db /\ isolation' = isolation
  BY DEF WriteInv, TypeOK, WriteRow, MayWrite, Table
<1>3. kind' = kind /\ user' = user /\ payload' = payload
  BY DEF requestVars
<1>4. DeletionsAreLocks' /\ deleted' \in [Requests -> 0..Cardinality(Ids)]
  <2>1. ASSUME NEW q \in Requests
        PROVE  /\ deleted'[q] = IF kind[q] \in Deletes THEN Cardinality(Held(q)') ELSE 0
               /\ deleted'[q] \in 0..Cardinality(Ids)
    <3>1. CASE q # r
      <4>1. Held(q)' = Held(q)
        BY <1>2, <3>1, AdminAssumption DEF Held
      <4>2. deleted'[q] = deleted[q]
        BY <3>1 DEF WriteInv, TypeOK
      <4>. QED
        BY <4>1, <4>2 DEF WriteInv, TypeOK, DeletionsAreLocks
    <3>2. CASE q = r /\ kind[r] \notin Deletes
      BY <3>2 DEF WriteInv, TypeOK, DeletionsAreLocks
    <3>3. CASE q = r /\ kind[r] \in Deletes
      <4>1. Held(r)' = Held(r) \cup {id} /\ id \notin Held(r)
        BY <1>2, AdminAssumption DEF Held
      <4>2. PICK held : held = Held(r)
        OBVIOUS
      <4>3. IsFiniteSet(held) /\ Cardinality(held) \in Nat
        BY <4>2, HeldAreFew, FS_CardinalityType
      <4>4. Cardinality(held \cup {id}) = Cardinality(held) + 1
        BY <4>1, <4>2, <4>3, FS_AddElement
      <4>5. held \cup {id} \in SUBSET Ids
        BY <4>2 DEF Held
      <4>6. Cardinality(held \cup {id}) <= Cardinality(Ids) /\ Cardinality(Ids) \in Nat
        BY <4>5, AdminAssumption, FS_Subset, FS_CardinalityType
      <4>7. deleted'[r] = Cardinality(held) + 1
        BY <3>3, <4>2 DEF WriteInv, TypeOK, DeletionsAreLocks
      <4>. QED
        BY <3>3, <4>1, <4>2, <4>3, <4>4, <4>6, <4>7
    <3>. QED
      BY <3>1, <3>2, <3>3
  <2>2. deleted' = [q \in Requests |-> deleted'[q]]
    BY DEF WriteInv, TypeOK
  <2>. QED
    BY <1>3, <2>1, <2>2 DEF DeletionsAreLocks
<1>5. TypeOK'
  <2>1. \A i \in Ids : lock'[i] # NoRequest => pc'[lock'[i]] \notin {"idle", "done"}
    BY <1>1, <1>2 DEF WriteInv, TypeOK, Going
  <2>. QED
    BY <1>1, <1>2, <1>3, <1>4, <2>1 DEF WriteInv, TypeOK, Going
<1>6. HandsAreFull'
  BY <1>1, <1>3 DEF WriteInv, HandsAreFull, Deletes
<1>7. LocksAreEarned'
  <2>. SUFFICES ASSUME NEW q \in Requests, NEW i \in Ids, lock'[i] = q
                PROVE  /\ kind[q] = "create" => Inserted(q, i)'
                       /\ kind[q] = "update" => Updated(q, i)'
                       /\ kind[q] \in Deletes => Removed(q, i)'
                       /\ pc'[q] = "commit" /\ draft'[i].status = "live" => Visible(q, draft[i])'
    BY <1>3 DEF LocksAreEarned
  <2>1. CASE q # r
    BY <1>1, <1>2, <1>3, <2>1
    DEF WriteInv, LocksAreEarned, Inserted, Updated, Removed, Visible
  <2>2. CASE q = r /\ i = id
    BY <1>1, <1>2, <1>3, <2>2
    DEF MayWrite, Inserted, Updated, Removed, Visible, Deletes
  <2>3. CASE q = r /\ i # id
    <3>1. kind[r] \in Deletes /\ location = "found" /\ Removed(r, i)
      BY <1>2, <2>3 DEF Held, WriteInv, LocksAreEarned
    <3>. QED
      BY <1>1, <1>2, <1>3, <2>3, <3>1 DEF Removed, Visible, Deletes
  <2>. QED
    BY <2>1, <2>2, <2>3
<1>. QED
  BY <1>4, <1>5, <1>6, <1>7 DEF WriteInv

LEMMA InsertKeeps ==
  ASSUME WriteInv, NEW r \in Requests, NEW id \in Ids, Insert(r, id)
  PROVE  WriteInv'
<1>. DEFINE row == [status |-> "live", owner |-> payload[r]["owner"], name |-> payload[r]["name"]]
<1>1. payload[r] \in Payloads
  BY DEF Insert, WriteInv, TypeOK, NoPayload, Columns
<1>2. row \in Row
  BY <1>1, AdminAssumption DEF Insert, Row, Columns
<1>3. /\ Held(r) = {} /\ kind[r] = "create" /\ kind[r] \notin Deletes
      /\ lock[id] = NoRequest
  <2>1. Held(r) = {}
    BY NothingHeldYet DEF Insert
  <2>. QED
    BY <2>1 DEF Insert, WriteRow, Held, Deletes
<1>4. MayWrite(r, id, row)
  BY <1>2, <1>3 DEF Insert, MayWrite
<1>5. /\ item' \in [Requests -> Ids \cup {NoId}] /\ item'[r] = id
      /\ \A q \in Requests \ {r} : item'[q] = item[q]
      /\ snap' \in [Requests -> Table]
  BY DEF Insert, WriteInv, TypeOK
<1>6. WriteRow(r, id, row)
  BY DEF Insert
<1>. HIDE DEF row
<1>. QED
  BY <1>3, <1>4, <1>5, <1>6, WritesKeep DEF Insert, Going

LEMMA UpdateKeeps ==
  ASSUME WriteInv, NEW r \in Requests, Update(r)
  PROVE  WriteInv'
<1>1. /\ Held(r) = {} /\ kind[r] = "update" /\ kind[r] \notin Deletes
      /\ item[r] \in Ids /\ model[r] \in Row
  BY NothingHeldYet DEF Update, WriteInv, HandsAreFull, Deletes
<1>2. PICK now : now = Current(r, item[r])
  OBVIOUS
<1>3. now = db[item[r]]
  BY <1>1, <1>2 DEF Current, Held
<1>4. CASE ~ Visible(r, now)
  <2>1. MayGo(r, "written", item'[r], model'[r])
    BY <1>1 DEF MayGo, Update, localVars
  <2>2. UNCHANGED tableVars
    BY <1>2, <1>4 DEF Update
  <2>. QED
    BY <2>1, <2>2, MovesKeep DEF Update, localVars, Going, WriteInv, TypeOK
<1>5. CASE Visible(r, now)
  <2>. DEFINE row == [c \in DOMAIN now |-> IF c \in ColumnsFor(r) THEN Desired(r)[c] ELSE now[c]]
  <2>1. now \in Row /\ now.status = "live"
    BY <1>1, <1>3, <1>5, RowsAreThere DEF WriteInv, TypeOK, Table, Visible
  <2>2. /\ ColumnsFor(r) \subseteq Columns
        /\ "relation" \notin DOMAIN payload[r] => ColumnsFor(r) \subseteq DOMAIN payload[r]
    BY DEF ColumnsFor
  <2>3. \A c \in Columns : Desired(r)[c] \in IF c = "owner" THEN Owners ELSE Names
    <3>1. payload[r] \in Payloads \/ DOMAIN payload[r] = {}
      BY DEF WriteInv, TypeOK, NoPayload
    <3>2. \A c \in Columns : c \in DOMAIN model[r]
      BY <1>1, RowsAreThere DEF Columns
    <3>3. model[r].owner \in Owners /\ model[r].name \in Names
      BY <1>1, RowsAreThere
    <3>. QED
      BY <3>1, <3>2, <3>3, AdminAssumption DEF Desired, Columns
  <2>4. row \in Row /\ row.status = "live"
    BY <2>1, <2>2, <2>3, RowsAreThere DEF Columns, Row
  <2>5. MayWrite(r, item[r], row)
    BY <1>1, <1>3, <1>5, <2>1, <2>2, <2>4, RowsAreThere DEF MayWrite, Columns
  <2>6. WriteRow(r, item[r], row) /\ lock[item[r]] = NoRequest
    BY <1>1, <1>2, <1>5 DEF Update, WriteRow, Held
  <2>. HIDE DEF row
  <2>7. snap' \in [Requests -> Table] /\ item' = item /\ deleted' = deleted
    BY DEF Update, localVars, WriteInv, TypeOK
  <2>. QED
    BY <1>1, <2>5, <2>6, <2>7, WritesKeep DEF Update, localVars, Going, WriteInv, TypeOK
<1>. QED
  BY <1>4, <1>5

LEMMA RemoveRowKeeps ==
  ASSUME WriteInv, NEW r \in Requests, RemoveRow(r)
  PROVE  WriteInv'
<1>1. kind[r] \in Deletes /\ item[r] \in Ids
  BY DEF WriteInv, HandsAreFull, RemoveRow
<1>2. PICK now : now = Current(r, item[r])
  OBVIOUS
<1>3. CASE ~ Visible(r, now)
  BY <1>1, <1>2, <1>3, NotDeletedKeeps DEF RemoveRow
<1>4. CASE Visible(r, now)
  <2>. DEFINE row == [now EXCEPT !.status = "deleted"]
  <2>1. WriteRow(r, item[r], row)
    BY <1>2, <1>4 DEF RemoveRow
  <2>2. lock[item[r]] # r
    BY <1>1, <1>2, <1>4 DEF WriteInv, LocksAreEarned, Removed, Current, Visible
  <2>3. lock[item[r]] = NoRequest /\ now = db[item[r]]
    BY <1>2, <2>1, <2>2 DEF WriteRow, Current
  <2>4. now \in Row
    BY <1>1, <1>4, <2>3, RowsAreThere DEF WriteInv, TypeOK, Table, Visible
  <2>5. row \in Row /\ row.status = "deleted"
    BY <2>4 DEF Row
  <2>6. MayWrite(r, item[r], row)
    BY <1>1, <1>4, <2>3, <2>4, <2>5 DEF MayWrite, Deletes
  <2>. HIDE DEF row
  <2>7. /\ snap' \in [Requests -> Table] /\ item' = item
        /\ deleted' = [deleted EXCEPT ![r] = @ + 1] /\ Goto(r, "found")
        /\ UNCHANGED <<requestVars, todo, pinned, model, answer>>
    BY <1>2, <1>4 DEF RemoveRow, WriteInv, TypeOK
  <2>. QED
    BY <1>1, <2>1, <2>3, <2>6, <2>7, WritesKeep DEF Going, WriteInv, TypeOK
<1>. QED
  BY <1>3, <1>4

-----------------------------------------------------------------------------

LEMMA WriteStep == WriteInv /\ [Next]_vars => WriteInv'
<1>. SUFFICES ASSUME WriteInv, [Next]_vars PROVE WriteInv'
  OBVIOUS
<1>1. ASSUME NEW r \in Requests, NEW id \in Ids, Insert(r, id) \/ Find(r, id) \/ Take(r, id)
      PROVE  WriteInv'
  BY <1>1, InsertKeeps, FindKeeps, TakeKeeps
<1>2. ASSUME NEW r \in Requests, NEW ids \in SUBSET Ids, FindAll(r, ids)
      PROVE  WriteInv'
  BY <1>2, FindAllKeeps
<1>3. ASSUME NEW r \in Requests, NothingToSave(r) \/ Probe(r) \/ Update(r) \/ Reload(r)
      PROVE  WriteInv'
  BY <1>3, NothingToSaveKeeps, ProbeKeeps, UpdateKeeps, ReloadKeeps
<1>4. ASSUME NEW r \in Requests, ProbeDelete(r) \/ RemoveRow(r) \/ AllDeleted(r)
      PROVE  WriteInv'
  BY <1>4, ProbeDeleteKeeps, RemoveRowKeeps, AllDeletedKeeps
<1>5. ASSUME NEW r \in Requests, Commit(r) \/ Fails(r)
      PROVE  WriteInv'
  BY <1>5, CommitKeeps, AbortKeeps DEF Fails
<1>6. CASE UNCHANGED vars
  <2>1. /\ isolation' = isolation /\ db' = db /\ lock' = lock /\ draft' = draft /\ pc' = pc
        /\ user' = user /\ kind' = kind /\ payload' = payload /\ snap' = snap /\ todo' = todo
        /\ pinned' = pinned /\ item' = item /\ model' = model /\ deleted' = deleted
        /\ answer' = answer
    BY <1>6 DEF vars, tableVars, requestVars, localVars
  <2>2. TypeOK' /\ HandsAreFull'
    BY <2>1 DEF WriteInv, TypeOK, HandsAreFull
  <2>3. LocksAreEarned'
    BY <2>1 DEF WriteInv, LocksAreEarned, Inserted, Updated, Removed, Visible
  <2>4. DeletionsAreLocks'
    BY <2>1 DEF WriteInv, DeletionsAreLocks, Held
  <2>. QED
    BY <2>2, <2>3, <2>4 DEF WriteInv
<1>. QED
  BY <1>1, <1>2, <1>3, <1>4, <1>5, <1>6 DEF Next

\* The invariant holds of every execution.
THEOREM WriteInvHolds == Spec => []WriteInv
  BY WritesStart, WriteStep, PTL DEF Spec

-----------------------------------------------------------------------------
(* The step in which a request commits.                                    *)

\* Only COMMIT is answered "ok".
LEMMA OnlyCommitIsOk ==
  ASSUME TypeOK, [Next]_vars, NEW r \in Requests, Commits(r)
  PROVE  Commit(r)
<1>1. \A q \in Requests : \A response : Ends(q, response) =>
         \A p \in Requests : answer'[p] = IF p = q THEN response ELSE answer[p]
  BY DEF TypeOK, Ends
<1>2. ASSUME NEW q \in Requests, NEW response \in {"notFound", "forbidden", "error"},
             Abort(q, response)
      PROVE  FALSE
  BY <1>1, <1>2 DEF Abort, Commits
<1>3. answer' # answer
  BY DEF Commits
<1>4. ASSUME NEW q \in Requests, NEW id \in Ids, Insert(q, id) \/ Find(q, id) \/ Take(q, id)
      PROVE  FALSE
  BY <1>2, <1>3, <1>4 DEF Insert, Find, Take
<1>5. ASSUME NEW q \in Requests, NEW ids \in SUBSET Ids, FindAll(q, ids)
      PROVE  FALSE
  BY <1>3, <1>5 DEF FindAll
<1>6. ASSUME NEW q \in Requests, NothingToSave(q) \/ Probe(q) \/ Update(q) \/ Reload(q)
      PROVE  FALSE
  BY <1>2, <1>3, <1>6 DEF NothingToSave, Probe, Update, Reload
<1>7. ASSUME NEW q \in Requests, ProbeDelete(q) \/ RemoveRow(q) \/ AllDeleted(q)
      PROVE  FALSE
  BY <1>2, <1>3, <1>7 DEF ProbeDelete, RemoveRow, NotDeleted, AllDeleted
<1>8. ASSUME NEW q \in Requests, Commit(q)
      PROVE  q = r
  BY <1>1, <1>8 DEF Commit, Commits
<1>9. \A q \in Requests : ~ Fails(q)
  BY <1>2 DEF Fails
<1>10. Next
  BY <1>3 DEF vars
<1>. QED
  BY <1>4, <1>5, <1>6, <1>7, <1>8, <1>9, <1>10 DEF Next

\* What changes is what it had locked, and becomes what it had written.
LEMMA CommitIsItsDraft ==
  ASSUME WriteInv, NEW r \in Requests, Commit(r), NEW id \in Ids
  PROVE  /\ lock[id] = r => db'[id] = draft[id]
         /\ db'[id] # db[id] => lock[id] = r
  BY DEF Commit, Current

\* Row permissions hold for every row that a request changes, before the change
\* and after it.
THEOREM WritesStayInScope == Spec => ChangesStayInScope
<1>. DEFINE Stay == \A r \in Requests, id \in Ids :
                      Commits(r) /\ db'[id] # db[id] =>
                        /\ db[id] # Absent => Visible(r, db[id])
                        /\ db'[id].status = "live" => Visible(r, db'[id])
<1>1. WriteInv /\ [Next]_vars => Stay
  <2>. SUFFICES ASSUME WriteInv, [Next]_vars, NEW r \in Requests, NEW id \in Ids,
                       Commits(r), db'[id] # db[id]
                PROVE  /\ db[id] # Absent => Visible(r, db[id])
                       /\ db'[id].status = "live" => Visible(r, db'[id])
    OBVIOUS
  <2>1. Commit(r)
    BY OnlyCommitIsOk DEF WriteInv
  <2>2. lock[id] = r /\ db'[id] = draft[id] /\ pc[r] = "commit"
    BY <2>1, CommitIsItsDraft DEF Commit
  <2>3. kind[r] \in {"create", "update"} \cup Deletes
    BY DEF WriteInv, TypeOK, Kinds
  <2>. QED
    BY <2>2, <2>3 DEF WriteInv, LocksAreEarned, Inserted, Updated, Removed
<1>. QED
  BY <1>1, WriteInvHolds, PTL DEF Spec, ChangesStayInScope

\* A deletion is counted by the request that deleted the row, once.
THEOREM EveryDeletionIsCounted == Spec => DeletionsCountedOnce
<1>. DEFINE Counted == \A r \in Requests :
                         Commits(r) /\ kind[r] \in Deletes =>
                           deleted[r] = Cardinality({id \in Ids : db'[id] # db[id]})
<1>1. WriteInv /\ [Next]_vars => Counted
  <2>. SUFFICES ASSUME WriteInv, [Next]_vars, NEW r \in Requests, Commits(r), kind[r] \in Deletes
                PROVE  deleted[r] = Cardinality({id \in Ids : db'[id] # db[id]})
    OBVIOUS
  <2>1. Commit(r)
    BY OnlyCommitIsOk DEF WriteInv
  <2>2. \A id \in Ids : lock[id] = r <=> db'[id] # db[id]
    BY <2>1, CommitIsItsDraft DEF WriteInv, LocksAreEarned, Removed, Visible
  <2>3. Held(r) = {id \in Ids : db'[id] # db[id]}
    BY <2>2 DEF Held
  <2>. QED
    BY <2>3 DEF WriteInv, DeletionsAreLocks
<1>. QED
  BY <1>1, WriteInvHolds, PTL DEF Spec, DeletionsCountedOnce

\* A partial update keeps the columns it did not send as others have committed them.
THEOREM UpdatesKeepTheRest == Spec => PartialUpdateKeepsTheRest
<1>. DEFINE Kept == \A r \in Requests, id \in Ids :
                      Commits(r) /\ kind[r] = "update" /\ "relation" \notin DOMAIN payload[r] =>
                        \A c \in Columns \ DOMAIN payload[r] :
                          db'[id] # db[id] => db'[id][c] = db[id][c]
<1>1. WriteInv /\ [Next]_vars => Kept
  <2>. SUFFICES ASSUME WriteInv, [Next]_vars, NEW r \in Requests, NEW id \in Ids, Commits(r),
                       kind[r] = "update", "relation" \notin DOMAIN payload[r],
                       NEW c \in Columns \ DOMAIN payload[r], db'[id] # db[id]
                PROVE  db'[id][c] = db[id][c]
    OBVIOUS
  <2>1. Commit(r)
    BY OnlyCommitIsOk DEF WriteInv
  <2>. QED
    BY <2>1, CommitIsItsDraft DEF WriteInv, LocksAreEarned, Updated
<1>. QED
  BY <1>1, WriteInvHolds, PTL DEF Spec, PartialUpdateKeepsTheRest

-----------------------------------------------------------------------------
(* Reads: where relations lead.                                            *)

RelationKeys == {"resource", "value", "label", "search"}

\* An inferred relation is as its field gave it, or it leads to a registered resource
\* of the model, with a label that resource has.
Leads(registered, relation, field) ==
  /\ DOMAIN relation = RelationKeys
  /\ \/ relation = GivenRelation(field)
     \/ \E target \in ToSet(registered) :
          /\ target.model = field.relates
          /\ relation.resource \in {"", target.name} /\ relation.label \in FieldNames(target)

Settled(registered, relation, field) ==
  LET targets == OfModel(registered, field.relates)
  IN /\ relation.resource = IF targets # {} THEN The(targets).name ELSE ""
     /\ targets # {} => relation.label \in FieldNames(The(targets))

\* What prepare made of a resource, again since relations were completed or not.
WellPrepared(registered, again, r, made) ==
  /\ DOMAIN made = {"modes", "relations"} /\ DOMAIN made.relations = FieldNames(r)
  /\ \A name \in FieldNames(r) : AutoRelation(Named(r, name)) =>
       /\ Leads(registered, made.relations[name], Named(r, name))
       /\ ~again => Settled(registered, made.relations[name], Named(r, name))

RelationsLead == \A r \in ToSet(site) : WellPrepared(site, r \in repeated, r, prepared[r])

FieldsInv ==
  /\ site \in Seq(Resources) /\ DOMAIN prepared = Resources
  /\ \A r \in ToSet(site) : ~BadResource(r)
  /\ RelationsLead

\* A resource added to a list is in it, behind the others.
LEMMA AppendedIsThere ==
  ASSUME NEW S, NEW list \in Seq(S), NEW x \in S
  PROVE  Append(list, x) \in Seq(S) /\ ToSet(Append(list, x)) = ToSet(list) \cup {x}
<1>1. /\ Append(list, x) \in Seq(S) /\ Len(list) \in Nat
      /\ DOMAIN list = 1..Len(list) /\ DOMAIN Append(list, x) = 1..(Len(list) + 1)
      /\ Append(list, x)[Len(list) + 1] = x
      /\ \A i \in 1..Len(list) : Append(list, x)[i] = list[i]
  OBVIOUS
<1>2. ASSUME NEW y \in ToSet(list) PROVE y \in ToSet(Append(list, x))
  <2>1. PICK i \in DOMAIN list : y = list[i]
    BY <1>2 DEF ToSet
  <2>2. i \in DOMAIN Append(list, x) /\ y = Append(list, x)[i]
    BY <1>1, <2>1
  <2>. QED
    BY <2>2 DEF ToSet
<1>3. x \in ToSet(Append(list, x))
  <2>1. Len(list) + 1 \in DOMAIN Append(list, x)
    BY <1>1
  <2>. QED
    BY <1>1, <2>1 DEF ToSet
<1>4. ASSUME NEW y \in ToSet(Append(list, x)) PROVE y \in ToSet(list) \cup {x}
  <2>1. PICK i \in DOMAIN Append(list, x) : y = Append(list, x)[i]
    BY <1>4 DEF ToSet
  <2>2. CASE i = Len(list) + 1
    BY <1>1, <2>1, <2>2
  <2>3. CASE i # Len(list) + 1
    <3>1. i \in DOMAIN list /\ y = list[i]
      BY <1>1, <2>1, <2>3
    <3>. QED
      BY <3>1 DEF ToSet
  <2>. QED
    BY <2>2, <2>3
<1>. QED
  BY <1>1, <1>2, <1>3, <1>4

\* The field a resource has of a name is one of its fields, and has it.
LEMMA NamedIsThere ==
  ASSUME NEW r, NEW name \in FieldNames(r)
  PROVE  Named(r, name) \in FieldsOf(r) /\ Named(r, name).name = name
<1>1. PICK field \in FieldsOf(r) : field.name = name
  BY DEF FieldNames
<1>. QED
  BY <1>1 DEF Named

\* At some places of a list of fields there is a first, and its field is among those
\* of the resource.
LEMMA FirstFieldIsThere ==
  ASSUME NEW r \in Resources, NEW places, places \subseteq DOMAIN r.fields, places # {}
  PROVE  FirstField(r, places).name \in FieldNames(r)
<1>1. r.fields \in Seq(ToSet(r.fields))
  BY ResourcesAssumption
<1>2. DOMAIN r.fields = 1..Len(r.fields) /\ Len(r.fields) \in Nat
  BY <1>1
<1>3. places \subseteq Nat
  BY <1>2
<1>4. Min(places) \in places
  BY <1>3, MinIsThere
<1>5. r.fields[Min(places)] \in FieldsOf(r)
  BY <1>4 DEF FieldsOf, ToSet
<1>. QED
  BY <1>5 DEF FirstField, FieldNames

\* The label inferred for a relation is a field of the resource it leads to.
LEMMA LabelIsThere ==
  ASSUME NEW target \in Resources, ~BadResource(target)
  PROVE  LabelField(target) \in FieldNames(target)
<1>. DEFINE texts == {i \in DOMAIN target.fields : target.fields[i].kind = "string"}
            usual == {k \in DOMAIN UsualLabels : \E i \in texts : target.fields[i].name = UsualLabels[k]}
<1>1. CASE usual # {}
  <2>1. usual \subseteq Nat
    BY DEF UsualLabels
  <2>2. Min(usual) \in usual
    BY <1>1, <2>1, MinIsThere
  <2>3. PICK i \in texts : target.fields[i].name = UsualLabels[Min(usual)]
    BY <2>2
  <2>4. target.fields[i] \in FieldsOf(target)
    BY <2>3 DEF FieldsOf, ToSet
  <2>5. LabelField(target) = UsualLabels[Min(usual)]
    BY <1>1 DEF LabelField
  <2>. QED
    BY <2>3, <2>4, <2>5 DEF FieldNames
<1>2. CASE usual = {} /\ texts # {}
  <2>1. FirstField(target, texts).name \in FieldNames(target)
    BY <1>2, FirstFieldIsThere
  <2>. QED
    BY <1>2, <2>1 DEF LabelField
<1>3. CASE usual = {} /\ texts = {}
  <2>1. PICK field \in FieldsOf(target) : "primarykey" \in field.gorm \/ field.name = "id"
    BY DEF BadResource
  <2>2. PICK i \in DOMAIN target.fields : field = target.fields[i]
    BY DEF FieldsOf, ToSet
  <2>3. i \in KeyPlaces(target) /\ KeyPlaces(target) \subseteq DOMAIN target.fields
    BY <2>1, <2>2 DEF KeyPlaces
  <2>4. PrimaryKey(target).name \in FieldNames(target)
    BY <2>3, FirstFieldIsThere DEF PrimaryKey
  <2>. QED
    BY <1>3, <2>4 DEF LabelField
<1>. QED
  BY <1>1, <1>2, <1>3

\* An inferred relation starts out leading nowhere.
LEMMA GivenLeadsNowhere ==
  ASSUME NEW field, AutoRelation(field)
  PROVE  /\ GivenRelation(field) = [resource |-> "", value |-> "id", label |-> "", search |-> {}]
         /\ DOMAIN GivenRelation(field) = RelationKeys
         /\ GivenRelation(field).resource = "" /\ GivenRelation(field).label = ""
BY DEF AutoRelation, GivenRelation, RelationKeys

\* Completing the relations settles one that is as it was given or that led to a
\* resource of its model, in a site that has grown.
LEMMA ResolvingSettles ==
  ASSUME NEW old, NEW new, ToSet(old) \subseteq ToSet(new), ToSet(new) \subseteq Resources,
         \A r \in ToSet(new) : ~BadResource(r),
         NEW field, AutoRelation(field),
         NEW relation, Leads(old, relation, field)
  PROVE  /\ Leads(new, Resolved(new, field, relation), field)
         /\ Settled(new, Resolved(new, field, relation), field)
<1>. DEFINE made == Resolved(new, field, relation)
            targets == OfModel(new, field.relates)
            target == The(targets)
<1>1. relation # NoRelation
  <2>1. DOMAIN NoRelation = {"resource"}
    BY DEF NoRelation
  <2>2. DOMAIN relation # {"resource"}
    <3>1. "value" \in DOMAIN relation
      BY DEF Leads, RelationKeys
    <3>2. "value" \notin {"resource"}
      OBVIOUS
    <3>. QED
      BY <3>1, <3>2
  <2>. QED
    BY <2>1, <2>2
<1>2. CASE targets = {}
  <2>1. made = GivenRelation(field)
    BY <1>1, <1>2 DEF Resolved
  <2>. QED
    BY <1>2, <2>1, GivenLeadsNowhere DEF Leads, Settled
<1>3. CASE targets # {}
  <2>1. made = Completed(relation, target)
    BY <1>1, <1>3 DEF Resolved
  <2>2. target \in targets
    BY <1>3 DEF The
  <2>3. /\ target \in ToSet(new) /\ target.model = field.relates
        /\ \A s \in ToSet(new) : s.model = field.relates => s = target
    BY <2>2 DEF OfModel
  <2>4. relation.resource \in {"", target.name} /\ relation.label \in FieldNames(target) \cup {""}
    BY <2>3, GivenLeadsNowhere DEF Leads
  <2>. HIDE DEF target
  <2>5. /\ DOMAIN made = RelationKeys
        /\ made.resource = IF relation.resource = "" THEN target.name ELSE relation.resource
        /\ made.label = IF relation.label = "" THEN LabelField(target) ELSE relation.label
    BY <2>1 DEF Completed, RelationKeys, Leads
  <2>6. LabelField(target) \in FieldNames(target)
    BY <2>3, LabelIsThere
  <2>7. made.resource = target.name /\ made.label \in FieldNames(target)
    BY <2>4, <2>5, <2>6
  <2>. HIDE DEF made
  <2>8. Leads(new, made, field)
    BY <2>3, <2>5, <2>7 DEF Leads
  <2>9. Settled(new, made, field)
    BY <1>3, <2>7 DEF Settled, target
  <2>. QED
    BY <2>8, <2>9 DEF made
<1>. QED
  BY <1>2, <1>3

-----------------------------------------------------------------------------

\* Preparing a resource gives it its fields, with their relations as they are given.
Given(r) == [name \in FieldNames(r) |-> GivenRelation(Named(r, name))]

\* A resource that is prepared, and not completed, leads nowhere.
LEMMA FreshIsWellPrepared ==
  ASSUME NEW registered, NEW r, NEW modes
  PROVE  WellPrepared(registered, TRUE, r, [modes |-> modes, relations |-> Given(r)])
<1>1. ASSUME NEW name \in FieldNames(r), AutoRelation(Named(r, name))
      PROVE  Leads(registered, Given(r)[name], Named(r, name))
  <2>1. Given(r)[name] = GivenRelation(Named(r, name))
    BY DEF Given
  <2>. QED
    BY <1>1, <2>1, GivenLeadsNowhere DEF Leads
<1>2. DOMAIN Given(r) = FieldNames(r)
  BY DEF Given
<1>. DEFINE made == [modes |-> modes, relations |-> Given(r)]
<1>3. DOMAIN made = {"modes", "relations"} /\ made.relations = Given(r)
  OBVIOUS
<1>. HIDE DEF made
<1>4. WellPrepared(registered, TRUE, r, made)
  BY <1>1, <1>2, <1>3 DEF WellPrepared
<1>. QED
  BY <1>4 DEF made

\* A resource whose name is taken is prepared, and then refused.
LEMMA RefusedKeepsTheFields ==
  ASSUME FieldsInv, NEW resource \in Resources, NEW modes,
         prepared' = [prepared EXCEPT ![resource] = [modes |-> modes, relations |-> Given(resource)]],
         repeated' = repeated \cup (ToSet(site) \cap {resource}), site' = site
  PROVE  FieldsInv'
<1>1. /\ site \in Seq(Resources) /\ DOMAIN prepared = Resources
      /\ \A r \in ToSet(site) : ~BadResource(r)
  BY DEF FieldsInv
<1>2. ASSUME NEW r \in ToSet(site) PROVE WellPrepared(site', r \in repeated', r, prepared'[r])
  <2>1. CASE r = resource
    <3>1. prepared'[r] = [modes |-> modes, relations |-> Given(r)]
      BY <1>1, <2>1
    <3>2. (r \in repeated') = TRUE
      BY <2>1
    <3>3. WellPrepared(site', TRUE, r, prepared'[r])
      BY <3>1, FreshIsWellPrepared
    <3>. QED
      BY <3>2, <3>3, Zenon
  <2>2. CASE r # resource
    <3>1. prepared'[r] = prepared[r] /\ (r \in repeated') = (r \in repeated)
      BY <1>1, <2>2
    <3>2. WellPrepared(site', r \in repeated, r, prepared'[r])
      BY <3>1 DEF FieldsInv, RelationsLead
    <3>. QED
      BY <3>1, <3>2, Zenon
  <2>. QED
    BY <2>1, <2>2
<1>3. DOMAIN prepared' = Resources
  BY <1>1
<1>4. RelationsLead'
  BY <1>2 DEF RelationsLead
<1>. QED
  BY <1>1, <1>3, <1>4 DEF FieldsInv

\* A resource that is added has its relations completed, and all others with it.
LEMMA AddedKeepsTheFields ==
  ASSUME FieldsInv, NEW resource \in Resources, NEW modes, ~BadResource(resource),
         site' = Append(site, resource), repeated' = {},
         prepared' = ResolveAll(site',
           [prepared EXCEPT ![resource] = [modes |-> modes, relations |-> Given(resource)]])
  PROVE  FieldsInv'
<1>. DEFINE fresh == [prepared EXCEPT ![resource] = [modes |-> modes, relations |-> Given(resource)]]
<1>1. /\ site \in Seq(Resources) /\ DOMAIN prepared = Resources
      /\ \A r \in ToSet(site) : ~BadResource(r)
  BY DEF FieldsInv
<1>2. /\ site' \in Seq(Resources) /\ ToSet(site') = ToSet(site) \cup {resource}
      /\ \A r \in ToSet(site') : ~BadResource(r)
  BY <1>1, AppendedIsThere
<1>3. ToSet(site) \subseteq ToSet(site') /\ ToSet(site') \subseteq Resources
  <2>1. ToSet(site) \subseteq Resources
    BY <1>1 DEF ToSet
  <2>. QED
    BY <1>2, <2>1
<1>4. ASSUME NEW r \in ToSet(site')
      PROVE  /\ DOMAIN fresh[r] = {"modes", "relations"} /\ DOMAIN fresh[r].relations = FieldNames(r)
             /\ \A name \in FieldNames(r) : AutoRelation(Named(r, name)) =>
                  Leads(site, fresh[r].relations[name], Named(r, name))
  <2>1. CASE r = resource
    <3>1. fresh[r] = [modes |-> modes, relations |-> Given(r)]
      BY <1>1, <2>1
    <3>2. WellPrepared(site, TRUE, r, fresh[r])
      BY <3>1, FreshIsWellPrepared
    <3>. HIDE DEF fresh
    <3>. QED
      BY <3>2 DEF WellPrepared
  <2>2. CASE r # resource
    <3>1. fresh[r] = prepared[r] /\ r \in ToSet(site)
      BY <1>1, <1>2, <2>2
    <3>. HIDE DEF fresh
    <3>. QED
      BY <3>1 DEF FieldsInv, RelationsLead, WellPrepared
  <2>. QED
    BY <2>1, <2>2
<1>5. prepared' = ResolveAll(site', fresh)
  OBVIOUS
<1>. HIDE DEF fresh
<1>6. ASSUME NEW r \in ToSet(site')
      PROVE  /\ DOMAIN prepared'[r] = {"modes", "relations"}
             /\ prepared'[r].relations =
                  [name \in FieldNames(r) |-> Resolved(site', Named(r, name), fresh[r].relations[name])]
  <2>1. prepared'[r] = [fresh[r] EXCEPT !.relations =
             [name \in DOMAIN @ |-> Resolved(site', Named(r, name), @[name])]]
    BY <1>3, <1>5 DEF ResolveAll
  <2>. QED
    BY <1>4, <2>1
<1>7. ASSUME NEW r \in ToSet(site') PROVE WellPrepared(site', r \in repeated', r, prepared'[r])
  <2>1. ASSUME NEW name \in FieldNames(r), AutoRelation(Named(r, name))
        PROVE  /\ Leads(site', prepared'[r].relations[name], Named(r, name))
               /\ Settled(site', prepared'[r].relations[name], Named(r, name))
    <3>1. Leads(site, fresh[r].relations[name], Named(r, name))
      BY <1>4, <2>1
    <3>2. prepared'[r].relations[name] = Resolved(site', Named(r, name), fresh[r].relations[name])
      BY <1>6, ZenonT(40)
    <3>. QED
      BY <1>2, <1>3, <2>1, <3>1, <3>2, ResolvingSettles
  <2>2. DOMAIN prepared'[r] = {"modes", "relations"} /\ DOMAIN prepared'[r].relations = FieldNames(r)
    BY <1>6
  <2>. QED
    BY <2>1, <2>2 DEF WellPrepared
<1>8. RelationsLead'
  BY <1>7 DEF RelationsLead
<1>9. DOMAIN prepared' = Resources
  BY <1>5 DEF ResolveAll
<1>. QED
  BY <1>2, <1>8, <1>9 DEF FieldsInv

\* Whatever Register is given, and however often.
LEMMA RegisterKeepsTheFields ==
  ASSUME FieldsInv, AdminFieldsNext
  PROVE  FieldsInv'
<1>1. PICK resource \in Resources : Register(resource)
  BY DEF AdminFieldsNext
<1>2. CASE BadResource(resource)
  BY <1>1, <1>2 DEF Register, FieldsInv, RelationsLead
<1>3. CASE ~BadResource(resource)
  <2>1. PICK lastly \in SUBSET Disputes(resource) :
          LET fresh == [prepared EXCEPT ![resource] =
                [modes |-> [name \in FieldNames(resource) |->
                   LET field == Named(resource, name)
                   IN SetModes(resource, field, OptionModes(field,
                        TaggedModes(field, {m \in Modes : <<name, m>> \in lastly})))],
                 relations |-> Given(resource)]]
          IN IF OfName(site, resource.name) # {}
             THEN /\ prepared' = fresh
                  /\ repeated' = repeated \cup (ToSet(site) \cap {resource})
                  /\ UNCHANGED site
             ELSE /\ site' = Append(site, resource)
                  /\ prepared' = ResolveAll(site', fresh)
                  /\ repeated' = {}
    BY <1>1, <1>3 DEF Register, Given
  <2>. DEFINE modes == [name \in FieldNames(resource) |->
                   LET field == Named(resource, name)
                   IN SetModes(resource, field, OptionModes(field,
                        TaggedModes(field, {m \in Modes : <<name, m>> \in lastly})))]
  <2>2. \/ /\ prepared' = [prepared EXCEPT ![resource] = [modes |-> modes, relations |-> Given(resource)]]
           /\ repeated' = repeated \cup (ToSet(site) \cap {resource}) /\ site' = site
        \/ /\ site' = Append(site, resource) /\ repeated' = {}
           /\ prepared' = ResolveAll(site',
                [prepared EXCEPT ![resource] = [modes |-> modes, relations |-> Given(resource)]])
    BY <2>1, Zenon
  <2>. HIDE DEF modes
  <2>. QED
    BY <1>3, <2>2, RefusedKeepsTheFields, AddedKeepsTheFields
<1>. QED
  BY <1>2, <1>3

-----------------------------------------------------------------------------
(* What the site answers.                                                  *)

\* The metadata a client holds is that of its resource for its user.
KnownIsCurrent ==
  \A k \in DOMAIN known :
    /\ known[k] = MetadataFor(asker, The(OfName(site, k)))
    /\ Authorize(asker, "detail", The(OfName(site, k))) = "ok"

\* Nothing has been asked before there are routes.
SilentUntilMounted ==
  mounted = NotYet => asked = NoRequestYet /\ reply = Say("none") /\ DOMAIN known = {}

ReadsInv == FieldsInv /\ KnownIsCurrent /\ SilentUntilMounted /\ MetadataIsHonored /\ ShownIsAllowed

\* The rows that are found are rows of the user's.
LEMMA FoundIsScoped ==
  ASSUME NEW who, NEW r, NEW request
  PROVE  /\ \A row \in Found(who, r, request) : row.owner \in RowsShown[who]
         /\ \A row \in ScopedRows(who, r) : row.owner \in RowsShown[who]
BY DEF Found, ScopedRows

\* What a part of a reply shows.
LEMMA ShownHas ==
  ASSUME NEW who, NEW r, NEW found, NEW mode
  PROVE  LET part == Shown(who, r, found, mode)
         IN  /\ part.status = "ok" /\ part.resource = r /\ part.rows = found
             /\ part.fields = VisibleFields(who, r, mode) /\ part.beside = {}
BY DEF Shown

\* The view of a mode is what is left to the user of it.
LEMMA ViewsAreLeft ==
  ASSUME NEW who, NEW r, NEW mode
  PROVE  VisibleFields(who, r, mode) = Left(who, r, {mode})
BY DEF VisibleFields, Left

\* May the user see this part of a reply?
MayShow(part, mode) ==
  /\ \A row \in part.rows : row.owner \in RowsShown[asker]
  /\ Authorize(asker, mode, part.resource) = "ok"
  /\ part.fields \subseteq Left(asker, part.resource, {mode})

LEMMA ListMayBeShown ==
  ASSUME NEW r, NEW request, HandleList(asker, r, request).status = "ok"
  PROVE  MayShow(HandleList(asker, r, request), "list") /\ HandleList(asker, r, request).beside = {}
<1>. DEFINE made == HandleList(asker, r, request)
<1>1. Authorize(asker, "list", r) = "ok"
  BY DEF HandleList, Say
<1>2. ~BadListRequest(asker, r, request)
  BY <1>1 DEF HandleList, Say
<1>3. made = Shown(asker, r, Found(asker, r, request), "list")
  BY <1>1, <1>2 DEF HandleList
<1>. HIDE DEF made
<1>4. MayShow(made, "list") /\ made.beside = {}
  BY <1>1, <1>3, ShownHas, FoundIsScoped, ViewsAreLeft DEF MayShow
<1>. QED
  BY <1>4 DEF made

LEMMA ExportMayBeShown ==
  ASSUME NEW r, NEW request, HandleExport(asker, r, request).status = "ok"
  PROVE  MayShow(HandleExport(asker, r, request), "list") /\ HandleExport(asker, r, request).beside = {}
<1>. DEFINE made == HandleExport(asker, r, request)
            listed == VisibleFields(asker, r, "list")
            fields == IF request.fields = {} THEN listed ELSE request.fields
            part == Shown(asker, r, Found(asker, r, request), "list")
<1>1. Authorize(asker, "list", r) = "ok"
  BY DEF HandleExport, Say
<1>2. fields \subseteq listed /\ ~(fields = {}) /\ ~BadListRequest(asker, r, request)
  BY <1>1 DEF HandleExport, Say
<1>3. made = [part EXCEPT !.fields = fields]
  BY <1>1, <1>2 DEF HandleExport
<1>4. /\ made.fields = fields /\ made.rows = part.rows /\ made.resource = part.resource
      /\ made.beside = {}
  BY <1>3 DEF Shown
<1>. HIDE DEF made, fields, listed, part
<1>5. MayShow(made, "list") /\ made.beside = {}
  BY <1>1, <1>2, <1>4, ShownHas, FoundIsScoped, ViewsAreLeft DEF MayShow, part, listed
<1>. QED
  BY <1>5 DEF made

LEMMA DetailMayBeShown ==
  ASSUME NEW r, NEW request, HandleDetail(asker, r, request).status = "ok"
  PROVE  MayShow(HandleDetail(asker, r, request), "detail") /\ HandleDetail(asker, r, request).beside = {}
<1>. DEFINE made == HandleDetail(asker, r, request)
            found == {row \in ScopedRows(asker, r) : row.id = request.id}
<1>1. Authorize(asker, "detail", r) = "ok"
  BY DEF HandleDetail, Say
<1>2. found # {}
  BY <1>1 DEF HandleDetail, Say
<1>3. made = Shown(asker, r, found, "detail")
  BY <1>1, <1>2 DEF HandleDetail
<1>4. \A row \in found : row.owner \in RowsShown[asker]
  BY FoundIsScoped
<1>. HIDE DEF made, found
<1>5. MayShow(made, "detail") /\ made.beside = {}
  BY <1>1, <1>3, <1>4, ShownHas, ViewsAreLeft DEF MayShow
<1>. QED
  BY <1>5 DEF made

\* The options of a relation: rows of its target, and beside them what the relation names.
LEMMA OptionsMayBeShown ==
  ASSUME NEW r, NEW request, HandleOptions(asker, r, request).status = "ok"
  PROVE  /\ MayShow(HandleOptions(asker, r, request), "list")
         /\ HandleOptions(asker, r, request).beside
              = {RelationOf(r, request.field).value, RelationOf(r, request.field).label}
<1>. DEFINE made == HandleOptions(asker, r, request)
            relation == RelationOf(r, request.field)
            target == The(OfName(site, relation.resource))
            found == OptionRows(asker, target, relation, request)
            part == Shown(asker, target, found, "list")
<1>1. Authorize(asker, "detail", r) = "ok"
  BY DEF HandleOptions, Say
<1>2. relation # NoRelation /\ OfName(site, relation.resource) # {}
  BY <1>1 DEF HandleOptions, Say
<1>3. Authorize(asker, "list", target) = "ok"
  BY <1>1, <1>2 DEF HandleOptions, Say
<1>4. LeadsSomewhere(relation)
  BY <1>1, <1>2, <1>3 DEF HandleOptions, Say
<1>5. made = [part EXCEPT !.beside = {relation.value, relation.label}]
  BY <1>1, <1>2, <1>3, <1>4 DEF HandleOptions
<1>6. /\ made.rows = part.rows /\ made.resource = part.resource /\ made.fields = part.fields
      /\ made.beside = {relation.value, relation.label}
  BY <1>5 DEF Shown
<1>7. \A row \in found : row.owner \in RowsShown[asker]
  BY FoundIsScoped DEF OptionRows
<1>. HIDE DEF made, found, target, relation
<1>8. part.rows = found /\ part.resource = target /\ part.fields = VisibleFields(asker, target, "list")
  BY ShownHas
<1>. HIDE DEF part
<1>9. MayShow(made, "list")
  BY <1>3, <1>6, <1>7, <1>8, ViewsAreLeft DEF MayShow
<1>. QED
  BY <1>6, <1>9 DEF made, relation

\* What is left of one mode is left of several.
LEMMA LeftOfMore ==
  ASSUME NEW who, NEW r, NEW modes, NEW mode \in modes
  PROVE  VisibleFields(who, r, mode) \subseteq Left(who, r, modes)
BY DEF VisibleFields, Left

\* A label is the text of a field to search or to list, or the key.
LEMMA LabelsAreLeft ==
  ASSUME NEW who, NEW r \in Resources, NEW row
  PROVE  LabelOf(who, r, row) \in {PrimaryKey(r).name} \cup Left(who, r, {"search", "list"})
<1>. DEFINE Telling(mode) ==
              {i \in DOMAIN r.fields :
                 /\ r.fields[i].kind = "string" /\ r.fields[i].name \in VisibleFields(who, r, mode)
                 /\ \E text \in row.texts : text[1] = r.fields[i].name}
<1>1. ASSUME NEW mode \in {"search", "list"}, Telling(mode) # {}
      PROVE  FirstField(r, Telling(mode)).name \in Left(who, r, {"search", "list"})
  <2>1. Telling(mode) \subseteq Nat
    <3>1. r.fields \in Seq(ToSet(r.fields))
      BY ResourcesAssumption
    <3>. QED
      BY <3>1
  <2>2. Min(Telling(mode)) \in Telling(mode)
    BY <1>1, <2>1, MinIsThere
  <2>3. r.fields[Min(Telling(mode))].name \in VisibleFields(who, r, mode)
    BY <2>2
  <2>4. FirstField(r, Telling(mode)).name \in VisibleFields(who, r, mode)
    BY <2>3 DEF FirstField
  <2>. QED
    BY <2>4, LeftOfMore
<1>2. LabelOf(who, r, row) =
        IF Telling("search") # {} THEN FirstField(r, Telling("search")).name
        ELSE IF Telling("list") # {} THEN FirstField(r, Telling("list")).name
        ELSE PrimaryKey(r).name
  BY DEF LabelOf
<1>. HIDE DEF Telling
<1>. QED
  BY <1>1, <1>2

\* What the search over all resources may call the rows of a part.
MayCall(part) ==
  part.beside \subseteq {PrimaryKey(part.resource).name} \cup Left(asker, part.resource, {"search", "list"})

LEMMA HitsMayBeShown ==
  ASSUME NEW r \in Resources, NEW request, Authorize(asker, "list", r) = "ok"
  PROVE  MayShow(Hits(asker, r, request), "list") /\ MayCall(Hits(asker, r, request))
<1>. DEFINE made == Hits(asker, r, request)
            found == Found(asker, r, request)
            part == Shown(asker, r, found, "list")
            called == {PrimaryKey(r).name} \cup {LabelOf(asker, r, row) : row \in found}
<1>1. made = [part EXCEPT !.beside = called]
  BY DEF Hits
<1>2. /\ made.rows = part.rows /\ made.resource = part.resource /\ made.fields = part.fields
      /\ made.beside = called
  BY <1>1 DEF Shown
<1>3. called \subseteq {PrimaryKey(r).name} \cup Left(asker, r, {"search", "list"})
  BY LabelsAreLeft
<1>4. part.rows = found /\ part.resource = r /\ part.fields = VisibleFields(asker, r, "list")
  BY ShownHas
<1>5. \A row \in found : row.owner \in RowsShown[asker]
  BY FoundIsScoped
<1>. HIDE DEF made, found, part, called
<1>6. MayShow(made, "list")
  BY <1>2, <1>4, <1>5, ViewsAreLeft DEF MayShow
<1>7. MayCall(made)
  BY <1>2, <1>3, <1>4 DEF MayCall
<1>. QED
  BY <1>6, <1>7 DEF made

LEMMA SearchMayBeShown ==
  ASSUME ToSet(site) \subseteq Resources, NEW request, SearchResources(asker, request).status = "ok"
  PROVE  \A part \in SearchResources(asker, request).results : MayShow(part, "list") /\ MayCall(part)
<1>. DEFINE made == SearchResources(asker, request)
            searched == {r \in Listable(asker) : VisibleFields(asker, r, "search") # {}}
            all == [request EXCEPT !.filters = {}, !.sort = {}]
            parts == {Hits(asker, r, all) : r \in {s \in searched : Found(asker, s, all) # {}}}
<1>1. CASE Len(request.term) < 2
  <2>1. made = [status |-> "ok", results |-> {}]
    BY <1>1 DEF SearchResources
  <2>. QED
    BY <2>1
<1>2. CASE ~(Len(request.term) < 2)
  <2>1. Swept(asker) = "ok"
    BY <1>2 DEF SearchResources, Say
  <2>2. made = [status |-> "ok", results |-> parts]
    BY <1>2, <2>1 DEF SearchResources
  <2>3. ASSUME NEW part \in parts PROVE MayShow(part, "list") /\ MayCall(part)
    <3>1. PICK r \in Listable(asker) : part = Hits(asker, r, all)
      OBVIOUS
    <3>2. r \in Resources /\ Authorize(asker, "list", r) = "ok"
      BY DEF Listable
    <3>. HIDE DEF all, parts
    <3>. QED
      BY <3>1, <3>2, HitsMayBeShown
  <2>4. made.results = parts
    BY <2>2
  <2>. QED
    BY <2>3, <2>4
<1>. QED
  BY <1>1, <1>2

LEMMA CountsAreOfShown ==
  ASSUME ResourceStats(asker).status = "ok", NEW r \in ToSet(site), Authorize(asker, "list", r) = "ok"
  PROVE  <<r.name, Cardinality({row \in rowsOf[r.name] : row.owner \in RowsShown[asker]})>>
           \in ResourceStats(asker).counts
<1>1. Swept(asker) = "ok"
  BY DEF ResourceStats, Say
<1>2. ResourceStats(asker).counts =
        {<<s.name, Cardinality(ScopedRows(asker, s))>> : s \in Listable(asker)}
  BY <1>1 DEF ResourceStats
<1>3. r \in Listable(asker)
  BY DEF Listable
<1>. QED
  BY <1>2, <1>3 DEF ScopedRows

-----------------------------------------------------------------------------

\* A list, an export or the options of a record that the metadata offers is not refused.
LEMMA OfferedListIsAnswered ==
  ASSUME NEW r, NEW request, NEW meta, meta = MetadataFor(asker, r),
         "list" \in meta.actions,
         request.term = "" \/ meta.modes["search"] # {},
         request.sort \subseteq meta.modes["sort"],
         \A name \in request.filters : Named(r, name).kind \in ScalarKinds
  PROVE  /\ Authorize(asker, "list", r) = "ok" /\ ~BadListRequest(asker, r, request)
         /\ HandleList(asker, r, request).status = "ok"
<1>1. meta.actions = {action \in ActionsOf(r) : Authorize(asker, action, r) = "ok"}
      /\ meta.modes = [m \in Modes |-> VisibleFields(asker, r, m)]
  BY DEF MetadataFor
<1>2. Authorize(asker, "list", r) = "ok"
  BY <1>1
<1>3. /\ meta.modes["search"] = VisibleFields(asker, r, "search")
      /\ meta.modes["sort"] = VisibleFields(asker, r, "sort")
  BY <1>1 DEF Modes
<1>4. ~BadListRequest(asker, r, request)
  BY <1>3 DEF BadListRequest
<1>. QED
  <2>1. HandleList(asker, r, request) = Shown(asker, r, Found(asker, r, request), "list")
    BY <1>2, <1>4 DEF HandleList
  <2>2. Shown(asker, r, Found(asker, r, request), "list").status = "ok"
    BY DEF Shown
  <2>. QED
    BY <1>2, <1>4, <2>1, <2>2

LEMMA OfferedExportIsAnswered ==
  ASSUME NEW r, NEW request, NEW meta, meta = MetadataFor(asker, r),
         Authorize(asker, "list", r) = "ok", ~BadListRequest(asker, r, request),
         request.fields \subseteq meta.modes["list"], meta.modes["list"] # {}
  PROVE  HandleExport(asker, r, request).status = "ok"
<1>1. meta.modes["list"] = VisibleFields(asker, r, "list")
  BY DEF MetadataFor, Modes
<1>. DEFINE listed == VisibleFields(asker, r, "list")
            fields == IF request.fields = {} THEN listed ELSE request.fields
            part == Shown(asker, r, Found(asker, r, request), "list")
<1>2. fields \subseteq listed /\ fields # {}
  BY <1>1
<1>3. HandleExport(asker, r, request) = [part EXCEPT !.fields = fields]
  BY <1>2 DEF HandleExport
<1>. QED
  BY <1>3 DEF Shown

LEMMA OfferedOptionsAreAnswered ==
  ASSUME NEW r, NEW request, Authorize(asker, "detail", r) = "ok",
         LeadsSomewhere(RelationOf(r, request.field)),
         Authorize(asker, "list", The(OfName(site, RelationOf(r, request.field).resource))) = "ok"
  PROVE  HandleOptions(asker, r, request).status = "ok"
<1>1. /\ RelationOf(r, request.field) # NoRelation
      /\ OfName(site, RelationOf(r, request.field).resource) # {}
  BY DEF LeadsSomewhere
<1>. DEFINE relation == RelationOf(r, request.field)
            target == The(OfName(site, relation.resource))
            part == Shown(asker, target, OptionRows(asker, target, relation, request), "list")
<1>2. HandleOptions(asker, r, request) = [part EXCEPT !.beside = {relation.value, relation.label}]
  BY <1>1 DEF HandleOptions
<1>. QED
  BY <1>2 DEF Shown

-----------------------------------------------------------------------------

\* A request is answered from the site and the rows as they are.
LEMMA AnswersKeepTheRules ==
  ASSUME ReadsInv, NEW request, Answer(request)
  PROVE  ReadsInv'
<1>. DEFINE r == The(OfName(site, request.resource))
<1>1. /\ mounted # NotYet /\ mounted' = mounted /\ asker' = asker
      /\ site' = site /\ prepared' = prepared /\ repeated' = repeated
      /\ asked' = request /\ reply' = ReplyTo(asker, request)
  BY DEF Answer, adminFieldsVars
<1>2. FieldsInv' /\ SilentUntilMounted'
  BY <1>1 DEF ReadsInv, FieldsInv, RelationsLead, SilentUntilMounted
<1>3. /\ request.kind = "stats" => reply' = ResourceStats(asker)
      /\ request.kind = "searchAll" => reply' = SearchResources(asker, request)
      /\ request.kind = "metadata" => reply' = HandleMetadata(asker, r)
      /\ request.kind = "list" => reply' = HandleList(asker, r, request)
      /\ request.kind = "export" => reply' = HandleExport(asker, r, request)
      /\ request.kind = "detail" => reply' = HandleDetail(asker, r, request)
      /\ request.kind = "options" => reply' = HandleOptions(asker, r, request)
  BY <1>1 DEF ReplyTo
<1>4. \A who, modes, s : (Left(who, s, modes))' = Left(who, s, modes)
  BY <1>1 DEF Left
<1>5. KnownIsCurrent'
  <2>1. \A who, s : (MetadataFor(who, s))' = MetadataFor(who, s)
    BY <1>1 DEF MetadataFor, VisibleFields, ActionsOf
  <2>2. \A k : (The(OfName(site, k)))' = The(OfName(site, k))
    BY <1>1
  <2>3. CASE request.kind = "metadata" /\ reply'.status = "ok"
    <3>1. reply' = MetadataFor(asker, r) /\ Authorize(asker, "detail", r) = "ok"
      BY <1>3, <2>3 DEF HandleMetadata, Say
    <3>2. known' = [k \in DOMAIN known \cup {request.resource} |->
                      IF k = request.resource THEN reply' ELSE known[k]]
      BY <2>3 DEF Answer
    <3>. QED
      BY <1>1, <2>1, <2>2, <3>1, <3>2 DEF KnownIsCurrent, ReadsInv
  <2>4. CASE ~(request.kind = "metadata" /\ reply'.status = "ok")
    <3>1. known' = known
      BY <2>4 DEF Answer
    <3>. QED
      BY <1>1, <2>1, <2>2, <3>1 DEF KnownIsCurrent, ReadsInv
  <2>. QED
    BY <2>3, <2>4
<1>6. MetadataIsHonored'
  <2>1. ASSUME request.kind \in {"list", "export", "options"}, request.resource \in DOMAIN known'
        PROVE  /\ known'[request.resource] = MetadataFor(asker, r)
               /\ Authorize(asker, "detail", r) = "ok"
    <3>1. known' = known
      BY <2>1 DEF Answer
    <3>. QED
      BY <2>1, <3>1 DEF ReadsInv, KnownIsCurrent
  <2>. DEFINE meta == known'[request.resource]
  <2>2. ASSUME request.kind \in {"list", "export"}, request.resource \in DOMAIN known',
               "list" \in meta.actions, request.term = "" \/ meta.modes["search"] # {},
               request.sort \subseteq meta.modes["sort"],
               \A name \in request.filters : Named(r, name).kind \in ScalarKinds,
               request.fields \subseteq meta.modes["list"], meta.modes["list"] # {}
        PROVE  reply'.status = "ok"
    <3>1. meta = MetadataFor(asker, r)
      BY <2>1, <2>2
    <3>. HIDE DEF meta, r
    <3>2. /\ Authorize(asker, "list", r) = "ok" /\ ~BadListRequest(asker, r, request)
          /\ HandleList(asker, r, request).status = "ok"
      BY <2>2, <3>1, OfferedListIsAnswered
    <3>3. HandleExport(asker, r, request).status = "ok"
      BY <2>2, <3>1, <3>2, OfferedExportIsAnswered
    <3>. QED
      BY <1>3, <2>2, <3>2, <3>3
  <2>3. ASSUME request.kind = "options", request.resource \in DOMAIN known',
               LeadsSomewhere(RelationOf(r, request.field)),
               Authorize(asker, "list", The(OfName(site, RelationOf(r, request.field).resource))) = "ok"
        PROVE  reply'.status = "ok"
    <3>1. Authorize(asker, "detail", r) = "ok"
      BY <2>1, <2>3
    <3>. HIDE DEF r
    <3>. QED
      BY <1>3, <2>3, <3>1, OfferedOptionsAreAnswered
  <2>4. \A relation : (LeadsSomewhere(relation))' <=> LeadsSomewhere(relation)
    BY <1>1 DEF LeadsSomewhere
  <2>5. (RelationOf(The(OfName(site, asked.resource)), asked.field))' = RelationOf(r, request.field)
    BY <1>1 DEF RelationOf
  <2>. HIDE DEF meta
  <2>. QED
    BY <1>1, <2>2, <2>3, <2>4, <2>5 DEF MetadataIsHonored, meta
<1>7. ShownIsAllowed'
  <2>1. ASSUME reply'.status = "ok" PROVE rowsOf' = rowsOf
    BY <2>1 DEF Answer
  <2>2. \A part, mode : (MayShow(part, mode))' <=> MayShow(part, mode)
    BY <1>1, <1>4 DEF MayShow
  <2>3. \A part : (MayCall(part))' <=> MayCall(part)
    BY <1>1, <1>4 DEF MayCall
  <2>4. (RelationOf(The(OfName(site, asked.resource)), asked.field))' = RelationOf(r, request.field)
    BY <1>1 DEF RelationOf
  <2>5. ToSet(site) \subseteq Resources
    BY DEF ReadsInv, FieldsInv, ToSet
  <2>. DEFINE relation == RelationOf(r, request.field)
  <2>6. ASSUME reply'.status = "ok"
        PROVE  /\ request.kind \in {"list", "export", "options"} => MayShow(reply', "list")
               /\ request.kind = "detail" => MayShow(reply', "detail")
               /\ request.kind \in {"list", "export", "detail"} => reply'.beside = {}
               /\ request.kind = "options" => reply'.beside \subseteq {relation.value, relation.label}
    <3>. HIDE DEF r
    <3>. QED
      BY <1>3, <2>6, ListMayBeShown, ExportMayBeShown, DetailMayBeShown, OptionsMayBeShown
  <2>7. ASSUME reply'.status = "ok", request.kind = "searchAll"
        PROVE  \A part \in reply'.results : MayShow(part, "list") /\ MayCall(part)
    BY <1>3, <2>5, <2>7, SearchMayBeShown
  <2>8. ASSUME reply'.status = "ok", request.kind = "stats",
               NEW s \in ToSet(site), Authorize(asker, "list", s) = "ok"
        PROVE  <<s.name, Cardinality({row \in rowsOf'[s.name] : row.owner \in RowsShown[asker]})>>
                 \in reply'.counts
    BY <1>3, <2>1, <2>8, CountsAreOfShown
  <2>. HIDE DEF r, relation
  <2>. QED
    BY <1>1, <1>4, <2>4, <2>6, <2>7, <2>8 DEF ShownIsAllowed, MayShow, MayCall, relation
<1>. QED
  BY <1>2, <1>5, <1>6, <1>7 DEF ReadsInv

\* Nothing has been asked when the site is made, and until it is mounted.
LEMMA SiteStarts == AdminSiteInit => ReadsInv
<1>. SUFFICES ASSUME AdminSiteInit PROVE ReadsInv
  OBVIOUS
<1>1. site = <<>> /\ prepared = [r \in Resources |-> Unprepared]
  BY DEF AdminSiteInit, AdminFieldsInit
<1>2. ToSet(site) = {}
  BY <1>1 DEF ToSet
<1>3. FieldsInv
  BY <1>1, <1>2 DEF FieldsInv, RelationsLead
<1>. QED
  BY <1>3 DEF AdminSiteInit, ReadsInv, KnownIsCurrent, SilentUntilMounted, MetadataIsHonored, ShownIsAllowed,
     NoRequestYet, Say

LEMMA MountingKeepsTheRules ==
  ASSUME ReadsInv, RegisterResource \/ MountSite
  PROVE  ReadsInv'
<1>1. mounted = NotYet
  BY DEF RegisterResource, MountSite
<1>2. asked = NoRequestYet /\ reply = Say("none") /\ DOMAIN known = {}
  BY <1>1 DEF ReadsInv, SilentUntilMounted
<1>3. asked' = asked /\ reply' = reply /\ known' = known
  BY DEF RegisterResource, MountSite, adminRequestVars
<1>4. FieldsInv'
  <2>1. CASE RegisterResource
    BY <2>1, RegisterKeepsTheFields DEF RegisterResource, ReadsInv
  <2>2. CASE MountSite
    BY <2>2 DEF MountSite, adminFieldsVars, ReadsInv, FieldsInv, RelationsLead
  <2>. QED
    BY <2>1, <2>2
<1>5. KnownIsCurrent' /\ SilentUntilMounted'
  BY <1>2, <1>3 DEF KnownIsCurrent, SilentUntilMounted
<1>6. asked'.kind = "none" /\ reply'.status = "none"
  BY <1>2, <1>3 DEF NoRequestYet, Say
<1>7. MetadataIsHonored' /\ ShownIsAllowed'
  BY <1>6 DEF MetadataIsHonored, ShownIsAllowed
<1>. QED
  BY <1>4, <1>5, <1>7 DEF ReadsInv

\* Relations that are settled follow what was registered.
LEMMA SettledFollow ==
  ASSUME FieldsInv
  PROVE  RelationsFollowRegistrations
BY DEF FieldsInv, RelationsLead, WellPrepared, Settled, RelationsFollowRegistrations

\* Whatever resources there are, registered in any order and mounted, and whatever
\* users with any permissions ask, a client that asks for what its metadata offers is
\* answered, a reply shows rows and fields of a row that its user may see (and beside
\* them, in options, the value and the label that the relation names, which no permission
\* of a field takes away), and relations lead where the registrations say.
THEOREM AdminReadsKeepTheRules == AdminSiteSpec => []ReadsKeepTheRules
<1>1. ReadsInv /\ [AdminSiteNext]_adminSiteVars => ReadsInv'
  <2>. SUFFICES ASSUME ReadsInv, [AdminSiteNext]_adminSiteVars PROVE ReadsInv'
    OBVIOUS
  <2>1. CASE AdminSiteNext
    BY <2>1, MountingKeepsTheRules, AnswersKeepTheRules DEF AdminSiteNext
  <2>2. CASE UNCHANGED adminSiteVars
    <3>1. /\ site' = site /\ prepared' = prepared /\ repeated' = repeated /\ mounted' = mounted
          /\ rowsOf' = rowsOf /\ asker' = asker /\ known' = known /\ asked' = asked /\ reply' = reply
      BY <2>2 DEF adminSiteVars, adminFieldsVars, adminRequestVars
    <3>2. FieldsInv' /\ SilentUntilMounted'
      BY <3>1 DEF ReadsInv, FieldsInv, RelationsLead, SilentUntilMounted
    <3>3. KnownIsCurrent'
      BY <3>1 DEF ReadsInv, KnownIsCurrent, MetadataFor, VisibleFields, ActionsOf
    <3>4. MetadataIsHonored'
      BY <3>1 DEF ReadsInv, MetadataIsHonored, RelationOf, LeadsSomewhere
    <3>5. ShownIsAllowed'
      BY <3>1 DEF ReadsInv, ShownIsAllowed, Left, RelationOf
    <3>. QED
      BY <3>2, <3>3, <3>4, <3>5 DEF ReadsInv
  <2>. QED
    BY <2>1, <2>2
<1>2. ReadsInv => ReadsKeepTheRules
  BY SettledFollow DEF ReadsInv, ReadsKeepTheRules
<1>. QED
  BY <1>1, <1>2, SiteStarts, PTL DEF AdminSiteSpec
=============================================================================
