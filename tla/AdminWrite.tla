----------------------------- MODULE AdminWrite -----------------------------
(***************************************************************************)
(* The writes of the admin site (admin/admin.go, admin/runtime.go): create,*)
(* update, delete and bulk delete of the rows of one resource with row     *)
(* permissions. Each request is one transaction (Mount registers the       *)
(* writing operations WithTransaction) of several statements: find, probe, *)
(* write, reload. Other requests commit in between.                        *)
(*                                                                         *)
(* The database is external: MySQL. A statement is one step; it waits while*)
(* a row it writes is locked by a transaction that wrote it. SELECT reads  *)
(* what is committed ("readCommitted") or what was committed at the first  *)
(* SELECT of the transaction ("snapshot", MySQL's repeatable read), and    *)
(* its own writes. UPDATE and DELETE, with their subqueries, see what is   *)
(* committed when they get the locks.                                      *)
(*                                                                         *)
(* GORM is external too: conditions that are chained to a statement stay   *)
(* in it. A scope that is db.Where(...) is such a statement, and scopedDB  *)
(* is shared by all the queries of a request.                              *)
(***************************************************************************)
EXTENDS Naturals, FiniteSets

CONSTANTS
  Ids, Owners, Names,
  Users, ScopeOf,  \* the owners whose rows the row permissions show a user
  Payloads,        \* what requests send: functions on columns and "relation"
  Requests,
  Isolations,
  NoRequest, NoId

Columns == {"owner", "name"}

ASSUME AdminAssumption ==
  /\ IsFiniteSet(Ids)
  /\ ScopeOf \in [Users -> SUBSET Owners]
  /\ \A p \in Payloads :
       /\ DOMAIN p \subseteq Columns \cup {"relation"}
       /\ "owner" \in DOMAIN p => p["owner"] \in Owners
       /\ "name" \in DOMAIN p => p["name"] \in Names
  /\ Isolations \subseteq {"readCommitted", "snapshot"}
  /\ NoRequest \notin Requests /\ NoId \notin Ids

VARIABLES
  isolation,    \* of the database, fixed
  db,           \* the committed rows
  lock, draft,  \* which transaction has written a row, and what
  pc,           \* each request: where it is,
  user, kind,   \* whose it is and what it does,
  payload,      \* what it sends,
  snap,         \* the rows at its first SELECT,
  todo,         \* the rows of a bulk delete it still has to look at,
  pinned,       \* the ids its scopedDB has been asked for so far,
  item, model,  \* the id of the row in its hands, and the row as read,
  deleted,      \* how many rows it says it has deleted,
  answer        \* and what it was answered

tableVars   == <<isolation, db, lock, draft>>
requestVars == <<user, kind, payload>>
localVars   == <<snap, todo, pinned, item, model, deleted>>
vars == <<tableVars, pc, requestVars, localVars, answer>>

\* A row that was deleted stays, marked by deleted_at.
Absent == [status |-> "absent"]
Row == [status : {"live", "deleted"}, owner : Owners, name : Names]
Table == [Ids -> Row \cup {Absent}]
NoTable == [id \in Ids |-> Absent]
Deletes == {"delete", "bulkDelete"}
Kinds == {"create", "update"} \cup Deletes
NoPayload == [c \in {} |-> c]

TypeOK ==
  /\ isolation \in Isolations
  /\ db \in Table /\ draft \in Table
  /\ lock \in [Ids -> Requests \cup {NoRequest}]
  /\ pc \in [Requests -> {"idle", "found", "taken", "probed", "written", "commit", "done"}]
  /\ user \in [Requests -> Users] /\ kind \in [Requests -> Kinds]
  /\ payload \in [Requests -> Payloads \cup {NoPayload}]
  /\ snap \in [Requests -> Table]
  /\ todo \in [Requests -> SUBSET Ids] /\ pinned \in [Requests -> SUBSET Ids]
  /\ item \in [Requests -> Ids \cup {NoId}]
  /\ model \in [Requests -> Row \cup {Absent}]
  /\ deleted \in [Requests -> 0..Cardinality(Ids)]
  /\ answer \in [Requests -> {"none", "ok", "notFound", "forbidden", "error"}]
  \* Only a transaction that is running holds locks.
  /\ \A id \in Ids : lock[id] # NoRequest => pc[lock[id]] \notin {"idle", "done"}

Init ==
  /\ isolation \in Isolations
  /\ db \in [Ids -> {row \in Row : row.status = "live"} \cup {Absent}]
  /\ lock = [id \in Ids |-> NoRequest] /\ draft = NoTable
  /\ pc = [r \in Requests |-> "idle"]
  /\ user \in [Requests -> Users] /\ kind \in [Requests -> Kinds]
  /\ payload \in [Requests -> Payloads \cup {NoPayload}]
  /\ \A r \in Requests : payload[r] = NoPayload <=> kind[r] \in Deletes
  /\ snap = [r \in Requests |-> NoTable]
  /\ todo = [r \in Requests |-> {}] /\ pinned = [r \in Requests |-> {}]
  /\ item = [r \in Requests |-> NoId]
  /\ model = [r \in Requests |-> Absent]
  /\ deleted = [r \in Requests |-> 0]
  /\ answer = [r \in Requests |-> "none"]

-----------------------------------------------------------------------------
(* The database.                                                           *)

\* What an UPDATE or DELETE of r sees, and what a SELECT does.
Current(r, id) == IF lock[id] = r THEN draft[id] ELSE db[id]

View(r, id) ==
  IF isolation = "snapshot" /\ lock[id] # r THEN snap[r][id] ELSE Current(r, id)

\* scopedDB: the rows that the permissions show to the user.
Visible(r, row) == row.status = "live" /\ row.owner \in ScopeOf[user[r]]

\* What scopedDB.First(id) asks for. It leaves its condition in scopedDB, if that
\* is db.Where(...): it is not for users who see everything.
Asked(r, id) == IF ScopeOf[user[r]] = Owners THEN {} ELSE pinned[r] \cup {id}

\* ... and whether it finds the row.
Finds(r, id) == Visible(r, View(r, id)) /\ Asked(r, id) \subseteq {id}

WriteRow(r, id, row) ==
  /\ lock[id] \in {NoRequest, r}
  /\ lock' = [lock EXCEPT ![id] = r]
  /\ draft' = [draft EXCEPT ![id] = row]
  /\ UNCHANGED <<isolation, db>>

\* COMMIT and ROLLBACK let the locks go.
Unlock(r) ==
  /\ lock' = [id \in Ids |-> IF lock[id] = r THEN NoRequest ELSE lock[id]]
  /\ draft' = [id \in Ids |-> IF lock[id] = r THEN Absent ELSE draft[id]]

\* A plausible bug: the error is answered and the transaction stays open.
AbortNoRollback(r, response) ==
  /\ pc' = [pc EXCEPT ![r] = "done"]
  /\ answer' = [answer EXCEPT ![r] = response]
  /\ UNCHANGED <<tableVars, requestVars, localVars>>

\* The request is over: its locks and its locals are gone.
Ends(r, response) ==
  /\ pc' = [pc EXCEPT ![r] = "done"]
  /\ answer' = [answer EXCEPT ![r] = response]
  /\ Unlock(r)
  /\ snap' = [snap EXCEPT ![r] = NoTable]
  /\ todo' = [todo EXCEPT ![r] = {}] /\ pinned' = [pinned EXCEPT ![r] = {}]
  /\ item' = [item EXCEPT ![r] = NoId] /\ model' = [model EXCEPT ![r] = Absent]
  /\ deleted' = [deleted EXCEPT ![r] = 0]
  /\ UNCHANGED <<isolation, requestVars>>

\* An error of the handler: WithTransaction rolls back.
Abort(r, response) == Ends(r, response) /\ UNCHANGED db

Goto(r, location) == pc' = [pc EXCEPT ![r] = location]

-----------------------------------------------------------------------------
(* Create and update.                                                      *)

\* Create: the columns of the payload, the others have their zero value. Both
\* must be there here, which is what validateRequiredFor can ask for.
Insert(r, id) ==
  LET p == payload[r] IN
  /\ kind[r] = "create" /\ pc[r] = "idle"
  /\ Columns \subseteq DOMAIN p
  /\ db[id] = Absent
  /\ WriteRow(r, id, [status |-> "live", owner |-> p["owner"], name |-> p["name"]])
  /\ item' = [item EXCEPT ![r] = id]
  /\ snap' = [snap EXCEPT ![r] = db]
  /\ Goto(r, "written")
  /\ UNCHANGED <<requestVars, todo, pinned, model, deleted, answer>>

\* findByID: the first SELECT, and so the snapshot.
Find(r, id) ==
  /\ kind[r] \in {"update", "delete"} /\ pc[r] = "idle"
  /\ IF Visible(r, db[id])
     THEN /\ snap' = [snap EXCEPT ![r] = db]
          /\ todo' = [todo EXCEPT ![r] = {id}]
          /\ pinned' = [pinned EXCEPT ![r] = Asked(r, id)]
          /\ item' = [item EXCEPT ![r] = id]
          /\ model' = [model EXCEPT ![r] = db[id]]
          /\ Goto(r, "found")
          /\ UNCHANGED <<tableVars, requestVars, deleted, answer>>
     ELSE Abort(r, "notFound")

\* A plausible bug: every column is written, as read.
ColumnsAll(r) == Columns

\* updateColumnsFor: the columns that the payload changes; and, if it changes
\* none but has a relation, persistedColumnsFor: all of them.
ColumnsFor(r) ==
  LET p == payload[r]
      changed == {c \in DOMAIN p \cap Columns : p[c] # model[r][c]}
  IN IF changed = {} /\ "relation" \in DOMAIN p THEN Columns ELSE changed

\* applyValuesFor: the row as read with the payload applied.
Desired(r) ==
  [c \in DOMAIN model[r] |-> IF c \in DOMAIN payload[r] THEN payload[r][c] ELSE model[r][c]]

\* Nothing to save: no statement, and no look at the row either.
NothingToSave(r) ==
  /\ kind[r] = "update" /\ pc[r] = "found"
  /\ ColumnsFor(r) = {}
  /\ Goto(r, "commit")
  /\ UNCHANGED <<tableVars, requestVars, localVars, answer>>

Probe(r) ==
  /\ kind[r] = "update" /\ pc[r] = "found"
  /\ ColumnsFor(r) # {}
  /\ IF Finds(r, item[r])
     THEN Goto(r, "probed") /\ UNCHANGED <<tableVars, requestVars, localVars, answer>>
     ELSE Abort(r, "notFound")

\* UPDATE ... WHERE id IN (the scoped rows): of what is committed now. Nobody
\* looks at RowsAffected.
Update(r) ==
  LET now == Current(r, item[r])
      written == [c \in DOMAIN now |-> IF c \in ColumnsFor(r) THEN Desired(r)[c] ELSE now[c]]
  IN
  /\ kind[r] = "update" /\ pc[r] = "probed"
  /\ IF Visible(r, now) THEN WriteRow(r, item[r], written) ELSE UNCHANGED tableVars
  /\ Goto(r, "written")
  /\ UNCHANGED <<requestVars, localVars, answer>>

\* A plausible bug: the row is not looked at again.
ReloadUnscoped(r) ==
  /\ pc[r] = "written"
  /\ Goto(r, "commit")
  /\ UNCHANGED <<tableVars, requestVars, localVars, answer>>

\* ensureScopedWriteVisible: a write that leaves the scope is forbidden. The row
\* as reloaded is only shown in the answer.
Reload(r) ==
  /\ pc[r] = "written"
  /\ IF Finds(r, item[r])
     THEN Goto(r, "commit") /\ UNCHANGED <<tableVars, requestVars, localVars, answer>>
     ELSE Abort(r, "forbidden")

-----------------------------------------------------------------------------
(* Delete and bulk delete.                                                 *)

\* Find of handleBulkDelete: those of the ids that are visible, maybe none.
FindAll(r, ids) ==
  /\ kind[r] = "bulkDelete" /\ pc[r] = "idle"
  /\ ids # {}
  /\ snap' = [snap EXCEPT ![r] = db]
  /\ todo' = [todo EXCEPT ![r] = {id \in ids : Visible(r, db[id])}]
  /\ Goto(r, "found")
  /\ UNCHANGED <<tableVars, requestVars, pinned, item, model, deleted, answer>>

\* A row that is not deleted is an error of a single delete; a bulk delete goes on.
NotDeleted(r) ==
  IF kind[r] = "delete"
  THEN Abort(r, "notFound")
  ELSE /\ pinned' = [pinned EXCEPT ![r] = Asked(r, item[r])]
       /\ Goto(r, "found")
       /\ UNCHANGED <<tableVars, requestVars, snap, todo, item, model, deleted, answer>>

\* The loop takes the next row.
Take(r, id) ==
  /\ kind[r] \in Deletes /\ pc[r] = "found" /\ id \in todo[r]
  /\ item' = [item EXCEPT ![r] = id] /\ todo' = [todo EXCEPT ![r] = @ \ {id}]
  /\ Goto(r, "taken")
  /\ UNCHANGED <<tableVars, requestVars, snap, pinned, model, deleted, answer>>

\* deleteModelWithHooks: the probe, after BeforeDelete. In a bulk delete by a user
\* with a scope it finds no row but the first: id = 1 stays in scopedDB, and
\* id = 1 AND id = 2 is asked for next.
ProbeDelete(r) ==
  /\ pc[r] = "taken"
  /\ IF Finds(r, item[r])
     THEN /\ pinned' = [pinned EXCEPT ![r] = Asked(r, item[r])]
          /\ Goto(r, "probed")
          /\ UNCHANGED <<tableVars, requestVars, snap, todo, item, model, deleted, answer>>
     ELSE NotDeleted(r)

\* A plausible bug: RowsAffected is not looked at.
RemoveUncounted(r) ==
  LET now == Current(r, item[r]) IN
  /\ kind[r] \in Deletes /\ pc[r] = "probed"
  /\ IF Visible(r, now)
     THEN WriteRow(r, item[r], [now EXCEPT !.status = "deleted"])
     ELSE UNCHANGED tableVars
  /\ deleted' = [deleted EXCEPT ![r] = @ + 1]
  /\ Goto(r, "found")
  /\ UNCHANGED <<requestVars, snap, todo, pinned, item, model, answer>>

\* DELETE ... WHERE id IN (the scoped rows), and RowsAffected; AfterDelete runs
\* for the rows that are counted.
RemoveRow(r) ==
  LET now == Current(r, item[r]) IN
  /\ kind[r] \in Deletes /\ pc[r] = "probed"
  /\ IF Visible(r, now)
     THEN /\ WriteRow(r, item[r], [now EXCEPT !.status = "deleted"])
          /\ deleted' = [deleted EXCEPT ![r] = @ + 1]
          /\ Goto(r, "found")
          /\ UNCHANGED <<requestVars, snap, todo, pinned, item, model, answer>>
     ELSE NotDeleted(r)

AllDeleted(r) ==
  /\ kind[r] \in Deletes /\ pc[r] = "found" /\ todo[r] = {}
  /\ Goto(r, "commit")
  /\ UNCHANGED <<tableVars, requestVars, localVars, answer>>

-----------------------------------------------------------------------------

Commit(r) ==
  /\ pc[r] = "commit"
  /\ db' = [id \in Ids |-> Current(r, id)]
  /\ Ends(r, "ok")

\* Permissions, the body, a hook, a relation, the database or the end of the
\* context make the handler fail at any point.
Fails(r) == pc[r] # "done" /\ Abort(r, "error")

Next ==
  \E r \in Requests :
    \/ \E id \in Ids : Insert(r, id) \/ Find(r, id) \/ Take(r, id)
    \/ \E ids \in SUBSET Ids : FindAll(r, ids)
    \/ NothingToSave(r) \/ Probe(r) \/ Update(r) \/ Reload(r)
    \/ ProbeDelete(r) \/ RemoveRow(r) \/ AllDeleted(r)
    \/ Commit(r) \/ Fails(r)

Spec == Init /\ [][Next]_vars

-----------------------------------------------------------------------------
(* Properties of the step in which a request commits.                      *)

Commits(r) == answer[r] = "none" /\ answer'[r] = "ok"

\* Row permissions hold for every row a request changes, before the change and
\* after it: whoever moves rows in and out of its scope meanwhile.
ChangesStayInScope ==
  [][ \A r \in Requests, id \in Ids :
        Commits(r) /\ db'[id] # db[id] =>
          /\ db[id] # Absent => Visible(r, db[id])
          /\ db'[id].status = "live" => Visible(r, db'[id]) ]_vars

\* A row's deletion is counted by the request that deleted it, and its AfterDelete
\* hook runs there and nowhere else, however many requests delete it at once.
DeletionsCountedOnce ==
  [][ \A r \in Requests :
        Commits(r) /\ kind[r] \in Deletes =>
          deleted[r] = Cardinality({id \in Ids : db'[id] # db[id]}) ]_vars

\* A partial update keeps what others have written to the other columns since it
\* read the row. Left out are payloads with a relation: if they change no column,
\* persistedColumnsFor writes all of them back as they were read.
PartialUpdateKeepsTheRest ==
  [][ \A r \in Requests, id \in Ids :
        Commits(r) /\ kind[r] = "update" /\ "relation" \notin DOMAIN payload[r] =>
          \A c \in Columns \ DOMAIN payload[r] : db'[id] # db[id] => db'[id][c] = db[id][c] ]_vars
=============================================================================
