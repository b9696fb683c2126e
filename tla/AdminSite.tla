------------------------------- MODULE AdminSite -------------------------------
(***************************************************************************)
(* What the admin site answers to reads (admin/admin.go, admin/runtime.go):*)
(* the index, the counts, the search over all resources, and of one        *)
(* resource its metadata, list, export, one record and the options of a    *)
(* relation, to users with different permissions. A client builds its      *)
(* forms and tables from the metadata and asks for what that offers.       *)
(*                                                                         *)
(* A row is [id, owner, texts, links]: the texts of its fields as a set of *)
(* <<field, word>>, and the ids behind its many-to-many fields. Values     *)
(* that do not parse, pages and CSV are left out (Query has the pages).    *)
(***************************************************************************)
EXTENDS AdminFields, FiniteSets

CONSTANTS
  SiteUsers,
  Verdicts,     \* permission checks that do not say yes: <<user, action, resource name, verdict>>
  FieldRules,   \* FieldPermissions: <<user, resource name, field, mode>> taken away
  RowsShown,    \* row permissions: user -> the owners whose rows they show
  InitialRows,  \* resource name -> its rows
  ReadRequests  \* what clients ask

VARIABLES
  mounted,   \* the resources that have routes, once they do
  rowsOf,    \* resource name -> rows
  asker,     \* the user of the client
  known,     \* resource name -> the metadata the client holds
  asked,     \* the request that was answered last,
  reply      \* and the reply: [status] and what it shows

adminRequestVars == <<mounted, rowsOf, asker, known, asked, reply>>
adminSiteVars == <<adminFieldsVars, adminRequestVars>>

NotYet == <<>>
NoRequestYet == [kind |-> "none"]
Say(status) == [status |-> status]
ReadKinds == {"index", "stats", "searchAll", "metadata", "list", "export", "detail", "options", "link"}

-----------------------------------------------------------------------------
(* Permissions and views.                                                  *)

\* authorize: "ok", "forbidden", "unauthorized", or another error.
Authorize(user, action, r) ==
  LET said == {v \in Verdicts : v[1] = user /\ v[2] = action /\ v[3] = r.name}
  IN IF said = {} THEN "ok" ELSE (CHOOSE v \in said : TRUE)[4]

\* Plausible bug: the fields of a mode, whoever asks.
FieldsOfMode(user, r, mode) == {name \in FieldNames(r) : mode \in prepared[r].modes[name]}

\* resolved and visibleFields: the fields of a mode that are left to the user.
VisibleFields(user, r, mode) ==
  {name \in FieldNames(r) : mode \in prepared[r].modes[name]
                            /\ <<user, r.name, name, mode>> \notin FieldRules}

\* scopedDB.
ScopedRows(user, r) == {row \in rowsOf[r.name] : row.owner \in RowsShown[user]}

\* prepare: the actions of a resource, whoever asks.
ActionsOf(r) ==
  {"list", "detail", "delete", "bulk_delete"} \cup
  {action \in {"create", "update"} : \E name \in FieldNames(r) : action \in prepared[r].modes[name]}

\* applyListQueryFor. A filter on a field that is not filterable is not looked at; of
\* those that are, the kinds parseString knows can be filtered.
BadListRequest(user, r, request) ==
  \/ request.term # "" /\ VisibleFields(user, r, "search") = {}
  \/ \E name \in request.filters \cap VisibleFields(user, r, "filter") :
       Named(r, name).kind \notin ScalarKinds
  \/ ~(request.sort \subseteq VisibleFields(user, r, "sort"))

Found(user, r, request) ==
  {row \in ScopedRows(user, r) :
     /\ request.term = "" \/ \E name \in VisibleFields(user, r, "search") : <<name, request.term>> \in row.texts
     /\ \A name \in request.filters \cap VisibleFields(user, r, "filter") : <<name, request.value>> \in row.texts}

\* serializeFor. A many-to-many field shows the links as ids. beside: the fields whose
\* values stand next to a row's own, as its value, id or label.
Shown(user, r, rows, mode) ==
  [status |-> "ok", resource |-> r, rows |-> rows, fields |-> VisibleFields(user, r, mode),
   beside |-> {}]

-----------------------------------------------------------------------------
(* The handlers over all resources. They leave out what the user may not   *)
(* list; a user who is not logged in is told so, another error ends them.  *)

Swept(user) ==
  LET failing == {i \in DOMAIN site : Authorize(user, "list", site[i]) \notin {"ok", "forbidden"}}
  IN IF failing = {} THEN "ok" ELSE Authorize(user, "list", site[Min(failing)])
Listable(user) == {r \in ToSet(site) : Authorize(user, "list", r) = "ok"}

ListResources(user) ==
  IF Swept(user) # "ok" THEN Say(Swept(user))
  ELSE [status |-> "ok", names |-> {r.name : r \in Listable(user)}]

ResourceStats(user) ==
  IF Swept(user) # "ok" THEN Say(Swept(user))
  ELSE [status |-> "ok",
        counts |-> {<<r.name, Cardinality(ScopedRows(user, r))>> : r \in Listable(user)}]

\* searchLabelFor: the first text of a row that is not empty, in a field to search and
\* else in one to list, or the key.
LabelOf(user, r, row) ==
  LET Telling(mode) ==
        {i \in DOMAIN r.fields :
           /\ r.fields[i].kind = "string" /\ r.fields[i].name \in VisibleFields(user, r, mode)
           /\ \E text \in row.texts : text[1] = r.fields[i].name}
  IN IF Telling("search") # {} THEN FirstField(r, Telling("search")).name
     ELSE IF Telling("list") # {} THEN FirstField(r, Telling("list")).name
     ELSE PrimaryKey(r).name

\* What is found in one resource: each row with its key and its label.
Hits(user, r, request) ==
  LET found == Found(user, r, request)
  IN [Shown(user, r, found, "list") EXCEPT
        !.beside = {PrimaryKey(r).name} \cup {LabelOf(user, r, row) : row \in found}]

\* searchResources: the resources with search fields and something found.
SearchResources(user, request) ==
  IF Len(request.term) < 2 THEN [status |-> "ok", results |-> {}]
  ELSE IF Swept(user) # "ok" THEN Say(Swept(user))
  ELSE LET searched == {r \in Listable(user) : VisibleFields(user, r, "search") # {}}
           all == [request EXCEPT !.filters = {}, !.sort = {}]
       IN [status |-> "ok",
           results |-> {Hits(user, r, all) : r \in {s \in searched : Found(user, s, all) # {}}}]

-----------------------------------------------------------------------------
(* The handlers of one resource.                                           *)

MetadataFor(user, r) ==
  [status |-> "ok", modes |-> [m \in Modes |-> VisibleFields(user, r, m)],
   actions |-> {action \in ActionsOf(r) : Authorize(user, action, r) = "ok"}]

HandleMetadata(user, r) ==
  LET verdicts == {Authorize(user, action, r) : action \in ActionsOf(r)}
  IN IF Authorize(user, "detail", r) # "ok" THEN Say(Authorize(user, "detail", r))
     ELSE IF "broken" \in verdicts THEN Say("broken")
     ELSE MetadataFor(user, r)

HandleList(user, r, request) ==
  IF Authorize(user, "list", r) # "ok" THEN Say(Authorize(user, "list", r))
  ELSE IF BadListRequest(user, r, request) THEN Say("bad request")
  ELSE Shown(user, r, Found(user, r, request), "list")

\* exportFields: the fields asked for, all of the list by default, and no others.
HandleExport(user, r, request) ==
  LET listed == VisibleFields(user, r, "list")
      fields == IF request.fields = {} THEN listed ELSE request.fields
  IN IF Authorize(user, "list", r) # "ok" THEN Say(Authorize(user, "list", r))
     ELSE IF ~(fields \subseteq listed) \/ fields = {} \/ BadListRequest(user, r, request)
     THEN Say("bad request")
     ELSE [Shown(user, r, Found(user, r, request), "list") EXCEPT !.fields = fields]

HandleDetail(user, r, request) ==
  IF Authorize(user, "detail", r) # "ok" THEN Say(Authorize(user, "detail", r))
  ELSE LET rows == {row \in ScopedRows(user, r) : row.id = request.id}
       IN IF rows = {} THEN Say("not found") ELSE Shown(user, r, rows, "detail")

RelationOf(r, name) ==
  IF name \in FieldNames(r) THEN prepared[r].relations[name] ELSE NoRelation
LeadsSomewhere(relation) ==
  /\ relation # NoRelation
  /\ OfName(site, relation.resource) # {}
  /\ {relation.value, relation.label} \subseteq FieldNames(The(OfName(site, relation.resource)))

\* The rows of the target: those with the values asked for, or those with the term as
\* their value or in a search field of the relation. (Values here are keys.)
OptionRows(user, target, relation, request) ==
  LET names == IF relation.search = {} THEN {relation.label} ELSE relation.search
      sought == {relation.value} \cup (names \cap FieldNames(target))
  IN {row \in ScopedRows(user, target) :
        IF request.values # {} THEN row.id \in request.values
        ELSE request.term = "" \/ \E name \in sought : <<name, request.term>> \in row.texts}

\* handleRelationOptions: the target must be there, and listable by the user. Next to each
\* row it shows the value and the label the relation names, visible to the user or not.
HandleOptions(user, r, request) ==
  LET relation == RelationOf(r, request.field)
      target == The(OfName(site, relation.resource))
  IN IF Authorize(user, "detail", r) # "ok" THEN Say(Authorize(user, "detail", r))
     ELSE IF relation = NoRelation THEN Say("not found")
     ELSE IF OfName(site, relation.resource) = {} THEN Say("bad request")
     ELSE IF Authorize(user, "list", target) # "ok" THEN Say(Authorize(user, "list", target))
     ELSE IF ~LeadsSomewhere(relation) THEN Say("bad request")
     ELSE [Shown(user, target, OptionRows(user, target, relation, request), "list") EXCEPT
             !.beside = {relation.value, relation.label}]

\* loadRelationVirtualRecords finds the rows behind ids where the user sees them.
LinkableIDs(user, target) == {row.id : row \in ScopedRows(user, target)}

\* applyRelationVirtualValuesFor: every id must be a row of the target the user can see;
\* then they replace all links of the row, the ones the user cannot see included.
LinkRows(user, r, request) ==
  LET relation == RelationOf(r, request.field)
      row == CHOOSE row \in rowsOf[r.name] : row.id = request.id
  IN IF Authorize(user, "update", r) # "ok" THEN Say(Authorize(user, "update", r))
     ELSE IF \A other \in ScopedRows(user, r) : other.id # request.id THEN Say("not found")
     ELSE IF request.field \notin VisibleFields(user, r, "update") \/ relation = NoRelation
             \/ OfName(site, relation.resource) = {}
     THEN Say("bad request")
     ELSE IF ~(request.values \subseteq LinkableIDs(user, The(OfName(site, relation.resource)))) THEN Say("bad request")
     ELSE [Shown(user, r, {[row EXCEPT !.links = request.values]}, "detail") EXCEPT !.status = "linked"]

-----------------------------------------------------------------------------

AdminSiteTypeOK ==
  /\ AdminFieldsTypeOK
  /\ mounted \in Seq(Resources)
  /\ asked.kind \in ReadKinds \cup {"none"}
  /\ reply.status \in {"none", "ok", "linked", "bad request", "not found", "forbidden", "unauthorized", "broken"}

AdminSiteInit ==
  /\ AdminFieldsInit
  /\ mounted = NotYet /\ rowsOf = InitialRows
  /\ known = [k \in {} |-> <<>>]
  /\ asker \in SiteUsers /\ asked = NoRequestYet /\ reply = Say("none")

RegisterResource ==
  /\ mounted = NotYet
  /\ AdminFieldsNext
  /\ UNCHANGED adminRequestVars

\* Mount: routes for the resources there are.
MountSite ==
  /\ mounted = NotYet /\ site # <<>>
  /\ mounted' = site
  /\ UNCHANGED <<adminFieldsVars, rowsOf, asker, known, asked, reply>>

ReplyTo(user, request) ==
  LET r == The(OfName(site, request.resource))
  IN CASE request.kind = "index" -> ListResources(user)
       [] request.kind = "stats" -> ResourceStats(user)
       [] request.kind = "searchAll" -> SearchResources(user, request)
       [] request.kind = "metadata" -> HandleMetadata(user, r)
       [] request.kind = "list" -> HandleList(user, r, request)
       [] request.kind = "export" -> HandleExport(user, r, request)
       [] request.kind = "detail" -> HandleDetail(user, r, request)
       [] request.kind = "options" -> HandleOptions(user, r, request)
       [] request.kind = "link" -> LinkRows(user, r, request)

Answer(request) ==
  /\ mounted # NotYet
  /\ request.kind \in {"index", "stats", "searchAll"} \/ OfName(mounted, request.resource) # {}
  /\ asked' = request /\ reply' = ReplyTo(asker, request)
  /\ known' = IF request.kind = "metadata" /\ reply'.status = "ok"
              THEN [k \in DOMAIN known \cup {request.resource} |->
                      IF k = request.resource THEN reply' ELSE known[k]]
              ELSE known
  /\ rowsOf' = IF reply'.status = "linked"
               THEN [rowsOf EXCEPT ![request.resource] =
                       {row \in @ : row.id # request.id} \cup reply'.rows]
               ELSE rowsOf
  /\ UNCHANGED <<adminFieldsVars, mounted, asker>>

AdminSiteNext ==
  \/ RegisterResource \/ MountSite
  \/ \E request \in ReadRequests : Answer(request)

AdminSiteSpec == AdminSiteInit /\ [][AdminSiteNext]_adminSiteVars

-----------------------------------------------------------------------------

\* A client that asks for what the metadata offers it is answered: it can list if
\* that is among the actions, search if there are search fields, sort and filter by
\* the fields named for that, export the list's fields and open a record's options
\* when they lead to a resource it may list.
MetadataIsHonored ==
  asked.kind \in {"list", "export", "options"} /\ asked.resource \in DOMAIN known =>
    LET meta == known[asked.resource]
        r == The(OfName(site, asked.resource))
        relation == RelationOf(r, asked.field)
    IN /\ asked.kind \in {"list", "export"} /\ "list" \in meta.actions
          /\ (asked.term = "" \/ meta.modes["search"] # {})
          /\ asked.sort \subseteq meta.modes["sort"]
          /\ (\A name \in asked.filters : Named(r, name).kind \in ScalarKinds)
          /\ asked.fields \subseteq meta.modes["list"] /\ meta.modes["list"] # {}
            => reply.status = "ok"
       /\ asked.kind = "options" /\ LeadsSomewhere(relation)
          /\ Authorize(asker, "list", The(OfName(site, relation.resource))) = "ok"
            => reply.status = "ok"

\* The fields that are left to the user of those a resource has for one of the modes.
Left(user, r, modes) ==
  {name \in FieldNames(r) :
     \E m \in modes : m \in prepared[r].modes[name] /\ <<user, r.name, name, m>> \notin FieldRules}

\* What a reply shows are rows the row permissions show the user, of resources it may
\* see, in the fields its view leaves it, whatever fields it asked for; and the counts
\* agree with the unfiltered list. What the search over all resources calls a row is its
\* key or a field left to the user for lists or for searching. The options of a relation
\* are an exception: each shows the value and the label of its row whether or not those
\* fields are left to the user, but nothing else beside.
ShownIsAllowed ==
  LET Allowed(part, mode) ==
        /\ \A row \in part.rows : row.owner \in RowsShown[asker]
        /\ Authorize(asker, mode, part.resource) = "ok"
        /\ part.fields \subseteq Left(asker, part.resource, {mode})
      relation == RelationOf(The(OfName(site, asked.resource)), asked.field)
  IN reply.status = "ok" =>
       /\ asked.kind \in {"list", "export", "options"} => Allowed(reply, "list")
       /\ asked.kind = "detail" => Allowed(reply, "detail")
       /\ asked.kind \in {"list", "export", "detail"} => reply.beside = {}
       /\ asked.kind = "options" => reply.beside \subseteq {relation.value, relation.label}
       /\ asked.kind = "searchAll" => \A part \in reply.results :
            /\ Allowed(part, "list")
            /\ part.beside \subseteq {PrimaryKey(part.resource).name}
                                    \cup Left(asker, part.resource, {"search", "list"})
       /\ asked.kind = "stats" => \A r \in ToSet(site) :
            Authorize(asker, "list", r) = "ok" =>
              <<r.name, Cardinality({row \in rowsOf[r.name] : row.owner \in RowsShown[asker]})>>
                \in reply.counts

\* The forms and tables of a client work, and show what its user may see, whatever
\* the order the resources were registered in.
ReadsKeepTheRules == MetadataIsHonored /\ ShownIsAllowed /\ RelationsFollowRegistrations
=============================================================================
