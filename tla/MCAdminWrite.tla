---------------------------- MODULE MCAdminWrite ----------------------------
(* The admin site and the lists under it: its writes as transactions that      *)
(* overlap, its reads by users with different permissions after resources were *)
(* registered in any order, and lists read page by page while rows come and    *)
(* go. Each behaviour is of one of them, the others standing still.            *)
EXTENDS AdminWrite, AdminSite, Query, TLC

CONSTANTS ann, bob, admin, n1, n2

VARIABLE subject

allVars == <<subject, vars, adminSiteVars, queryVars>>

-----------------------------------------------------------------------------
(* Writes: two rows, two requests of any kind and user, an administrator who   *)
(* sees everything and an owner who sees his rows, on databases of both        *)
(* isolation levels. Payloads of one column, both, and a relation with and     *)
(* without a column.                                                           *)

MCScopeOf == bob :> {bob} @@ admin :> {ann, bob}

MCPayloads ==
  { "name" :> n1, "owner" :> ann, "owner" :> bob @@ "name" :> n2,
    "relation" :> {}, "relation" :> {} @@ "name" :> n2 }

-----------------------------------------------------------------------------
(* Reads: users with a password, a role whose tag contradicts itself, a hidden *)
(* note and a foreign key to teams; teams with a search set and a relation of  *)
(* their own, registered under two names; and a resource prepare refuses.      *)

AdminField(name, type) ==
  [name |-> name, kind |-> type, hidden |-> FALSE, sensitive |-> FALSE, gorm |-> {},
   access |-> {}, tag |-> {}, options |-> [x \in {} |-> TRUE], relations |-> NoRelation,
   relates |-> "none"]
KeyField == [AdminField("id", "number") EXCEPT !.gorm = {"primarykey"}]

UserResource ==
  [name |-> "users", model |-> "User", sets |-> [m \in {} |-> {}],
   fields |->
     << KeyField, AdminField("name", "string"),
        [AdminField("password", "string") EXCEPT !.sensitive = TRUE, !.access = {"createonly"}],
        [AdminField("role", "string") EXCEPT !.tag = {<<"filter", FALSE>>, <<"filterable", TRUE>>}],
        [AdminField("note", "string") EXCEPT !.options = [hidden |-> TRUE]],
        [AdminField("teamId", "number") EXCEPT !.relates = "Team"] >>]

TeamResource ==
  [name |-> "teams", model |-> "Team", sets |-> [search |-> {"title"}],
   fields |->
     << KeyField, AdminField("title", "string"), AdminField("deletedAt", "struct"),
        [AdminField("userIds", "slice") EXCEPT
           !.gorm = {"-"}, !.options = [filter |-> TRUE],
           !.relations = [resource |-> "users", value |-> "id", label |-> "", search |-> {}]] >>]

MCResources ==
  { UserResource, TeamResource, [TeamResource EXCEPT !.name = "old-teams"],
    [TeamResource EXCEPT !.sets = [search |-> {"id"}]],
    [TeamResource EXCEPT !.name = "broken", !.sets = [list |-> {"nothing"}]] }

MCVerdicts ==
  { <<"bob", "list", "teams", "forbidden">>, <<"bob", "create", "users", "forbidden">>,
    <<"eve", "list", "users", "unauthorized">>, <<"eve", "detail", "teams", "broken">> }
MCFieldRules ==
  { <<"bob", "users", "role", m>> : m \in Modes } \cup { <<"bob", "users", "name", "sort">>,
                                                         <<"admin", "teams", "title", "list">> }
MCRowsShown == [bob |-> {"bob"}, admin |-> {"bob", "ann"}, eve |-> {}]

AdminRow(id, owner, texts) == [id |-> id, owner |-> owner, texts |-> texts, links |-> {}]
MCInitialRows ==
  "users" :> { AdminRow(1, "bob", {<<"name", "aa">>, <<"role", "bb">>}),
               AdminRow(2, "ann", {<<"name", "aa">>}) }
  @@ "teams" :> { AdminRow(1, "ann", {<<"title", "aa">>}), AdminRow(2, "bob", {}) }
  @@ "old-teams" :> {}

Read(what, resource) ==
  [kind |-> what, resource |-> resource, term |-> "", filters |-> {}, value |-> "", sort |-> {},
   fields |-> {}, id |-> 1, field |-> "", values |-> {}]

MCReadRequests ==
  { Read("index", ""), Read("stats", ""), Read("metadata", "users"), Read("metadata", "teams"),
    [Read("searchAll", "") EXCEPT !.term = "aa"], [Read("searchAll", "") EXCEPT !.term = "a"],
    Read("list", "teams"), [Read("list", "users") EXCEPT !.term = "aa", !.sort = {"name"}],
    [Read("list", "users") EXCEPT !.filters = {"role"}, !.value = "bb"],
    [Read("list", "teams") EXCEPT !.filters = {"userIds"}],
    Read("export", "users"), [Read("export", "users") EXCEPT !.fields = {"name", "role"}],
    [Read("export", "users") EXCEPT !.fields = {"note"}],
    Read("detail", "users"), [Read("detail", "teams") EXCEPT !.id = 2],
    [Read("options", "users") EXCEPT !.field = "teamId"],
    [Read("options", "users") EXCEPT !.field = "teamId", !.term = "aa"],
    [Read("options", "teams") EXCEPT !.field = "userIds", !.values = {1}],
    [Read("options", "users") EXCEPT !.field = "name"] }
  \cup
  { [Read("link", "teams") EXCEPT !.field = "userIds", !.id = 2, !.values = {target}] :
      target \in {1, 2} }

-----------------------------------------------------------------------------
(* Lists: four rows, two of one rank and one of rank zero; filters of every    *)
(* operator and kind, one refused and one that would be if it had a value.     *)

MCTableRows ==
  { [id |-> 1, rank |-> 1, words |-> {"x"}], [id |-> 2, rank |-> 2, words |-> {"y"}],
    [id |-> 3, rank |-> 2, words |-> {"x"}], [id |-> 4, rank |-> 0, words |-> {"x", "y"}] }

FilterField(columns, op, type, value) ==
  [columns |-> columns, op |-> op, kind |-> type, value |-> value]

MCFilters ==
  { <<>>,
    << FilterField(<<"rank">>, "ge", "number", 1) >>,
    << FilterField(<<"rank">>, "eq", "pointer", 0), FilterField(<<"id">>, "eq", "nil", 0),
       FilterField(<<"nonsense">>, "eq", "number", 0) >>,
    << FilterField(<<"id", "rank">>, "eq", "number", 2) >>,
    << FilterField(<<"id">>, "in", "list", <<1, 3>>),
       [kind |-> "embedded", inner |-> <<FilterField(<<"words">>, "like", "text", {"x"})>>] >>,
    << FilterField(<<"id">>, "ne", "pointer", 1), FilterField(<<"rank">>, "like", "text", {}) >>,
    << FilterField(<<"id">>, "about", "number", 1) >>,
    << FilterField(<<"id">>, "lt", "number", 4), FilterField(<<"rank">>, "gt", "pointer", 0),
       FilterField(<<"rank">>, "le", "number", 2) >> }

MCSorts ==
  { <<>>,
    << [prefix |-> "-", name |-> "rank"], [prefix |-> "", name |-> "id"] >>,
    << [prefix |-> "+", name |-> ""], [prefix |-> "+", name |-> "id"] >>,
    << [prefix |-> "", name |-> "secret"] >> }

MCAliases == [id |-> "id", rank |-> "rank"]

-----------------------------------------------------------------------------

MCInit ==
  /\ subject \in {"writes", "reads", "lists"}
  /\ QueryInit /\ (subject # "lists" => rows = {})
  /\ AdminSiteInit /\ (subject # "reads" => asker = "admin")
  /\ Init
  /\ subject # "writes" =>
       /\ isolation = "snapshot" /\ db = NoTable
       /\ \A r \in Requests : kind[r] = "delete" /\ user[r] = admin

MCNext ==
  \/ subject = "writes" /\ Next /\ UNCHANGED <<subject, adminSiteVars, queryVars>>
  \/ subject = "reads" /\ AdminSiteNext /\ UNCHANGED <<subject, vars, queryVars>>
  \/ subject = "lists" /\ QueryNext /\ UNCHANGED <<subject, vars, adminSiteVars>>

MCSpec == MCInit /\ [][MCNext]_allVars

\* Every part keeps its types.
MCTypeOK == TypeOK /\ AdminSiteTypeOK /\ QueryTypeOK

Symmetry == Permutations(Requests)
=============================================================================
