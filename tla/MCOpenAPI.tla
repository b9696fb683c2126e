------------------------------ MODULE MCOpenAPI ------------------------------
(* What the OpenAPI documents promise and the API does: how the documents are  *)
(* cached while routers are mounted, what mounting makes of a tree of routers, *)
(* what the options make of an operation, what model schemas select, and how a *)
(* request is bound. Each behaviour is of one of them, the others standing     *)
(* still in one of their initial states.                                       *)
EXTENDS MCOpenAPICache, RouterTree, OperationContract, ModelSchemas, Binding

VARIABLE subject

allVars == <<subject, vars, routerVars, contractVars, schemaVars, bindingVars>>

-----------------------------------------------------------------------------
(* Three routers of three kinds: with a prefix that is not well-formed, with   *)
(* a guard of its own, and with a shared prefix; three calls that add to them. *)

MCRoutings ==
  { [prefix |-> <<"a", "/">>, version |-> "v1", auth |-> "none"],
    [prefix |-> <<>>, version |-> "v2", auth |-> "enforced"],
    [prefix |-> <<"/", "a">>, version |-> Unreleased, auth |-> "documented"] }

MCReleasePrefix == "v1" :> <<>> @@ "v2" :> <<"w">>

\* An id may look like one that was made unique.
MCEndpoints ==
  { [method |-> "GET", path |-> <<"/", ":id">>, id |-> <<"get">>, hidden |-> FALSE],
    [method |-> "GET", path |-> <<>>, id |-> <<"get", 2>>, hidden |-> FALSE],
    [method |-> "POST", path |-> <<"/">>, id |-> <<"get">>, hidden |-> TRUE] }

-----------------------------------------------------------------------------
(* Handlers of every envelope, with three options each.                        *)

MCHandlers ==
  { [method |-> "GET", returns |-> returns] : returns \in {"model", "page", "cursor", "file"} }
    \cup { [method |-> "POST", returns |-> "model"], [method |-> "DELETE", returns |-> "nothing"] }

-----------------------------------------------------------------------------
(* Users and their posts refer to each other; another package has a Post too;  *)
(* author_title is one field, or two.                                          *)

StructOf(bare, custom, embeds, fields) ==
  [bare |-> bare, custom |-> custom, embeds |-> embeds, fields |-> fields]
FieldOf(go, tag, lower, of, gorm, access) ==
  [go |-> <<go>>, tag |-> tag, lower |-> <<lower>>, of |-> of, gorm |-> gorm, access |-> access]

MCStructs ==
  "Base" :> StructOf("Base", FALSE, <<>>,
    << FieldOf("ID", <<>>, "id", Scalar, {"primarykey"}, {}),
       FieldOf("CreatedAt", <<"created", "at">>, "createdAt", "time", {}, {}) >>)
  @@ "time" :> StructOf("Time", TRUE, <<>>, <<>>)
  @@ "User" :> StructOf("User", FALSE, <<"Base">>,
    << FieldOf("Name", <<"name">>, "name", Scalar, {}, {}),
       FieldOf("Secret", Hidden, "secret", Scalar, {}, {}),
       FieldOf("Password", <<"password">>, "password", Scalar, {}, {"writeonly", "createonly"}),
       FieldOf("Posts", <<"posts">>, "posts", "Post", {}, {}) >>)
  @@ "Post" :> StructOf("Post", FALSE, <<>>,
    << FieldOf("Title", <<"title">>, "title", Scalar, {}, {}),
       FieldOf("Author", <<"author">>, "author", "User", {}, {}),
       FieldOf("AuthorTitle", <<"author", "title">>, "authorTitle", Scalar, {}, {}) >>)
  @@ "other.Post" :> StructOf("Post", FALSE, <<>>,
    << FieldOf("Slug", <<"slug">>, "slug", Scalar, {}, {}) >>)

MCAlphabet ==
  << <<"AuthorTitle">>, <<"ID">>, <<"Secret">>, <<"author">>, <<"author", "title">>,
     <<"name">>, <<"posts">>, <<"slug">>, <<"title">> >>

Select(fields, exclude, mode, depth) ==
  [fields |-> fields, exclude |-> exclude, mode |-> mode, depth |-> depth]
Everything == Select({}, {}, "", 0)
Ask(t, selection) == [type |-> t, selection |-> selection, name |-> "", raw |-> FALSE]
AskPlain(t) == [Ask(t, Everything) EXCEPT !.raw = TRUE]

MCAsked ==
  { AskPlain("User"), AskPlain("Post"), AskPlain("other.Post"), Ask("Post", Everything),
    Ask("User", Select({}, {}, "output", 1)), Ask("User", Select({}, {}, "details", 2)),
    Ask("Post", Select({}, {}, "read", 2)), Ask("Post", Select({}, {<<"author">>}, "list", 1)),
    Ask("Post", Select({<<"author">>, <<"title">>}, {}, "", -1)),
    Ask("Post", Select({<<"author", "title">>}, {}, "", 0)),
    [Ask("User", Select({<<"Secret">>, <<"name">>}, {}, "read", 0)) EXCEPT !.name = "UserOut"] }

MCWriters ==
  { [type |-> "User", selection |-> Select({}, {}, "create", 0)],
    [type |-> "User", selection |-> Select({}, {}, "patch", 0)],
    [type |-> "Post", selection |-> Select({<<"title">>}, {}, "", 0)] }

MCBodies ==
  { <<"Name">> :> "sent" @@ <<"id">> :> "sent",
    <<"name">> :> "nil" @@ <<"Password">> :> "sent" @@ <<"title">> :> "sent" }

-----------------------------------------------------------------------------
(* Inputs with a tagged field, number or text, next to one of the body; form   *)
(* and file inputs; and one with several tags and tags "-".  *)

InputField(name, tags, dashed, json, default, required, number) ==
  [name |-> name, tags |-> tags, dashed |-> dashed, json |-> json, default |-> default,
   required |-> required, number |-> number]

MCInputs ==
  { [method |-> m,
     fields |-> << InputField("a", {place}, {}, TRUE, "value", FALSE, number),
                   InputField("b", {}, {}, TRUE, "none", TRUE, FALSE) >>] :
      m \in {"GET", "POST"}, place \in {"path", "header", "cookie", "query"}, number \in BOOLEAN }
  \cup
  { [method |-> "POST",
     fields |-> << InputField("a", {place}, {}, FALSE, "bad", FALSE, TRUE),
                   InputField("b", {"form"}, {}, FALSE, "none", TRUE, FALSE) >>] :
      place \in {"form", "file"} }
  \cup
  { [method |-> "PUT",
     fields |-> << InputField("a", {"header", "query"}, {"cookie"}, FALSE, "value", FALSE, TRUE),
                   InputField("b", {}, {"form"}, TRUE, "value", TRUE, FALSE) >>] }

-----------------------------------------------------------------------------

MCInit ==
  /\ subject \in {"cache", "routers", "operation", "schemas", "binding"}
  /\ Init /\ RouterInit /\ ContractInit /\ SchemaInit /\ BindingInit
  /\ subject # "operation" => contract.returns = "nothing"
  /\ subject # "binding" =>
       /\ input = CHOOSE i \in MCInputs : i.method = "PUT"
       /\ request.type = "none" /\ \A place \in DOMAIN request.says : request.says[place] = "absent"

\* A program may stop building, and a request is answered.
Ended ==
  /\ \/ subject \in {"routers", "schemas"}
     \/ subject = "operation" /\ phase \in {"answered", "panicked"}
     \/ subject = "binding" /\ stage = "done"
  /\ UNCHANGED allVars

MCNext ==
  \/ subject = "cache" /\ Next
       /\ UNCHANGED <<subject, routerVars, contractVars, schemaVars, bindingVars>>
  \/ subject = "routers" /\ RouterNext
       /\ UNCHANGED <<subject, vars, contractVars, schemaVars, bindingVars>>
  \/ subject = "operation" /\ ContractNext
       /\ UNCHANGED <<subject, vars, routerVars, schemaVars, bindingVars>>
  \/ subject = "schemas" /\ SchemaNext
       /\ UNCHANGED <<subject, vars, routerVars, contractVars, bindingVars>>
  \/ subject = "binding" /\ BindingNext
       /\ UNCHANGED <<subject, vars, routerVars, contractVars, schemaVars>>
  \/ Ended

MCSpec == MCInit /\ [][MCNext]_allVars

\* Every part keeps its types.
MCTypeOK == TypeOK /\ RouterTypeOK /\ ContractTypeOK /\ SchemaTypeOK /\ BindingTypeOK

\* What a client reads in the documents is so: of the operations, that they are
\* served as documented (ninja.go:240-241), and of the models, that their schemas are
\* those of their types (schema.go:44-167).
DocumentsKeepTheirWord == DocumentedAsServed /\ SchemasKeepTheirWord

Symmetry == Permutations(Nodes)
=============================================================================
