----------------------------- MODULE RouterTree ------------------------------
(***************************************************************************)
(* How a program builds its API: routers with prefixes, versions, guards   *)
(* and operations, nested into each other, shared between parents, and     *)
(* mounted one after the other; what gin then serves and what the OpenAPI  *)
(* documents say of it.                                                    *)
(*                                                                         *)
(* A path is a sequence of slashes and the names between them, so that     *)
(* concatenating two paths (the documents) and joining them (gin) differ.  *)
(* The server is not running yet: OpenAPICache models what a running one    *)
(* refuses.                                                                *)
(***************************************************************************)
EXTENDS Naturals, FiniteSets, SequencesExt

CONSTANTS
  Nodes,           \* the routers
  Routings,        \* what NewRouter is called with: [prefix, version, auth]
  Releases,        \* the API versions
  Retired,         \* those that Config.Versions says are deprecated
  ReleasePrefix,   \* the Prefix that Config.Versions gives each, or <<>>
  Endpoints,       \* operations: [method, path, id, hidden]
  MaxCalls         \* bound: calls that add to a router

ASSUME RoutersAssumption ==
  /\ IsFiniteSet(Nodes) /\ Routings # {}
  /\ \A endpoint \in Endpoints :
       /\ Len(endpoint.id) \in Nat
       /\ endpoint.id = [i \in 1..Len(endpoint.id) |-> endpoint.id[i]]

VARIABLES
  tree,       \* the routers, by name
  roots,      \* api.routers
  globals,    \* the middleware of the engine
  engine,     \* gin's routes
  documents,  \* the entries and the operation ids of each document
  started,    \* the routers have been made
  panicked    \* the program is gone

routerVars == <<tree, roots, globals, engine, documents, panicked, started>>

Unreleased == "unversioned"  \* the version of a router that has none, and the main document
Slash == "/"
NoEntries == [key \in {} |-> key]

\* NewRouter with its options; WithBearerAuth and the like document a scheme and
\* add the guard, WithSecurity documents it only.
Authentications == {"none", "documented", "enforced"}
NewRouter(routing) ==
  [prefix |-> routing.prefix, version |-> routing.version, auth |-> routing.auth,
   operations |-> <<>>, subrouters |-> <<>>, guarded |-> FALSE, mounted |-> FALSE]

\* setupInternalRoutes: the homepage, the document and its page, which needs it.
InternalRoutes ==
  {[method |-> "GET", path |-> <<Slash>>],
   [method |-> "GET", path |-> <<Slash, "openapi">>],
   [method |-> "GET", path |-> <<Slash, "docs">>]}

RouterTypeOK ==
  /\ \A r \in Nodes :
       /\ tree[r].version \in Releases \cup {Unreleased} /\ tree[r].auth \in Authentications
       /\ tree[r].guarded \in BOOLEAN /\ tree[r].mounted \in BOOLEAN
       /\ \A i \in DOMAIN tree[r].operations : tree[r].operations[i].endpoint \in Endpoints
       /\ \A i \in DOMAIN tree[r].subrouters : tree[r].subrouters[i] \in Nodes
  /\ roots \in Seq(Nodes) /\ globals \in Nat /\ panicked \in BOOLEAN
  /\ DOMAIN documents \subseteq Releases \cup {Unreleased}

RouterInit ==
  /\ tree = [r \in Nodes |-> NewRouter(CHOOSE routing \in Routings : TRUE)]
  /\ roots = <<>> /\ globals = 0 /\ panicked = FALSE /\ started = FALSE
  /\ engine = {[internal |-> TRUE, method |-> route.method, path |-> route.path] : route \in InternalRoutes}
  /\ documents = [d \in {Unreleased} |-> [entries |-> NoEntries, ids |-> {}]]

Calls == FoldSet(LAMBDA r, n : n + Len(tree[r].operations) + Len(tree[r].subrouters)
                                 + (IF tree[r].guarded THEN 1 ELSE 0), 0, Nodes)

-----------------------------------------------------------------------------
(* Paths.                                                                  *)

\* path.Join takes out the empty elements.
Collapse(path) ==
  FoldLeft(LAMBDA done, t : IF t = Slash /\ done # <<>> /\ Last(done) = Slash
                            THEN done ELSE Append(done, t), <<>>, path)

\* gin's joinPaths keeps the trailing slash of what it appends.
JoinPaths(base, path) == IF path = <<>> THEN base ELSE Collapse(base \o <<Slash>> \o path)

\* ginPathToOpenAPI: an element that starts with a colon is a parameter.
ParameterName(element) == IF element = ":id" THEN "{id}" ELSE element
GinPathToOpenAPI(path) ==
  [i \in DOMAIN path |-> IF i > 1 /\ path[i - 1] = Slash THEN ParameterName(path[i]) ELSE path[i]]

\* normalizeVersionConfig
VersionPrefix(release) ==
  IF ReleasePrefix[release] = <<>> THEN <<Slash, release>>
  ELSE IF Head(ReleasePrefix[release]) # Slash THEN <<Slash>> \o ReleasePrefix[release]
  ELSE ReleasePrefix[release]

-----------------------------------------------------------------------------
(* registerRouter: what a router adds to gin and to the documents, as the  *)
(* sequence of its registrations. A chain is the routers from the one that *)
(* is mounted down to the one that has the operation: what registerRouter  *)
(* hands on from level to level, as a function of them.                    *)

\* currentVersion
ChainVersion(chain) ==
  LET versioned == {i \in DOMAIN chain : tree[chain[i]].version # Unreleased}
  IN IF versioned = {} THEN Unreleased ELSE tree[chain[Max(versioned)]].version

\* startedVersionScope
Starts(chain, i) ==
  tree[chain[i]].version \notin {Unreleased, ChainVersion(SubSeq(chain, 1, i - 1))}

\* groupPrefix, of every level
GroupPrefixes(chain) ==
  [i \in DOMAIN chain |->
     (IF Starts(chain, i) THEN VersionPrefix(tree[chain[i]].version) ELSE <<>>) \o tree[chain[i]].prefix]

\* One operation, with the path, the version and the middleware of its group.
Registered(chain, operation) ==
  [internal |-> FALSE, method |-> operation.endpoint.method, operation |-> operation,
   path |-> JoinPaths(FoldLeft(JoinPaths, <<Slash>>, GroupPrefixes(chain)), operation.endpoint.path),
   written |-> GinPathToOpenAPI(FlattenSeq(GroupPrefixes(chain)) \o operation.endpoint.path),
   version |-> ChainVersion(chain), deprecated |-> ChainVersion(chain) \in Retired,
   middleware |-> {<<r, "guard">> : r \in {s \in ToSet(chain) : tree[s].guarded}}
                    \cup {<<r, "auth">> : r \in {s \in ToSet(chain) : tree[s].auth = "enforced"}},
   signals |-> {tree[chain[i]].version : i \in {k \in DOMAIN chain : Starts(chain, k)}} \cap Retired,
   above |-> ToSet(chain), globals |-> globals]

\* The operations of each router and then, after the chain that leads to them, those
\* of its sub-routers.
Own(s) == [i \in DOMAIN tree[s].operations |-> [chain |-> <<s>>, operation |-> tree[s].operations[i]]]
Under(s, found) ==
  [k \in DOMAIN found |-> [chain |-> <<s>> \o found[k].chain, operation |-> found[k].operation]]
Level(below) ==
  [s \in Nodes |->
     Own(s) \o FlattenSeq([i \in DOMAIN tree[s].subrouters |-> Under(s, below[tree[s].subrouters[i]])])]

\* A tree is no deeper than there are routers.
Found(r) ==
  LET walk[n \in 0..Cardinality(Nodes)] == Level(IF n = 0 THEN [s \in Nodes |-> <<>>] ELSE walk[n - 1])
  IN walk[Cardinality(Nodes)][r]

Registrations(r) ==
  LET found == Found(r)
  IN [k \in DOMAIN found |-> Registered(found[k].chain, found[k].operation)]

-----------------------------------------------------------------------------
(* addOperation: the documents.                                            *)

\* uniqueOperationID: the id, or the first of id_2, id_3, ... that is free. An id
\* that was given may have that form itself.
UniqueOperationID(ids, id) ==
  IF id \notin ids THEN id
  ELSE id \o <<CHOOSE i \in 2..Cardinality(ids) + 1 :
                 /\ id \o <<i>> \notin ids
                 /\ \A j \in 2..i - 1 : id \o <<j>> \in ids>>

AddOperation(document, registration) ==
  LET id == UniqueOperationID(document.ids, registration.operation.endpoint.id)
      key == <<registration.method, registration.written>>
      entry == [id |-> id, operation |-> registration.operation, version |-> registration.version,
                deprecated |-> registration.deprecated, above |-> registration.above]
  IN IF registration.operation.endpoint.hidden THEN document
     ELSE [entries |-> [k \in {key} \cup DOMAIN document.entries |->
                          IF k = key THEN entry ELSE document.entries[k]],
           ids |-> document.ids \cup {id}]

\* The main document, and that of the version, which is made when it is needed.
AddToDocuments(docs, registration) ==
  LET targets == {Unreleased, registration.version}
      before(d) == IF d \in DOMAIN docs THEN docs[d] ELSE [entries |-> NoEntries, ids |-> {}]
  IN [d \in targets \cup DOMAIN docs |->
        IF d \in targets THEN AddOperation(before(d), registration) ELSE docs[d]]

\* One registration after the other, up to the one at which gin panics.
DocumentsAfter(regs, last) ==
  LET after[k \in 0..Len(regs)] ==
        IF k = 0 THEN documents ELSE AddToDocuments(after[k - 1], regs[k])
  IN after[last]

-----------------------------------------------------------------------------
(* The calls of the program.                                               *)

\* The routers are made in one step: one that is not used yet makes no difference.
NewRouters ==
  /\ ~started /\ started' = TRUE
  /\ \E routing \in [Nodes -> Routings] : tree' = [r \in Nodes |-> NewRouter(routing[r])]
  /\ UNCHANGED <<roots, globals, engine, documents, panicked>>

\* assertNotMounted: every other call on a router that is mounted panics.
Building(r) == started /\ ~panicked /\ ~tree[r].mounted
Adding(r) == Building(r) /\ Calls < MaxCalls

\* Get, Post, Put, Patch, Delete. The security of the router, not that of the
\* routers above it, goes into the documentation.
RegisterOperation(r, endpoint) ==
  /\ Adding(r)
  /\ tree' = [tree EXCEPT ![r].operations =
       Append(@, [endpoint |-> endpoint, by |-> r, number |-> Len(@),
                  secured |-> tree[r].auth # "none"])]
  /\ UNCHANGED <<roots, globals, engine, documents, panicked, started>>

\* Router.Use and Router.UseGin, at any time before the router is mounted; once is
\* enough.
UseRouter(r) ==
  /\ Adding(r) /\ ~tree[r].guarded
  /\ tree' = [tree EXCEPT ![r].guarded = TRUE]
  /\ UNCHANGED <<roots, globals, engine, documents, panicked, started>>

\* Router.AddRouter keeps a reference: what the sub-router gets later counts.
AddSubrouter(r, sub) ==
  /\ Adding(r) /\ Building(sub)
  /\ tree' = [tree EXCEPT ![r].subrouters = Append(@, sub)]
  /\ UNCHANGED <<roots, globals, engine, documents, panicked, started>>

\* NinjaAPI.UseGin panics once a router has been mounted.
UseGlobal ==
  /\ started /\ ~panicked /\ roots = <<>> /\ globals = 0
  /\ globals' = 1
  /\ UNCHANGED <<tree, roots, engine, documents, panicked, started>>

Children(r) == ToSet(tree[r].subrouters)
Below(r) ==
  {s \in Nodes : \A closed \in SUBSET Nodes :
     Children(r) \cup UNION {Children(t) : t \in closed} \subseteq closed => s \in closed}

\* A plausible bug: only the router that is mounted is marked.
MarkRootMounted(r) == [tree EXCEPT ![r].mounted = TRUE]

\* markMounted
MarkMounted(r) == [s \in Nodes |-> IF s \in {r} \cup Below(r) THEN [tree[s] EXCEPT !.mounted = TRUE]
                                   ELSE tree[s]]

\* NinjaAPI.AddRouter. gin panics at the first route that it has already: the
\* operation is in the documents by then. A tree that contains itself is
\* registered until the stack overflows.
Mount(r) ==
  /\ Building(r)
  /\ roots' = Append(roots, r)
  /\ UNCHANGED <<globals, started>>
  /\ IF \E s \in {r} \cup Below(r) : s \in Below(s)
     THEN panicked' = TRUE /\ UNCHANGED <<tree, engine, documents>>
     ELSE LET regs == Registrations(r)
              route(x) == <<x.method, x.path>>
              conflicts == {i \in DOMAIN regs :
                 \/ route(regs[i]) \in {route(x) : x \in engine}
                 \/ \E j \in 1..i - 1 : route(regs[j]) = route(regs[i])}
              last == IF conflicts = {} THEN Len(regs) ELSE CHOOSE i \in conflicts : \A j \in conflicts : i <= j
          IN /\ documents' = DocumentsAfter(regs, last)
             /\ engine' = engine \cup {regs[i] : i \in 1..last \ conflicts}
             /\ panicked' = (conflicts # {})
             /\ tree' = IF conflicts = {} THEN MarkMounted(r) ELSE tree

RouterNext ==
  \/ NewRouters
  \/ \E r \in Nodes, e \in Endpoints : RegisterOperation(r, e)
  \/ \E r \in Nodes : UseRouter(r)
  \/ \E r, sub \in Nodes : AddSubrouter(r, sub)
  \/ UseGlobal
  \/ \E r \in Nodes : Mount(r)

RouterSpec == RouterInit /\ [][RouterNext]_routerVars

-----------------------------------------------------------------------------

Served == {route \in engine : ~route.internal}

\* Whenever and in whatever order the calls are made, a request to an operation
\* passes the middleware of every router on the way to it that there will ever be,
\* and all of the engine's: nothing is added after an operation has been mounted
\* (ninja.go:216-230, router.go:161-181).
RoutesAreGuarded ==
  \A route \in Served :
    /\ route.globals = globals
    /\ \A r \in route.above :
         /\ tree[r].guarded => <<r, "guard">> \in route.middleware
         /\ tree[r].auth = "enforced" => <<r, "auth">> \in route.middleware

\* Prefixes as the documentation writes them: none, or with a slash at the front and
\* none at the end.
WellFormed(routers) ==
  \A r \in routers : LET path == tree[r].prefix IN
    path = <<>> \/ (Head(path) = Slash /\ Last(path) # Slash)

\* ninja.go:240-241: operations are registered with gin and "included in the
\* OpenAPI spec": what the documents say is served, at that path, in that version,
\* by that operation, with the signals of a deprecated version; what is served is
\* documented. Under well-formed prefixes.
DocumentedAsServed ==
  ~panicked =>
    /\ \A d \in DOMAIN documents : \A key \in DOMAIN documents[d].entries :
         LET entry == documents[d].entries[key] IN WellFormed(entry.above) =>
           \E route \in Served :
             /\ route.method = key[1] /\ GinPathToOpenAPI(route.path) = key[2]
             /\ route.operation = entry.operation
             /\ d # Unreleased => route.version = d
             /\ entry.deprecated => route.version \in route.signals
    /\ \A route \in Served :
         ~route.operation.endpoint.hidden /\ WellFormed(route.above) =>
           \A d \in {Unreleased, route.version} :
             <<route.method, GinPathToOpenAPI(route.path)>> \in DOMAIN documents[d].entries

\* Clients are generated by operation id: no two operations of a document share
\* one, whatever ids and summaries were given (openapi.go:347-371).
OperationIDsUnique ==
  \A d \in DOMAIN documents :
    IsInjective([key \in DOMAIN documents[d].entries |-> documents[d].entries[key].id])

\* What is mounted is guarded as the program wrote it and has a name of its own.
MountedAsWritten == RoutesAreGuarded /\ OperationIDsUnique
=============================================================================
