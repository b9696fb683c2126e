---------------------------- MODULE OpenAPICache ----------------------------
(***************************************************************************)
(* The routes of a NinjaAPI and the OpenAPI documents made from them       *)
(* (ninja.go, openapi_cache.go): AddRouter and UseGin under routesMu, the  *)
(* accepting flag that freezes the routes, and the documents that requests *)
(* build from the routes and keep in a cache under a mutex of its own. An  *)
(* API whose Handler is embedded in another server takes routers while it  *)
(* answers requests.                                                       *)
(***************************************************************************)
EXTENDS FiniteSets

CONSTANTS
  Routers,   \* what AddRouter can mount
  Versions,  \* the API versions
  VersionOf, \* the version a router belongs to, or Unversioned
  Unversioned,
  Adders,    \* goroutines that call AddRouter, each with one router at a time
  Readers    \* requests for a document

ASSUME RoutesAssumption ==
  /\ VersionOf \in [Routers -> Versions \cup {Unversioned}]
  /\ Unversioned \notin Versions \cup Routers
  /\ Adders \cap Readers = {}

VARIABLES
  mounted,       \* the routers whose routes are in the engine and the specs
  accepting,     \* serverState.accepting
  main, version, \* openAPICacheState: the documents, as sets of routers
  routesMu,      \* who holds routesMu: at most one writer, or some readers
  pc, job, doc   \* the goroutines: where, for what, with which document

cacheVars  == <<main, version>>
routeVars  == <<mounted, accepting>>
threadVars == <<pc, job, doc>>
vars == <<routeVars, cacheVars, routesMu, threadVars>>

Threads == Adders \cup Readers
Documents == SUBSET Routers
NoDocument == {Unversioned}  \* nil, which no document is
Main == Unversioned  \* the job of a reader of the main document

TypeOK ==
  /\ mounted \subseteq Routers /\ accepting \in BOOLEAN
  /\ main \in Documents \cup {NoDocument}
  /\ version \in [Versions -> Documents \cup {NoDocument}]
  /\ routesMu \subseteq Threads
  /\ pc \in [Threads -> {"idle", "missed", "built", "locked", "registered"}]
  /\ job \in [Threads -> Routers \cup Versions \cup {Unversioned}]
  /\ doc \in [Threads -> Documents \cup {NoDocument}]
  \* routesMu is held by one AddRouter, or by readers that build a version.
  /\ \A a \in Adders : a \in routesMu => routesMu = {a}
  /\ \A a \in Adders : pc[a] \in {"locked", "registered"} <=> a \in routesMu
  /\ \A g \in Readers : pc[g] = "built" /\ job[g] \in Versions <=> g \in routesMu

Init ==
  /\ mounted = {} /\ accepting = FALSE
  /\ main = NoDocument /\ version = [v \in Versions |-> NoDocument]
  /\ routesMu = {}
  /\ pc = [t \in Threads |-> "idle"]
  /\ job = [t \in Threads |-> Unversioned]
  /\ doc = [t \in Threads |-> NoDocument]

Goto(t, location) == pc' = [pc EXCEPT ![t] = location]

CanRead == routesMu \cap Adders = {}

\* The document spec.build makes of the routes there are.
Built(v) == IF v = Main THEN mounted ELSE {r \in mounted : VersionOf[r] = v}

-----------------------------------------------------------------------------
(* AddRouter, with routesMu held throughout.                               *)

\* While the server is running, or for a router that is mounted, AddRouter
\* panics and the deferred unlock leaves things as they were.
AddRouter(a, r) ==
  /\ pc[a] = "idle"
  /\ routesMu = {}
  /\ ~accepting /\ r \notin mounted
  /\ routesMu' = {a}
  /\ job' = [job EXCEPT ![a] = r]
  /\ Goto(a, "locked")
  /\ UNCHANGED <<routeVars, cacheVars, doc>>

RegisterRouter(a) ==
  /\ pc[a] = "locked" /\ a \in Adders
  /\ mounted' = mounted \cup {job[a]}
  /\ Goto(a, "registered")
  /\ UNCHANGED <<accepting, cacheVars, routesMu, job, doc>>

\* invalidateOpenAPICache and the deferred unlock.
Invalidate(a) ==
  /\ pc[a] = "registered"
  /\ main' = NoDocument /\ version' = [v \in Versions |-> NoDocument]
  /\ routesMu' = {}
  /\ Goto(a, "idle")
  /\ UNCHANGED <<routeVars, job, doc>>

\* A plausible bug: startAccepting takes only serverState.mu.
StartAcceptingUnlocked ==
  /\ ~accepting
  /\ accepting' = TRUE
  /\ UNCHANGED <<mounted, cacheVars, routesMu, threadVars>>

\* startAccepting, in Serve, waits for routesMu; clearServer does not.
StartAccepting ==
  /\ ~accepting
  /\ routesMu = {}
  /\ accepting' = TRUE
  /\ UNCHANGED <<mounted, cacheVars, routesMu, threadVars>>

ClearServer ==
  /\ accepting
  /\ accepting' = FALSE
  /\ UNCHANGED <<mounted, cacheVars, routesMu, threadVars>>

-----------------------------------------------------------------------------
(* openAPIBytes.                                                           *)

\* What a request is answered with, kept until its next request.
Answer(g, document) ==
  /\ doc' = [doc EXCEPT ![g] = document]
  /\ Goto(g, "idle")

MainHit(g) ==
  /\ pc[g] = "idle"
  /\ main # NoDocument
  /\ job' = [job EXCEPT ![g] = Main]
  /\ Answer(g, main)
  /\ UNCHANGED <<routeVars, cacheVars, routesMu>>

MainMiss(g) ==
  /\ pc[g] = "idle"
  /\ main = NoDocument
  /\ job' = [job EXCEPT ![g] = Main]
  /\ Goto(g, "missed")
  /\ UNCHANGED <<routeVars, cacheVars, routesMu, doc>>

\* The build under routesMu.RLock, which is given back before the document is
\* stored.
MainBuild(g) ==
  /\ pc[g] = "missed" /\ job[g] = Main
  /\ CanRead
  /\ doc' = [doc EXCEPT ![g] = Built(Main)]
  /\ Goto(g, "built")
  /\ UNCHANGED <<routeVars, cacheVars, routesMu, job>>

\* The first to store wins, the others answer with its document.
MainStore(g) ==
  /\ pc[g] = "built" /\ job[g] = Main
  /\ main' = IF main = NoDocument THEN doc[g] ELSE main
  /\ Answer(g, main')
  /\ UNCHANGED <<routeVars, version, routesMu, job>>

-----------------------------------------------------------------------------
(* versionOpenAPIBytes, which keeps the read lock until it has stored.     *)

VersionHit(g, v) ==
  /\ pc[g] = "idle"
  /\ version[v] # NoDocument
  /\ job' = [job EXCEPT ![g] = v]
  /\ Answer(g, version[v])
  /\ UNCHANGED <<routeVars, cacheVars, routesMu>>

VersionMiss(g, v) ==
  /\ pc[g] = "idle"
  /\ version[v] = NoDocument
  /\ job' = [job EXCEPT ![g] = v]
  /\ Goto(g, "missed")
  /\ UNCHANGED <<routeVars, cacheVars, routesMu, doc>>

\* A plausible bug: the lock is given back before the document is stored.
VersionBuildUnlocked(g) ==
  /\ pc[g] = "missed" /\ job[g] \in Versions
  /\ CanRead
  /\ IF Built(job[g]) = {} THEN Answer(g, NoDocument) /\ UNCHANGED routesMu
     ELSE /\ doc' = [doc EXCEPT ![g] = Built(job[g])]
          /\ Goto(g, "built")
          /\ UNCHANGED routesMu
  /\ UNCHANGED <<routeVars, cacheVars, job>>

\* A plausible bug: routesMu is not taken for a version at all.
VersionBuildUnguarded(g) ==
  /\ pc[g] = "missed" /\ job[g] \in Versions
  /\ IF Built(job[g]) = {} THEN Answer(g, NoDocument) /\ UNCHANGED routesMu
     ELSE /\ doc' = [doc EXCEPT ![g] = Built(job[g])]
          /\ Goto(g, "built")
          /\ routesMu' = routesMu \cup {g}
  /\ UNCHANGED <<routeVars, cacheVars, job>>

\* A version without routers has no spec: not found, and nothing is cached.
VersionBuild(g) ==
  /\ pc[g] = "missed" /\ job[g] \in Versions
  /\ CanRead
  /\ IF Built(job[g]) = {} THEN Answer(g, NoDocument) /\ UNCHANGED routesMu
     ELSE /\ doc' = [doc EXCEPT ![g] = Built(job[g])]
          /\ Goto(g, "built")
          /\ routesMu' = routesMu \cup {g}
  /\ UNCHANGED <<routeVars, cacheVars, job>>

VersionStore(g) ==
  LET v == job[g]
      kept == IF version[v] = NoDocument THEN doc[g] ELSE version[v]
  IN /\ pc[g] = "built" /\ v \in Versions
     /\ version' = [version EXCEPT ![v] = kept]
     /\ Answer(g, kept)
     /\ routesMu' = routesMu \ {g}
     /\ UNCHANGED <<routeVars, main, job>>

-----------------------------------------------------------------------------

AdderStep(a) == RegisterRouter(a) \/ Invalidate(a)

ReaderStep(g) ==
  MainBuild(g) \/ MainStore(g) \/ VersionBuild(g) \/ VersionStore(g)

Request(g) ==
  MainHit(g) \/ MainMiss(g) \/ \E v \in Versions : VersionHit(g, v) \/ VersionMiss(g, v)

Next ==
  \/ StartAccepting \/ ClearServer
  \/ \E a \in Adders : AdderStep(a) \/ \E r \in Routers : AddRouter(a, r)
  \/ \E g \in Readers : ReaderStep(g) \/ Request(g)

Spec == Init /\ [][Next]_vars

-----------------------------------------------------------------------------

\* The routes do not change under a running server: whatever AddRouter found
\* when it looked at accepting still holds when it registers the routes.
FrozenWhileAccepting == [][ mounted' # mounted => ~accepting /\ ~accepting' ]_vars

\* A document of a version that is in the cache lists every router mounted under
\* that version, but for the one that AddRouter is about to invalidate it for.
VersionDocumentFresh ==
  \A v \in Versions :
    version[v] # NoDocument =>
      version[v] = Built(v) \/ \E a \in Adders : pc[a] = "registered"

\* The comment of AddRouter: the operations of a mounted router are included in
\* the OpenAPI document. A document that was built before and is stored after
\* AddRouter has invalidated the cache leaves them out until the next AddRouter,
\* which may never come.
MountedIsDocumented ==
  (main # NoDocument /\ \A t \in Threads : pc[t] = "idle") => main = mounted
=============================================================================
