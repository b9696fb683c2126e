--------------------------- MODULE EndpointProofs ---------------------------
(***************************************************************************)
(* What the client of an API meets. Its documents: FrozenWhileAccepting and*)
(* VersionDocumentFresh for any number of routers, versions, goroutines    *)
(* that add and requests that read; who holds routesMu, and what that keeps*)
(* from changing. Its parameters: those in a document are those that are   *)
(* read, InputsAreRead for any input struct. Its lists: ListsAreComplete   *)
(* for any table, filter, sort and pages.                                  *)
(***************************************************************************)
EXTENDS OpenAPICache, Binding, Query, FiniteSetTheorems, SequenceTheorems, LeastElements

\* An AddRouter that has begun found the server stopped, and keeps it from starting.
AcceptingLocksOut == accepting => routesMu \cap Adders = {}

\* It holds a router until it has registered it.
AddersHoldRouters == \A a \in Adders : pc[a] = "locked" => job[a] \in Routers

\* A reader with the lock has the document of the routes there are.
HeldIsBuilt == \A g \in Readers : g \in routesMu => doc[g] = Built(job[g])

RoutesInv ==
  /\ TypeOK
  /\ AcceptingLocksOut /\ AddersHoldRouters /\ HeldIsBuilt
  /\ VersionDocumentFresh

-----------------------------------------------------------------------------

\* A document is not the absence of one.
LEMMA DocumentsAreThere ==
  ASSUME mounted \subseteq Routers, NEW v
  PROVE  Built(v) \in Documents /\ Built(v) # NoDocument
  BY RoutesAssumption DEF Built, Documents, NoDocument

\* No routes, no documents, no goroutine under way.
LEMMA RoutesStart == Init => RoutesInv
  BY RoutesAssumption
  DEF Init, RoutesInv, TypeOK, AcceptingLocksOut, AddersHoldRouters, HeldIsBuilt,
      VersionDocumentFresh, Threads, NoDocument

-----------------------------------------------------------------------------
(* AddRouter and the server.                                               *)

\* It takes the lock and changes nothing else.
LEMMA AddRouterKeeps ==
  ASSUME RoutesInv, NEW a \in Adders, NEW r \in Routers, AddRouter(a, r)
  PROVE  RoutesInv'
<1>1. TypeOK'
  BY RoutesAssumption
  DEF RoutesInv, TypeOK, AddRouter, Goto, routeVars, cacheVars, Threads
<1>2. AcceptingLocksOut' /\ AddersHoldRouters' /\ HeldIsBuilt'
  BY RoutesAssumption
  DEF RoutesInv, TypeOK, AddRouter, Goto, routeVars, cacheVars, Threads, AcceptingLocksOut,
      AddersHoldRouters, HeldIsBuilt
<1>3. VersionDocumentFresh'
  BY RoutesAssumption
  DEF RoutesInv, TypeOK, AddRouter, Goto, routeVars, cacheVars, Threads, VersionDocumentFresh, Built
<1>. QED
  BY <1>1, <1>2, <1>3 DEF RoutesInv

\* While it registers no reader holds a document, and the cached ones are excused.
LEMMA RegisterKeeps ==
  ASSUME RoutesInv, NEW a \in Adders, RegisterRouter(a)
  PROVE  RoutesInv'
<1>1. routesMu = {a} /\ job[a] \in Routers
  BY DEF RoutesInv, TypeOK, RegisterRouter, AddersHoldRouters, Threads
<1>2. TypeOK'
  BY <1>1, RoutesAssumption
  DEF RoutesInv, TypeOK, RegisterRouter, Goto, cacheVars, Threads
<1>3. AcceptingLocksOut' /\ AddersHoldRouters' /\ HeldIsBuilt'
  BY <1>1, RoutesAssumption
  DEF RoutesInv, TypeOK, RegisterRouter, Goto, cacheVars, Threads, AcceptingLocksOut,
      AddersHoldRouters, HeldIsBuilt
<1>4. VersionDocumentFresh'
  BY DEF RoutesInv, TypeOK, RegisterRouter, Goto, Threads, VersionDocumentFresh
<1>. QED
  BY <1>2, <1>3, <1>4 DEF RoutesInv

\* Nothing is cached when the lock is given back.
LEMMA InvalidateKeeps ==
  ASSUME RoutesInv, NEW a \in Adders, Invalidate(a)
  PROVE  RoutesInv'
<1>1. routesMu = {a}
  BY DEF RoutesInv, TypeOK, Invalidate, Threads
<1>2. TypeOK'
  BY <1>1, RoutesAssumption
  DEF RoutesInv, TypeOK, Invalidate, Goto, routeVars, Threads
<1>3. AcceptingLocksOut' /\ AddersHoldRouters' /\ HeldIsBuilt'
  BY <1>1, RoutesAssumption
  DEF RoutesInv, TypeOK, Invalidate, Goto, routeVars, Threads, AcceptingLocksOut,
      AddersHoldRouters, HeldIsBuilt
<1>4. VersionDocumentFresh'
  BY DEF RoutesInv, TypeOK, Invalidate, VersionDocumentFresh
<1>. QED
  BY <1>2, <1>3, <1>4 DEF RoutesInv

\* startAccepting waits for routesMu, clearServer has nothing to wait for.
LEMMA ServerKeeps == RoutesInv /\ (StartAccepting \/ ClearServer) => RoutesInv'
<1>. SUFFICES ASSUME RoutesInv, StartAccepting \/ ClearServer PROVE RoutesInv'
  OBVIOUS
<1>1. /\ UNCHANGED <<mounted, main, version, routesMu, pc, job, doc>>
      /\ accepting' \in BOOLEAN /\ (accepting' => routesMu = {})
  BY DEF StartAccepting, ClearServer, cacheVars, threadVars
<1>2. TypeOK'
  BY <1>1 DEF RoutesInv, TypeOK
<1>3. AcceptingLocksOut' /\ AddersHoldRouters'
  BY <1>1 DEF RoutesInv, AcceptingLocksOut, AddersHoldRouters
<1>4. HeldIsBuilt' /\ VersionDocumentFresh'
  BY <1>1 DEF RoutesInv, HeldIsBuilt, VersionDocumentFresh, Built
<1>. QED
  BY <1>2, <1>3, <1>4 DEF RoutesInv

-----------------------------------------------------------------------------
(* Requests.                                                               *)

\* A reader that neither keeps a version nor takes the lock leaves the invariant alone.
LEMMA ReadersLeaveAlone ==
  ASSUME RoutesInv, NEW g \in Readers, g \notin routesMu',
         UNCHANGED <<mounted, accepting, version, routesMu>>,
         \A t \in Threads \ {g} : pc'[t] = pc[t] /\ job'[t] = job[t] /\ doc'[t] = doc[t]
  PROVE  AcceptingLocksOut' /\ AddersHoldRouters' /\ HeldIsBuilt' /\ VersionDocumentFresh'
<1>1. Adders \subseteq Threads \ {g}
  BY RoutesAssumption DEF Threads
<1>2. AcceptingLocksOut' /\ AddersHoldRouters'
  BY <1>1 DEF RoutesInv, AcceptingLocksOut, AddersHoldRouters
<1>3. HeldIsBuilt'
  BY DEF RoutesInv, HeldIsBuilt, Built, Threads
<1>4. VersionDocumentFresh'
  BY <1>1 DEF RoutesInv, VersionDocumentFresh, Built
<1>. QED
  BY <1>2, <1>3, <1>4

\* The main document is none of the version documents' business.
LEMMA MainKeeps ==
  ASSUME RoutesInv, NEW g \in Readers, MainHit(g) \/ MainMiss(g) \/ MainBuild(g) \/ MainStore(g)
  PROVE  RoutesInv'
<1>1. Built(Main) \in Documents
  BY DocumentsAreThere DEF RoutesInv, TypeOK
<1>2. g \notin routesMu
  BY RoutesAssumption
  DEF RoutesInv, TypeOK, MainHit, MainMiss, MainBuild, MainStore, Main
<1>3. TypeOK'
  <2>1. CASE MainHit(g)
    BY <2>1, <1>2, RoutesAssumption
    DEF RoutesInv, TypeOK, MainHit, Answer, Goto, routeVars, cacheVars, Threads, Main
  <2>2. CASE MainMiss(g)
    BY <2>2, <1>2, RoutesAssumption
    DEF RoutesInv, TypeOK, MainMiss, Goto, routeVars, cacheVars, Threads, Main
  <2>3. CASE MainBuild(g)
    BY <2>3, <1>1, <1>2, RoutesAssumption
    DEF RoutesInv, TypeOK, MainBuild, Goto, routeVars, cacheVars, Threads, Main
  <2>4. CASE MainStore(g)
    BY <2>4, <1>2, RoutesAssumption
    DEF RoutesInv, TypeOK, MainStore, Answer, Goto, routeVars, Threads, Main
  <2>. QED
    BY <2>1, <2>2, <2>3, <2>4
<1>4. /\ UNCHANGED <<mounted, accepting, version, routesMu>>
      /\ \A t \in Threads \ {g} : pc'[t] = pc[t] /\ job'[t] = job[t] /\ doc'[t] = doc[t]
  BY DEF RoutesInv, TypeOK, MainHit, MainMiss, MainBuild, MainStore, Answer, Goto, routeVars,
         cacheVars, Threads
<1>. QED
  BY <1>2, <1>3, <1>4, ReadersLeaveAlone DEF RoutesInv

\* A hit or a miss of a version leaves routes, cache and lock alone.
LEMMA LookupKeeps ==
  ASSUME RoutesInv, NEW g \in Readers, NEW v \in Versions, VersionHit(g, v) \/ VersionMiss(g, v)
  PROVE  RoutesInv'
<1>1. g \notin routesMu
  BY DEF RoutesInv, TypeOK, VersionHit, VersionMiss
<1>2. TypeOK'
  BY <1>1, RoutesAssumption
  DEF RoutesInv, TypeOK, VersionHit, VersionMiss, Answer, Goto, routeVars, cacheVars, Threads
<1>3. /\ UNCHANGED <<mounted, accepting, version, routesMu>>
      /\ \A t \in Threads \ {g} : pc'[t] = pc[t] /\ job'[t] = job[t] /\ doc'[t] = doc[t]
  BY DEF RoutesInv, TypeOK, VersionHit, VersionMiss, Answer, Goto, routeVars, cacheVars, Threads
<1>. QED
  BY <1>1, <1>2, <1>3, ReadersLeaveAlone DEF RoutesInv

\* The document is built from the routes there are, under the lock if it is to be kept.
LEMMA VersionBuildKeeps ==
  ASSUME RoutesInv, NEW g \in Readers, VersionBuild(g)
  PROVE  RoutesInv'
<1>1. Built(job[g]) \in Documents
  BY DocumentsAreThere DEF RoutesInv, TypeOK
<1>2. g \notin routesMu /\ routesMu \cap Adders = {}
  BY DEF RoutesInv, TypeOK, VersionBuild, CanRead
<1>3. TypeOK'
  BY <1>1, <1>2, RoutesAssumption
  DEF RoutesInv, TypeOK, VersionBuild, Answer, Goto, routeVars, cacheVars, Threads
<1>4. /\ UNCHANGED <<mounted, accepting, version>>
      /\ routesMu' \in {routesMu, routesMu \cup {g}}
      /\ g \in routesMu' => job'[g] = job[g] /\ doc'[g] = Built(job[g])
      /\ \A t \in Threads \ {g} : pc'[t] = pc[t] /\ job'[t] = job[t] /\ doc'[t] = doc[t]
  BY <1>2 DEF RoutesInv, TypeOK, VersionBuild, Answer, Goto, routeVars, cacheVars, Threads
<1>5. Adders \subseteq Threads \ {g}
  BY RoutesAssumption DEF Threads
<1>6. AcceptingLocksOut' /\ AddersHoldRouters'
  BY <1>4, <1>5 DEF RoutesInv, AcceptingLocksOut, AddersHoldRouters
<1>7. HeldIsBuilt'
  BY <1>4 DEF RoutesInv, HeldIsBuilt, Built, Threads
<1>8. VersionDocumentFresh'
  BY <1>4, <1>5 DEF RoutesInv, VersionDocumentFresh, Built
<1>. QED
  BY <1>3, <1>6, <1>7, <1>8 DEF RoutesInv

\* What is stored is what was built, since the lock was not given back meanwhile.
LEMMA VersionStoreKeeps ==
  ASSUME RoutesInv, NEW g \in Readers, VersionStore(g)
  PROVE  RoutesInv'
<1>1. g \in routesMu /\ routesMu \cap Adders = {} /\ doc[g] = Built(job[g])
  BY RoutesAssumption DEF RoutesInv, TypeOK, VersionStore, HeldIsBuilt
<1>2. doc[g] \in Documents \cup {NoDocument}
  BY DEF RoutesInv, TypeOK, Threads
<1>3. TypeOK'
  BY <1>1, <1>2, RoutesAssumption
  DEF RoutesInv, TypeOK, VersionStore, Answer, Goto, routeVars, Threads
<1>4. AcceptingLocksOut' /\ AddersHoldRouters' /\ HeldIsBuilt'
  BY <1>1, RoutesAssumption
  DEF RoutesInv, TypeOK, VersionStore, Answer, Goto, routeVars,
      Threads, AcceptingLocksOut, AddersHoldRouters, HeldIsBuilt, Built
<1>5. VersionDocumentFresh'
  <2>. DEFINE v == job[g]
  <2>1. /\ mounted' = mounted /\ v \in Versions
        /\ version' = [version EXCEPT ![v] = IF version[v] = NoDocument THEN Built(v) ELSE version[v]]
        /\ \A a \in Adders : pc'[a] = pc[a]
    BY <1>1, RoutesAssumption
    DEF RoutesInv, TypeOK, VersionStore, Answer, Goto, routeVars, Threads
  <2>2. ASSUME NEW w \in Versions PROVE version'[w] \in {version[w], Built(w)}
    BY <2>1 DEF RoutesInv, TypeOK
  <2>3. \A w \in Versions : Built(w)' = Built(w)
    BY <2>1 DEF Built
  <2>. QED
    BY <2>1, <2>2, <2>3 DEF RoutesInv, VersionDocumentFresh
<1>. QED
  BY <1>3, <1>4, <1>5 DEF RoutesInv

-----------------------------------------------------------------------------

\* One lemma for every action.
LEMMA RoutesStep == RoutesInv /\ [Next]_vars => RoutesInv'
<1>. SUFFICES ASSUME RoutesInv, [Next]_vars PROVE RoutesInv'
  OBVIOUS
<1>1. CASE StartAccepting \/ ClearServer
  BY <1>1, ServerKeeps
<1>2. ASSUME NEW a \in Adders, AdderStep(a) \/ \E r \in Routers : AddRouter(a, r) PROVE RoutesInv'
  BY <1>2, AddRouterKeeps, RegisterKeeps, InvalidateKeeps DEF AdderStep
<1>3. ASSUME NEW g \in Readers, ReaderStep(g) PROVE RoutesInv'
  BY <1>3, MainKeeps, VersionBuildKeeps, VersionStoreKeeps DEF ReaderStep
<1>4. ASSUME NEW g \in Readers, Request(g) PROVE RoutesInv'
  BY <1>4, MainKeeps, LookupKeeps DEF Request
<1>5. CASE UNCHANGED vars
  BY <1>5
  DEF RoutesInv, vars, routeVars, cacheVars, threadVars, TypeOK, Threads, AcceptingLocksOut,
      AddersHoldRouters, HeldIsBuilt, VersionDocumentFresh, Built
<1>. QED
  BY <1>1, <1>2, <1>3, <1>4, <1>5 DEF Next

\* The invariant holds in every reachable state.
THEOREM RoutesInvHolds == Spec => []RoutesInv
  BY RoutesStart, RoutesStep, PTL DEF Spec

\* The document of a version that a request gets from the cache is not stale: it lists
\* every router of the version, but for one whose AddRouter has not returned yet
\* (openapi_cache.go 46-77, ninja.go 242-256).
THEOREM VersionDocumentsAreFresh == Spec => []VersionDocumentFresh
  BY RoutesInvHolds, PTL DEF RoutesInv

\* The routes are frozen while the server accepts: nothing is registered after
\* startAccepting, however long AddRouter takes after it has looked
\* (ninja.go 242-256, lifecycle.go 164).
THEOREM RoutesAreFrozen == Spec => FrozenWhileAccepting
<1>1. RoutesInv /\ [Next]_vars => [mounted' # mounted => ~accepting /\ ~accepting']_vars
  <2>. SUFFICES ASSUME RoutesInv, Next, mounted' # mounted PROVE ~accepting /\ ~accepting'
    OBVIOUS
  <2>1. PICK a \in Adders : RegisterRouter(a)
    BY DEF Next, StartAccepting, ClearServer, AdderStep, AddRouter, Invalidate, ReaderStep, Request,
           MainHit, MainMiss, MainBuild, MainStore, VersionHit, VersionMiss, VersionBuild,
           VersionStore, routeVars
  <2>2. a \in routesMu
    BY <2>1 DEF RoutesInv, TypeOK, RegisterRouter
  <2>. QED
    BY <2>1, <2>2 DEF RoutesInv, AcceptingLocksOut, RegisterRouter
<1>. QED
  BY <1>1, RoutesInvHolds, PTL DEF Spec, FrozenWhileAccepting

-----------------------------------------------------------------------------
(* Binding: the parameters a document promises are those that are read.    *)

Fields == ToSet(input.fields)

\* What a field holds once the body is read, and once the defaults are in.
Body(f) ==
  IF BindsJSON /\ f.json /\ ~NonBody(f) /\ Said(f, "json") \in {"zero", "value"}
  THEN [from |-> "json", zero |-> Said(f, "json") = "zero"] ELSE Bound(f)

Final(f) ==
  IF f.default # "none" /\ Body(f).zero /\ AbsentAt(f)
  THEN [from |-> "default", zero |-> FALSE] ELSE Body(f)

\* Each stage leaves in every field what the request says of it, whatever it says of
\* the others, and an answer other than these two has bound nothing.
FieldsAreBound ==
  /\ stage \in {"received", "fields", "body", "defaults", "done"}
  /\ stage = "fields" => \A f \in Fields : bound[f.name] = Bound(f)
  /\ stage = "body" => \A f \in Fields : bound[f.name] = Body(f)
  /\ stage = "defaults" \/ (stage = "done" /\ status \in {0, 422}) =>
       \A f \in Fields : bound[f.name] = Final(f)

BindingInv ==
  /\ input \in Inputs
  /\ DOMAIN bound = {f.name : f \in Fields}
  /\ FieldsAreBound

-----------------------------------------------------------------------------

\* A field is found by its name.
LEMMA FoundByName ==
  ASSUME input \in Inputs, NEW f \in Fields
  PROVE  (CHOOSE g \in Fields : g.name = f.name) = f
  BY InputsAssumption DEF Fields

\* Nothing is bound at first.
LEMMA BindingStarts == BindingInit => BindingInv
  BY DEF BindingInit, BindingInv, FieldsAreBound, Fields

\* What a request says does not change.
LEMMA RequestStands ==
  ASSUME UNCHANGED <<input, request>>
  PROVE  \A f : Body(f)' = Body(f) /\ Bound(f)' = Bound(f) /\ Final(f)' = Final(f)
  BY DEF Final, AbsentAt, Body, BindsJSON, Bound, Giving, Read, NamedDash, Said, FormBody,
         Multipart, BodyMethod

\* bindRequestFields gives every field what its places say.
LEMMA FieldsGetTheirs ==
  ASSUME BindingInv, BindRequestFields
  PROVE  BindingInv'
<1>1. CASE Fail(400)
  BY <1>1 DEF BindRequestFields, Fail, BindingInv, FieldsAreBound, Fields
<1>2. CASE SetAll(Bound) /\ stage' = "fields"
  <2>1. /\ SetAll(Bound) /\ stage' = "fields" /\ UNCHANGED <<input, request>>
    BY <1>2 DEF BindRequestFields
  <2>2. DOMAIN bound' = DOMAIN bound
    BY <2>1 DEF SetAll
  <2>3. ASSUME NEW f \in Fields PROVE bound'[f.name] = Bound(f)
    <3>1. bound'[f.name] = Bound(CHOOSE g \in Fields : g.name = f.name)
      BY <2>1 DEF SetAll, BindingInv, Fields
    <3>. QED
      BY <3>1, FoundByName DEF BindingInv
  <2>4. \A f \in Fields : Bound(f)' = Bound(f)
    BY <2>1, RequestStands
  <2>. QED
    BY <2>1, <2>2, <2>3, <2>4 DEF BindingInv, FieldsAreBound, Fields
<1>. QED
  BY <1>1, <1>2 DEF BindRequestFields

\* The body sets what has no tag, and leaves the rest alone.
LEMMA BodyAdds ==
  ASSUME BindingInv, BindJSON
  PROVE  BindingInv'
<1>1. stage = "fields" /\ UNCHANGED <<input, request>>
  BY DEF BindJSON
<1>2. ASSUME NEW code \in {400, 413}, Fail(code) PROVE BindingInv'
  BY <1>1, <1>2 DEF Fail, BindingInv, FieldsAreBound, Fields
<1>3. CASE BindsJSON /\ SetAll(Decoded) /\ stage' = "body"
  <2>1. DOMAIN bound' = DOMAIN bound
    BY <1>3 DEF SetAll
  <2>2. ASSUME NEW f \in Fields PROVE bound'[f.name] = Body(f)
    <3>1. bound'[f.name] = Decoded(CHOOSE g \in Fields : g.name = f.name)
      BY <1>3 DEF SetAll, BindingInv, Fields
    <3>2. bound'[f.name] = Decoded(f)
      BY <3>1, FoundByName DEF BindingInv
    <3>. QED
      BY <1>1, <1>3, <3>2 DEF Decoded, Body, BindingInv, FieldsAreBound
  <2>. QED
    BY <1>1, <1>3, <2>1, <2>2, RequestStands DEF BindingInv, FieldsAreBound, Fields
<1>4. CASE ~ BindsJSON /\ stage' = "body" /\ UNCHANGED bound
  <2>1. \A f \in Fields : Body(f) = Bound(f)
    BY <1>4 DEF Body
  <2>. QED
    BY <1>1, <1>4, <2>1, RequestStands DEF BindingInv, FieldsAreBound, Fields
<1>. QED
  BY <1>2, <1>3, <1>4 DEF BindJSON

\* Defaults look at the field and at the request only.
LEMMA DefaultsFillIn ==
  ASSUME BindingInv, ApplyDefaults
  PROVE  BindingInv'
<1>1. stage = "body" /\ UNCHANGED <<input, request>>
  BY DEF ApplyDefaults
<1>2. CASE Fail(400)
  BY <1>1, <1>2 DEF Fail, BindingInv, FieldsAreBound, Fields
<1>3. CASE SetAll(Defaulted) /\ stage' = "defaults"
  <2>1. DOMAIN bound' = DOMAIN bound
    BY <1>3 DEF SetAll
  <2>2. ASSUME NEW f \in Fields PROVE bound'[f.name] = Final(f)
    <3>1. bound'[f.name] = Defaulted(CHOOSE g \in Fields : g.name = f.name)
      BY <1>3 DEF SetAll, BindingInv, Fields
    <3>2. bound'[f.name] = Defaulted(f)
      BY <3>1, FoundByName DEF BindingInv
    <3>. QED
      BY <1>1, <3>2, ZenonT(40) DEF Defaulted, Final, BindingInv, FieldsAreBound
  <2>. QED
    BY <1>1, <1>3, <2>1, <2>2, RequestStands DEF BindingInv, FieldsAreBound, Fields
<1>. QED
  BY <1>2, <1>3 DEF ApplyDefaults

\* bindInput keeps each field as its request says.
LEMMA BindingSteps == BindingInv /\ [BindingNext]_bindingVars => BindingInv'
<1>. SUFFICES ASSUME BindingInv, [BindingNext]_bindingVars
             PROVE  BindingInv'
  OBVIOUS
<1>1. CASE Validate
  <2>1. stage = "defaults" /\ stage' = "done" /\ UNCHANGED <<input, request, bound>>
    BY <1>1 DEF Validate
  <2>. QED
    BY <2>1, RequestStands DEF BindingInv, FieldsAreBound, Fields
<1>2. CASE UNCHANGED bindingVars
  <2>1. UNCHANGED <<input, request, bound, stage, status>>
    BY <1>2 DEF bindingVars
  <2>. QED
    BY <2>1, RequestStands DEF BindingInv, FieldsAreBound, Fields
<1>. QED
  BY <1>1, <1>2, FieldsGetTheirs, BodyAdds, DefaultsFillIn DEF BindingNext

\* Between the stages of bindInput, whatever the input struct and the request are.
THEOREM BindingInvHolds == BindingSpec => []BindingInv
  BY BindingStarts, BindingSteps, PTL DEF BindingSpec

-----------------------------------------------------------------------------
(* Fields with one tag, or none.                                           *)

\* Such a field has the tag that it has.
LEMMA OneTag ==
  ASSUME NEW f, OnePlace(f), IsFiniteSet(f.tags), NEW place \in f.tags
  PROVE  f.tags = {place} /\ f.dashed = {}
<1>1. f.dashed = {} /\ f.tags \cup f.dashed = f.tags
  BY DEF OnePlace
<1>2. Cardinality(f.tags) <= 1
  BY <1>1 DEF OnePlace
<1>3. f.tags # {} => Cardinality(f.tags) # 0
  BY FS_EmptySet
<1>4. Cardinality(f.tags) = 1
  <2>1. Cardinality(f.tags) \in Nat
    BY FS_CardinalityType
  <2>. QED
    BY <1>2, <1>3, <2>1
<1>5. \E other : f.tags = {other}
  BY <1>4, FS_Singleton
<1>. QED
  BY <1>1, <1>5

\* What such a field gets from its place, if it is read.
LEMMA OneIsBound ==
  ASSUME NEW f, NEW place \in ToSet(Places), f.tags = {place}, f.dashed = {}
  PROVE  Bound(f) = IF place \in Read(f) /\ Taken(place, Said(f, place))
                    THEN [from |-> place, zero |-> Said(f, place) \in {"empty", "zero"}]
                    ELSE Untouched
<1>1. PICK i \in DOMAIN Places : Places[i] = place
  BY DEF ToSet
<1>2. i \in 1..6 /\ \A j \in DOMAIN Places : Places[j] = place => j = i
  BY <1>1 DEF Places
<1>3. Read(f) \subseteq {place}
  BY DEF Read, NamedDash
<1>4. CASE place \in Read(f) /\ Taken(place, Said(f, place))
  <2>1. Giving(f) = {i}
    BY <1>1, <1>2, <1>3, <1>4 DEF Giving
  <2>2. Max(Giving(f)) = i
    BY <1>2, <2>1 DEF Max
  <2>. QED
    BY <1>1, <1>4, <2>1, <2>2 DEF Bound
<1>5. CASE ~ (place \in Read(f) /\ Taken(place, Said(f, place)))
  <2>1. Giving(f) = {}
    BY <1>3, <1>5 DEF Giving
  <2>. QED
    BY <1>5, <2>1 DEF Bound
<1>. QED
  BY <1>4, <1>5

\* The places and what is there.
LEMMA FieldsAreOfPlaces ==
  ASSUME input \in Inputs, NEW f \in Fields
  PROVE  f.tags \subseteq ToSet(Places) /\ IsFiniteSet(f.tags)
<1>1. f.tags \subseteq ToSet(Places)
  BY InputsAssumption DEF Fields
<1>2. ToSet(Places) = {"path", "header", "cookie", "query", "form", "file"}
  BY DEF ToSet, Places
<1>3. IsFiniteSet({"path", "header", "cookie", "query", "form", "file"})
  <2>1. \A S, x : IsFiniteSet(S) => IsFiniteSet(S \cup {x})
    BY FS_AddElement
  <2>2. IsFiniteSet(((((({} \cup {"path"}) \cup {"header"}) \cup {"cookie"}) \cup {"query"})
                       \cup {"form"}) \cup {"file"})
    BY <2>1, FS_EmptySet, Zenon
  <2>. QED
    BY <2>2
<1>. QED
  BY <1>1, <1>2, <1>3, FS_Subset

\* A field gets nothing but what is where it is documented, and that also when it
\* has a default.
ReadAsDocumented(f) ==
  /\ Body(f).from \in {DocumentedAt(f), "nothing"}
  /\ (DocumentedAt(f) # "nowhere" /\ request.type = DocumentedType
        /\ Said(f, DocumentedAt(f)) = "value")
       => Body(f).from = DocumentedAt(f) /\ Final(f) = Body(f)

\* A field without tags is of the body, and of nothing else.
LEMMA BodyFieldsAreRead ==
  ASSUME NEW f \in Fields, f.tags = {}, f.dashed = {}, OneKindOfBody,
         request.type \in {DocumentedType, "none"}
  PROVE  ReadAsDocumented(f)
<1>1. Read(f) = {} /\ Giving(f) = {} /\ Bound(f) = Untouched /\ ~ AbsentAt(f) /\ ~ NonBody(f)
  BY DEF Read, NamedDash, Giving, Bound, AbsentAt, NonBody
<1>2. Final(f) = Body(f)
  BY <1>1 DEF Final
<1>3. DocumentedAt(f) = IF BodyMethod /\ f.json THEN "json" ELSE "nowhere"
  BY DEF DocumentedAt
<1>4. BodyMethod /\ f.json => DocumentedType = "json"
  BY <1>1 DEF OneKindOfBody, DocumentedType, Fields
<1>5. (BodyMethod /\ f.json /\ request.type = DocumentedType) => BindsJSON
  BY <1>4 DEF BindsJSON, Multipart, FormBody
<1>. QED
  BY <1>1, <1>2, <1>3, <1>5 DEF Body, Untouched, BindsJSON, ReadAsDocumented

\* A field with a tag is read there, whenever it is documented there.
LEMMA TaggedFieldsAreRead ==
  ASSUME NEW f \in Fields, NEW place \in ToSet(Places), f.tags = {place}, f.dashed = {},
         request.type \in {DocumentedType, "none"}
  PROVE  ReadAsDocumented(f)
<1>1. place \in {"path", "header", "cookie", "query", "form", "file"}
  BY DEF ToSet, Places
<1>2. Body(f) = Bound(f)
  BY DEF Body, NonBody
<1>3. DocumentedAt(f) = IF place \in {"form", "file"} /\ ~ BodyMethod THEN "nowhere" ELSE place
  BY <1>1 DEF DocumentedAt
<1>4. place \in {"form", "file"} /\ ~ BodyMethod => place \notin Read(f)
  <2>1. ~ BodyMethod => request.type = "none"
    BY DEF DocumentedType
  <2>. QED
    BY <2>1 DEF Read, NamedDash, FormBody, Multipart
<1>5. BodyMethod /\ request.type = DocumentedType => place \in Read(f)
  <2>1. CASE place \in {"path", "header", "cookie", "query"}
    BY <2>1 DEF Read
  <2>2. CASE place = "form"
    <3>1. HasFormFields
      BY <2>2 DEF HasFormFields, Fields
    <3>. QED
      BY <2>2, <3>1 DEF DocumentedType, Read, FormBody, Multipart
  <2>3. CASE place = "file"
    <3>1. IsMultipart
      BY <2>3 DEF IsMultipart, Fields
    <3>. QED
      BY <2>3, <3>1 DEF DocumentedType, Read, Multipart
  <2>. QED
    BY <1>1, <2>1, <2>2, <2>3
<1>6. place \in {"path", "header", "cookie", "query"} => place \in Read(f)
  BY DEF Read
<1>7. Said(f, place) = "value" => Taken(place, Said(f, place)) /\ Said(f, place) \notin {"empty", "zero"}
  BY DEF Taken
<1>8. Bound(f).from \in {DocumentedAt(f), "nothing"}
  BY <1>1, <1>3, <1>4, OneIsBound DEF Untouched
<1>9. ASSUME DocumentedAt(f) # "nowhere", request.type = DocumentedType,
             Said(f, DocumentedAt(f)) = "value"
      PROVE  Bound(f).from = DocumentedAt(f) /\ ~ Bound(f).zero
  <2>1. DocumentedAt(f) = place /\ (place \in {"form", "file"} => BodyMethod)
    BY <1>3, <1>9
  <2>2. place \in Read(f)
    BY <1>1, <1>5, <1>6, <1>9, <2>1
  <2>3. Bound(f) = [from |-> place, zero |-> Said(f, place) \in {"empty", "zero"}]
    BY <1>7, <1>9, <2>1, <2>2, OneIsBound
  <2>4. Said(f, place) \notin {"empty", "zero"}
    BY <1>7, <1>9, <2>1
  <2>5. (Said(f, place) \in {"empty", "zero"}) = FALSE
    BY <2>4
  <2>6. Bound(f) = [from |-> place, zero |-> FALSE]
    BY <2>3, <2>5, Zenon
  <2>. QED
    BY <2>1, <2>6
<1>. QED
  BY <1>2, <1>8, <1>9 DEF Final, ReadAsDocumented

\* A zero that a field was given leaves no room for its default.
LEMMA ZerosAreKept ==
  ASSUME NEW f, NEW place \in ToSet(Places), f.tags = {place}, f.dashed = {},
         place \in Read(f), Said(f, place) = "zero"
  PROVE  Final(f).from # "default"
<1>1. place \in {"path", "header", "cookie", "query", "form", "file"}
  BY DEF ToSet, Places
<1>2. Body(f) = Bound(f)
  BY DEF Body, NonBody
<1>3. Bound(f).from = place
  BY OneIsBound DEF Taken
<1>4. ~ AbsentAt(f)
  BY <1>1 DEF AbsentAt, Read, FormBody, Multipart
<1>. QED
  BY <1>1, <1>2, <1>3, <1>4 DEF Final

\* A handler gets what the request says where the document says it, and defaults for
\* nothing else.
THEOREM DocumentedInputsAreRead == BindingSpec => []InputsAreRead
<1>1. BindingInv => DocumentedIsRead
  <2>. SUFFICES ASSUME BindingInv, stage \in {"body", "defaults", "done"}, status \in {0, 422},
                      OneKindOfBody, request.type \in {DocumentedType, "none"},
                      NEW f \in Fields, OnePlace(f)
               PROVE  /\ bound[f.name].from \in {DocumentedAt(f), "nothing", "default"}
                      /\ (DocumentedAt(f) # "nowhere" /\ request.type = DocumentedType
                            /\ Said(f, DocumentedAt(f)) = "value")
                           => bound[f.name].from = DocumentedAt(f)
    BY DEF DocumentedIsRead, Fields
  <2>1. f.dashed = {} /\ (f.tags = {} \/ \E place \in ToSet(Places) : f.tags = {place})
    BY OneTag, FieldsAreOfPlaces DEF OnePlace, BindingInv
  <2>2. ReadAsDocumented(f)
    BY <2>1, BodyFieldsAreRead, TaggedFieldsAreRead
  <2>3. bound[f.name] \in {Body(f), Final(f)}
    BY DEF BindingInv, FieldsAreBound
  <2>4. Final(f) = Body(f) \/ Final(f).from = "default"
    BY DEF Final
  <2>. QED
    BY <2>2, <2>3, <2>4 DEF ReadAsDocumented
<1>2. BindingInv => GivenZeroIsKept
  <2>. SUFFICES ASSUME BindingInv, stage \in {"defaults", "done"}, status \in {0, 422},
                      NEW f \in Fields, OnePlace(f),
                      NEW place \in Read(f), Said(f, place) = "zero"
               PROVE  bound[f.name].from # "default"
    BY DEF GivenZeroIsKept, Fields
  <2>1. place \in f.tags /\ f.dashed = {}
    BY DEF Read, NamedDash, OnePlace
  <2>2. f.tags = {place} /\ place \in ToSet(Places)
    BY <2>1, OneTag, FieldsAreOfPlaces DEF BindingInv
  <2>. QED
    BY <2>1, <2>2, ZerosAreKept DEF BindingInv, FieldsAreBound
<1>. QED
  BY <1>1, <1>2, BindingInvHolds, PTL DEF InputsAreRead

-----------------------------------------------------------------------------
(* Lists: what the database answers.                                       *)

\* An answer lists all rows that were found, each once, in its order.
LEMMA AnswersListTheFound ==
  ASSUME NEW found, IsFiniteSet(found), NEW order, NEW list \in AnswerOrders(found, order)
  PROVE  /\ list \in Seq(found) /\ Len(list) = Cardinality(found) /\ Len(list) \in Nat
         /\ DOMAIN list = 1..Len(list)
         /\ \A i, j \in 1..Len(list) : list[i] = list[j] => i = j
         /\ \A row \in found : \E i \in 1..Len(list) : list[i] = row
         /\ \A i, j \in 1..Len(list) : i < j => ~ComesBefore(order, list[j], list[i])
<1>. DEFINE n == Cardinality(found)
<1>1. n \in Nat
  BY FS_CardinalityType
<1>2. /\ list \in [1..n -> found] /\ \A i, j \in 1..n : i # j => list[i] # list[j]
      /\ \A i, j \in DOMAIN list : i < j => ~ComesBefore(order, list[j], list[i])
  BY DEF AnswerOrders, SetToSeqs
<1>. HIDE DEF n
<1>3. list \in Seq(found) /\ Len(list) = n /\ DOMAIN list = 1..n
  BY <1>1, <1>2
<1>4. list \in Injection(1..n, found)
  BY <1>2 DEF Injection, IsInjective
<1>5. Cardinality(1..n) = n /\ IsFiniteSet(1..n)
  BY <1>1, FS_Interval
<1>6. list \in Surjection(1..n, found)
  BY <1>4, <1>5, FS_Injection DEF n
<1>7. \A row \in found : \E i \in 1..n : list[i] = row
  BY <1>6 DEF Surjection
<1>. QED
  BY <1>1, <1>2, <1>3, <1>7 DEF n

\* ORDER BY the cursor column, up or down.
LEMMA RankOrders ==
  ASSUME NEW desc \in BOOLEAN, NEW a, NEW b
  PROVE  ComesBefore(<<[column |-> "rank", desc |-> desc]>>, a, b)
           <=> IF desc THEN a.rank > b.rank ELSE a.rank < b.rank
<1>. DEFINE order == <<[column |-> "rank", desc |-> desc]>>
<1>1. DOMAIN order = {1} /\ order[1].column = "rank" /\ order[1].desc = desc
  OBVIOUS
<1>2. \A j \in 1..(1 - 1) : FALSE
  OBVIOUS
<1>. HIDE DEF order
<1>3. ComesBefore(order, a, b) <=> IF desc THEN a["rank"] > b["rank"] ELSE a["rank"] < b["rank"]
  BY <1>1, <1>2 DEF ComesBefore
<1>. QED
  BY <1>3 DEF order

\* A concatenation names what its parts name, and is injective when they are and have
\* nothing in common.
LEMMA JoinedNames ==
  ASSUME NEW S, NEW s \in Seq(S), NEW t \in Seq(S)
  PROVE  /\ s \o t \in Seq(S) /\ ToSet(s \o t) = ToSet(s) \cup ToSet(t) /\ Len(s \o t) = Len(s) + Len(t)
         /\ IsInjective(s) /\ IsInjective(t) /\ ToSet(s) \cap ToSet(t) = {} => IsInjective(s \o t)
<1>1. /\ s \o t \in Seq(S) /\ Len(s \o t) = Len(s) + Len(t) /\ Len(s) \in Nat /\ Len(t) \in Nat
      /\ DOMAIN s = 1..Len(s) /\ DOMAIN t = 1..Len(t) /\ DOMAIN (s \o t) = 1..(Len(s) + Len(t))
      /\ \A i \in 1..Len(s) : (s \o t)[i] = s[i]
      /\ \A i \in 1..Len(t) : (s \o t)[Len(s) + i] = t[i]
  OBVIOUS
<1>2. \A i \in DOMAIN (s \o t) : i \in DOMAIN s \/ (i - Len(s) \in DOMAIN t /\ (s \o t)[i] = t[i - Len(s)])
  <2>1. ASSUME NEW i \in 1..(Len(s) + Len(t)), i \notin 1..Len(s)
        PROVE  i - Len(s) \in 1..Len(t) /\ i = Len(s) + (i - Len(s))
    BY <1>1, <2>1
  <2>. QED
    BY <1>1, <2>1
<1>3. ASSUME NEW x \in ToSet(s \o t) PROVE x \in ToSet(s) \cup ToSet(t)
  <2>1. PICK i \in DOMAIN (s \o t) : x = (s \o t)[i]
    BY <1>3 DEF ToSet
  <2>2. (i \in DOMAIN s /\ x = s[i]) \/ (i - Len(s) \in DOMAIN t /\ x = t[i - Len(s)])
    BY <1>1, <1>2, <2>1
  <2>. QED
    BY <2>2 DEF ToSet
<1>4. ASSUME NEW x \in ToSet(s) PROVE x \in ToSet(s \o t)
  <2>1. PICK i \in DOMAIN s : x = s[i]
    BY <1>4 DEF ToSet
  <2>2. i \in DOMAIN (s \o t) /\ (s \o t)[i] = x
    BY <1>1, <2>1
  <2>. QED
    BY <2>2 DEF ToSet
<1>5. ASSUME NEW x \in ToSet(t) PROVE x \in ToSet(s \o t)
  <2>1. PICK i \in DOMAIN t : x = t[i]
    BY <1>5 DEF ToSet
  <2>2. Len(s) + i \in DOMAIN (s \o t) /\ (s \o t)[Len(s) + i] = x
    BY <1>1, <2>1
  <2>. QED
    BY <2>2 DEF ToSet
<1>6. ASSUME IsInjective(s), IsInjective(t), ToSet(s) \cap ToSet(t) = {},
             NEW a \in DOMAIN (s \o t), NEW b \in DOMAIN (s \o t), (s \o t)[a] = (s \o t)[b]
      PROVE  a = b
  <2>1. CASE a \in DOMAIN s /\ b \in DOMAIN s
    <3>1. s[a] = s[b]
      BY <1>1, <1>6, <2>1
    <3>. QED
      BY <1>6, <2>1, <3>1 DEF IsInjective
  <2>2. CASE a \notin DOMAIN s /\ b \notin DOMAIN s
    <3>1. a - Len(s) \in DOMAIN t /\ b - Len(s) \in DOMAIN t /\ t[a - Len(s)] = t[b - Len(s)]
      BY <1>2, <1>6, <2>2
    <3>2. a - Len(s) = b - Len(s)
      BY <1>6, <3>1 DEF IsInjective
    <3>. QED
      BY <1>1, <3>2
  <2>3. CASE a \in DOMAIN s /\ b \notin DOMAIN s
    <3>1. s[a] = t[b - Len(s)] /\ b - Len(s) \in DOMAIN t
      BY <1>1, <1>2, <1>6, <2>3
    <3>2. s[a] \in ToSet(s) \cap ToSet(t)
      BY <2>3, <3>1 DEF ToSet
    <3>. QED
      BY <1>6, <3>2
  <2>4. CASE a \notin DOMAIN s /\ b \in DOMAIN s
    <3>1. s[b] = t[a - Len(s)] /\ a - Len(s) \in DOMAIN t
      BY <1>1, <1>2, <1>6, <2>4
    <3>2. s[b] \in ToSet(s) \cap ToSet(t)
      BY <2>4, <3>1 DEF ToSet
    <3>. QED
      BY <1>6, <3>2
  <2>. QED
    BY <2>1, <2>2, <2>3, <2>4
<1>7. IsInjective(s) /\ IsInjective(t) /\ ToSet(s) \cap ToSet(t) = {} => IsInjective(s \o t)
  BY <1>6 DEF IsInjective
<1>. QED
  BY <1>1, <1>3, <1>4, <1>5, <1>7

-----------------------------------------------------------------------------
(* The inductive invariant.                                                *)

Listings ==
  [how : {"", "pages", "cursor"}, filter : Filters \cup {<<>>}, sort : Sorts \cup {<<>>},
   desc : BOOLEAN, size : Int, page : Int, first : Int, cursor : Int,
   at : {"idle", "asked", "more", "done", "refused", "failed"},
   got : Seq(TableRows), pages : Int]

ListingOK ==
  /\ rows \subseteq TableRows /\ stayed \subseteq rows /\ changes \in Nat
  /\ changes = 0 /\ listing.at # "idle" => stayed = rows
  /\ listing \in Listings

\* A row is past a cursor, in the direction of the list.
Past(row) == IF listing.desc THEN listing.cursor > row.rank ELSE listing.cursor < row.rank

\* Up to its cursor a client has been named all it is due, but for ties; and nothing
\* past it.
CursorsCover ==
  listing.how = "cursor" /\ listing.at \in {"asked", "more"} =>
    /\ IsInjective(listing.got)
    /\ listing.cursor = NoCursor => listing.got = <<>> /\ listing.at = "asked"
    /\ listing.cursor # NoCursor =>
         /\ \A row \in ToSet(listing.got) : ~Past(row)
         /\ \A row \in Filtered(stayed, listing.filter) :
              ~Past(row) => \E other \in ToSet(listing.got) : other.rank = row.rank

\* What it was named passes the filter.
NamedPass == ToSet(listing.got) \subseteq Filtered(TableRows, listing.filter)

\* What a client that reads by cursor has at the end.
CursorsEnd ==
  listing.how = "cursor" /\ listing.at = "done" =>
    /\ IsInjective(listing.got)
    /\ \A row \in Filtered(stayed, listing.filter) :
         \E other \in ToSet(listing.got) : other.rank = row.rank

\* The rows that pass a filter are rows of the table, and finitely many.
LEMMA FilteredAreRows ==
  ASSUME NEW table, table \subseteq TableRows, NEW filter
  PROVE  /\ Filtered(table, filter) \subseteq table
         /\ IsFiniteSet(Filtered(table, filter))
         /\ Cardinality(Filtered(table, filter)) \in Nat
         /\ Cardinality(Filtered(table, filter)) <= MaxInt
<1>1. Filtered(table, filter) \subseteq table
  BY DEF Filtered
<1>2. Filtered(table, filter) \in SUBSET TableRows
  BY <1>1
<1>3. IsFiniteSet(Filtered(table, filter)) /\ Cardinality(Filtered(table, filter)) <= Cardinality(TableRows)
  BY <1>2, TableAssumption, FS_Subset
<1>. QED
  BY <1>1, <1>3, TableAssumption, PagingAssumption, FS_CardinalityType

LEMMA SizesArePositive ==
  ASSUME NEW size \in Int
  PROVE  EffectiveSize(size) \in Nat /\ EffectiveSize(size) >= 1
BY PagingAssumption DEF EffectiveSize

\* The first of the rows of an answer.
LEMMA FrontOfAnswer ==
  ASSUME NEW S, NEW list \in Seq(S), NEW n \in 0..Len(list),
         \A i, j \in 1..Len(list) : list[i] = list[j] => i = j
  PROVE  /\ SubSeq(list, 1, n) \in Seq(S) /\ IsInjective(SubSeq(list, 1, n))
         /\ ToSet(SubSeq(list, 1, n)) = {list[i] : i \in 1..n}
<1>. DEFINE front == SubSeq(list, 1, n)
<1>1. /\ front \in Seq(S) /\ Len(front) = n /\ DOMAIN front = 1..n
      /\ \A i \in 1..n : front[i] = list[i] /\ i \in 1..Len(list)
  OBVIOUS
<1>. HIDE DEF front
<1>2. IsInjective(front)
  BY <1>1 DEF IsInjective
<1>3. ToSet(front) = {list[i] : i \in 1..n}
  BY <1>1 DEF ToSet
<1>. QED
  BY <1>1, <1>2, <1>3 DEF front

\* A page by cursor names the rows past the cursor, up to the next one.
LEMMA CursorPageKeepsTheList ==
  ASSUME ListingOK, CursorsCover, NamedPass, AnswerCursorPage
  PROVE  /\ ListingOK' /\ CursorsCover' /\ NamedPass' /\ CursorsEnd'
         /\ listing'.how = "cursor" /\ listing'.at # "idle"
<1>. DEFINE size == EffectiveSize(listing.size)
            order == <<[column |-> "rank", desc |-> listing.desc]>>
            due == Filtered(rows, listing.filter)
            found == {row \in due : \/ listing.cursor = NoCursor
                                    \/ ComesBefore(order, [rank |-> listing.cursor], row)}
<1>1. listing.at = "asked" /\ listing.how = "cursor" /\ rows' = rows /\ stayed' = stayed /\ changes' = changes
  BY DEF AnswerCursorPage
<1>2. /\ due \subseteq rows /\ IsFiniteSet(due) /\ rows \subseteq TableRows /\ stayed \subseteq rows
      /\ listing.desc \in BOOLEAN /\ listing.cursor \in Int /\ listing.got \in Seq(TableRows)
  BY FilteredAreRows DEF ListingOK, Listings
<1>3. size \in Nat /\ size >= 1
  BY SizesArePositive DEF ListingOK, Listings
<1>4. \A row : row \in found <=> row \in due /\ (listing.cursor = NoCursor \/ Past(row))
  <2>1. \A row : ComesBefore(order, [rank |-> listing.cursor], row)
                   <=> IF listing.desc THEN listing.cursor > row.rank ELSE listing.cursor < row.rank
    BY <1>2, RankOrders
  <2>. HIDE DEF order, due
  <2>. QED
    BY <2>1 DEF Past
<1>5. IsFiniteSet(found) /\ found \subseteq TableRows
  <2>1. found \in SUBSET due
    OBVIOUS
  <2>. HIDE DEF found, due
  <2>. QED
    BY <1>2, <2>1, FS_Subset
<1>6. CASE BadFilter(listing.filter)
  <2>1. listing' = [listing EXCEPT !.at = "refused"]
    BY <1>6 DEF AnswerCursorPage
  <2>. QED
    BY <1>1, <2>1 DEF ListingOK, Listings, CursorsCover, NamedPass, CursorsEnd
<1>7. CASE ~BadFilter(listing.filter)
  <2>1. PICK list \in AnswerOrders(found, order) :
          IF Len(list) <= size
          THEN listing' = [listing EXCEPT !.got = @ \o list, !.at = "done"]
          ELSE IF NextCursor(list, size) = NoCursor
          THEN listing' = [listing EXCEPT !.at = "failed"]
          ELSE listing' = [listing EXCEPT !.got = @ \o SubSeq(list, 1, size),
                                          !.cursor = NextCursor(list, size), !.at = "more"]
    BY <1>7, Zenon DEF AnswerCursorPage
  <2>. HIDE DEF found
  <2>2. /\ list \in Seq(found) /\ Len(list) \in Nat /\ DOMAIN list = 1..Len(list)
        /\ \A i, j \in 1..Len(list) : list[i] = list[j] => i = j
        /\ \A row \in found : \E i \in 1..Len(list) : list[i] = row
        /\ \A i, j \in 1..Len(list) : i < j => ~ComesBefore(order, list[j], list[i])
    BY <1>5, <2>1, AnswersListTheFound
  <2>3. /\ list \in Seq(TableRows) /\ IsInjective(list) /\ ToSet(list) = found
        /\ \A i \in 1..Len(list) : list[i] \in found
    <3>1. \A i \in 1..Len(list) : list[i] \in found
      BY <2>2
    <3>2. list \in Seq(TableRows)
      BY <1>5, <2>2
    <3>. QED
      BY <2>2, <3>1, <3>2 DEF IsInjective, ToSet
  <2>4. \A i, j \in 1..Len(list) : i < j =>
          ~(IF listing.desc THEN list[j].rank > list[i].rank ELSE list[j].rank < list[i].rank)
    BY <1>2, <2>2, RankOrders
  <2>5. ToSet(listing.got) \cap found = {} /\ IsInjective(listing.got)
    <3>1. CASE listing.cursor = NoCursor
      BY <1>1, <3>1 DEF CursorsCover, ToSet
    <3>2. CASE listing.cursor # NoCursor
      BY <1>1, <1>4, <3>2 DEF CursorsCover
    <3>. QED
      BY <3>1, <3>2
  <2>6. found \subseteq Filtered(TableRows, listing.filter)
    BY <1>2, <1>4 DEF Filtered
  <2>7. Filtered(stayed, listing.filter) \subseteq due
    BY <1>2 DEF Filtered
  <2>8. \A row \in TableRows : row.rank \in Int
    BY TableAssumption
  <2>. HIDE DEF due, size, order
  <2>9. CASE Len(list) <= size
    <3>1. listing' = [listing EXCEPT !.got = @ \o list, !.at = "done"]
      BY <2>1, <2>9
    <3>2. /\ listing'.got = listing.got \o list /\ listing'.at = "done"
          /\ listing'.how = "cursor" /\ listing'.filter = listing.filter
      BY <1>1, <3>1 DEF ListingOK, Listings
    <3>3. /\ listing'.got \in Seq(TableRows) /\ IsInjective(listing'.got)
          /\ ToSet(listing'.got) = ToSet(listing.got) \cup found
      BY <1>2, <2>3, <2>5, <3>2, JoinedNames
    <3>4. ListingOK'
      BY <1>1, <3>1, <3>2, <3>3 DEF ListingOK, Listings
    <3>5. ASSUME NEW row \in Filtered(stayed, listing.filter)
          PROVE  \E other \in ToSet(listing'.got) : other.rank = row.rank
      <4>1. CASE row \in found
        BY <3>3, <4>1
      <4>2. CASE row \notin found
        <5>1. listing.cursor # NoCursor /\ ~Past(row)
          BY <1>4, <2>7, <4>2
        <5>. QED
          BY <1>1, <3>3, <5>1 DEF CursorsCover
      <4>. QED
        BY <4>1, <4>2
    <3>. QED
      BY <1>1, <2>6, <3>2, <3>3, <3>4, <3>5 DEF CursorsCover, NamedPass, CursorsEnd
  <2>10. CASE ~(Len(list) <= size) /\ NextCursor(list, size) = NoCursor
    <3>1. listing' = [listing EXCEPT !.at = "failed"]
      BY <2>1, <2>10
    <3>. QED
      BY <1>1, <3>1 DEF ListingOK, Listings, CursorsCover, NamedPass, CursorsEnd
  <2>11. CASE ~(Len(list) <= size) /\ NextCursor(list, size) # NoCursor
    <3>. DEFINE page == SubSeq(list, 1, size)
                next == list[size]
    <3>1. listing' = [listing EXCEPT !.got = @ \o page, !.cursor = next.rank, !.at = "more"]
      BY <2>1, <2>11 DEF NextCursor
    <3>2. /\ listing'.got = listing.got \o page /\ listing'.at = "more" /\ listing'.cursor = next.rank
          /\ listing'.how = "cursor" /\ listing'.filter = listing.filter /\ listing'.desc = listing.desc
      BY <1>1, <3>1 DEF ListingOK, Listings
    <3>3. size \in 1..Len(list) /\ next \in found /\ next \in TableRows /\ next.rank # NoCursor /\ next.rank \in Int
      BY <1>3, <1>5, <2>2, <2>3, <2>8, <2>11 DEF NextCursor
    <3>4. /\ page \in Seq(TableRows) /\ IsInjective(page) /\ ToSet(page) = {list[i] : i \in 1..size}
          /\ ToSet(page) \subseteq found
      <4>1. size \in 0..Len(list)
        BY <3>3
      <4>2. page \in Seq(TableRows) /\ IsInjective(page) /\ ToSet(page) = {list[i] : i \in 1..size}
        BY <2>2, <2>3, <4>1, FrontOfAnswer
      <4>. QED
        BY <2>3, <3>3, <4>2
    <3>. HIDE DEF page, next
    <3>5. /\ listing'.got \in Seq(TableRows) /\ IsInjective(listing'.got)
          /\ ToSet(listing'.got) = ToSet(listing.got) \cup ToSet(page)
      BY <1>2, <2>5, <3>2, <3>4, JoinedNames
    <3>6. ListingOK'
      BY <1>1, <3>1, <3>2, <3>3, <3>5 DEF ListingOK, Listings
    <3>7. ASSUME NEW row \in ToSet(listing'.got)
          PROVE  ~(IF listing.desc THEN next.rank > row.rank ELSE next.rank < row.rank)
      <4>1. row.rank \in Int
        BY <1>2, <1>5, <2>8, <3>4, <3>5 DEF ToSet
      <4>2. CASE row \in ToSet(page)
        <5>1. PICK i \in 1..size : row = list[i]
          BY <3>4, <4>2
        <5>2. CASE i < size
          BY <1>3, <2>4, <3>3, <4>1, <5>1, <5>2 DEF next
        <5>3. CASE i = size
          BY <3>3, <5>1, <5>3 DEF next
        <5>. QED
          BY <1>3, <5>2, <5>3
      <4>3. CASE row \in ToSet(listing.got)
        <5>1. listing.cursor # NoCursor /\ ~Past(row)
          BY <1>1, <4>3 DEF CursorsCover, ToSet
        <5>2. Past(next)
          BY <1>4, <3>3, <5>1
        <5>. QED
          BY <1>2, <3>3, <4>1, <5>1, <5>2 DEF Past
      <4>. QED
        BY <3>5, <4>2, <4>3
    <3>8. ASSUME NEW row \in Filtered(stayed, listing.filter),
                 ~(IF listing.desc THEN next.rank > row.rank ELSE next.rank < row.rank)
          PROVE  \E other \in ToSet(listing'.got) : other.rank = row.rank
      <4>1. row \in due /\ row \in TableRows /\ row.rank \in Int
        BY <1>2, <2>7, <2>8
      <4>2. CASE row \in found
        <5>1. PICK k \in 1..Len(list) : row = list[k]
          BY <2>2, <4>2
        <5>2. CASE k <= size
          BY <3>4, <3>5, <5>1, <5>2
        <5>3. CASE ~(k <= size)
          <6>1. ~(IF listing.desc THEN row.rank > next.rank ELSE row.rank < next.rank)
            BY <1>3, <2>2, <2>4, <3>3, <5>1, <5>3 DEF next
          <6>2. row.rank = next.rank
            BY <3>3, <3>8, <4>1, <6>1
          <6>3. next \in ToSet(page)
            BY <1>3, <3>4 DEF next
          <6>. QED
            BY <3>5, <6>2, <6>3
        <5>. QED
          BY <5>2, <5>3
      <4>3. CASE row \notin found
        <5>1. listing.cursor # NoCursor /\ ~Past(row)
          BY <1>4, <4>1, <4>3
        <5>. QED
          BY <1>1, <3>5, <5>1 DEF CursorsCover
      <4>. QED
        BY <4>2, <4>3
    <3>9. CursorsCover'
      BY <1>1, <3>2, <3>3, <3>5, <3>7, <3>8 DEF CursorsCover, Past
    <3>. QED
      BY <1>1, <2>6, <3>2, <3>4, <3>5, <3>6, <3>9 DEF NamedPass, CursorsEnd
  <2>. QED
    BY <2>9, <2>10, <2>11
<1>. QED
  BY <1>6, <1>7

-----------------------------------------------------------------------------
(* The arithmetic of pages.                                                *)

LEMMA ProductsGrow ==
  ASSUME NEW a \in Int, NEW b \in Int, NEW size \in Nat, a <= b
  PROVE  a * size <= b * size /\ a * size \in Int /\ b * size \in Int
<1>1. PICK d \in Nat : b = a + d
  <2>1. b - a \in Nat /\ b = a + (b - a)
    OBVIOUS
  <2>. QED
    BY <2>1
<1>2. d * size \in Nat /\ a * size \in Int
  OBVIOUS
<1>3. b * size = a * size + d * size
  BY <1>1
<1>. QED
  BY <1>2, <1>3

LEMMA Quotients ==
  ASSUME NEW x \in Nat, NEW size \in Nat, size >= 1
  PROVE  /\ x \div size \in Nat
         /\ (x \div size) * size <= x /\ x < (x \div size) * size + size
  OBVIOUS

\* There is a page beyond one exactly when there are rows beyond it.
LEMMA PagesCoverTheRows ==
  ASSUME NEW total \in Nat, NEW size \in Int, NEW p \in Nat
  PROVE  /\ PagesOf(total, size) \in Nat
         /\ p < PagesOf(total, size) <=> p * EffectiveSize(size) < total
<1>. DEFINE s == EffectiveSize(size)
            pages == PagesOf(total, size)
<1>1. s \in Nat /\ s >= 1
  BY SizesArePositive
<1>2. pages = (total + s - 1) \div s
  BY DEF PagesOf
<1>. HIDE DEF s, pages
<1>3. total + s - 1 \in Nat
  BY <1>1
<1>4. pages \in Nat /\ pages * s <= total + s - 1 /\ total + s - 1 < pages * s + s
  BY <1>1, <1>2, <1>3, Quotients
<1>5. p * s \in Nat /\ pages * s \in Nat
  BY <1>1, <1>4
<1>6. CASE p < pages
  <2>1. (p + 1) * s <= pages * s
    BY <1>1, <1>4, <1>6, ProductsGrow
  <2>2. (p + 1) * s = p * s + s
    BY <1>1
  <2>. QED
    BY <1>1, <1>4, <1>5, <1>6, <2>1, <2>2 DEF s, pages
<1>7. CASE ~(p < pages)
  <2>1. pages * s <= p * s
    BY <1>1, <1>4, <1>7, ProductsGrow
  <2>. QED
    BY <1>1, <1>4, <1>5, <1>7, <2>1 DEF s, pages
<1>. QED
  BY <1>6, <1>7

\* The offset is where the page begins, as long as that is a number there is.
LEMMA OffsetsBegin ==
  ASSUME NEW page \in Int, NEW size \in Int, NEW total \in Nat, total <= MaxInt
  PROVE  LET begins == (EffectivePage(page) - 1) * EffectiveSize(size)
         IN  /\ begins < total => Offset(page, size) = begins
             /\ ~(begins < total) => Offset(page, size) \in Nat /\ Offset(page, size) >= total
<1>. DEFINE s == EffectiveSize(size)
            p == EffectivePage(page)
            q == MaxInt \div s
<1>1. s \in Nat /\ s >= 1 /\ p \in Nat /\ p >= 1 /\ MaxInt \in Nat
  BY SizesArePositive, PagingAssumption DEF EffectivePage
<1>2. Offset(page, size) = IF p <= 1 THEN 0 ELSE IF p - 1 > q THEN MaxInt ELSE (p - 1) * s
  BY DEF Offset
<1>. HIDE DEF s, p
<1>3. q \in Nat /\ q * s <= MaxInt /\ MaxInt < q * s + s
  BY <1>1, Quotients
<1>. HIDE DEF q
<1>4. (p - 1) * s \in Nat /\ q * s \in Nat
  BY <1>1, <1>3
<1>5. CASE p <= 1
  <2>1. p - 1 = 0
    BY <1>1, <1>5
  <2>2. (p - 1) * s = 0
    BY <1>1, <2>1
  <2>. QED
    BY <1>1, <1>2, <1>5, <2>2 DEF s, p
<1>6. CASE ~(p <= 1) /\ p - 1 > q
  <2>1. (q + 1) * s <= (p - 1) * s
    BY <1>1, <1>3, <1>6, ProductsGrow
  <2>2. (q + 1) * s = q * s + s
    BY <1>1, <1>3
  <2>3. (p - 1) * s > MaxInt
    BY <1>1, <1>3, <1>4, <2>1, <2>2
  <2>. QED
    BY <1>1, <1>2, <1>4, <1>6, <2>3 DEF s, p
<1>7. CASE ~(p <= 1) /\ ~(p - 1 > q)
  BY <1>1, <1>2, <1>4, <1>7 DEF s, p
<1>. QED
  BY <1>5, <1>6, <1>7

\* A window shows the rows from there on, as many as there are and fit.
LEMMA WindowsShow ==
  ASSUME NEW S, NEW list \in Seq(S), NEW from \in Nat, NEW size \in Nat, size >= 1
  PROVE  LET seen == Window(list, from, size)
         IN  /\ seen \in Seq(S) /\ Len(seen) \in Nat
             /\ from >= Len(list) => seen = <<>>
             /\ from < Len(list) =>
                  Len(seen) = IF from + size < Len(list) THEN size ELSE Len(list) - from
             /\ \A i \in 1..Len(seen) : seen[i] = list[from + i] /\ from + i \in 1..Len(list)
<1>. DEFINE till == IF from + size < Len(list) THEN from + size ELSE Len(list)
            seen == SubSeq(list, from + 1, till)
<1>1. Window(list, from, size) = seen /\ Len(list) \in Nat
  BY DEF Window
<1>2. till \in Nat /\ till <= Len(list)
  BY <1>1
<1>. HIDE DEF till
<1>3. \A i \in (from + 1)..till : list[i] \in S
  BY <1>2
<1>4. /\ seen \in Seq(S)
      /\ Len(seen) = IF from + 1 <= till THEN till - (from + 1) + 1 ELSE 0
      /\ \A i \in 1..(till - (from + 1) + 1) : seen[i] = list[from + 1 + i - 1]
  BY <1>2, <1>3, SubSeqProperties
<1>5. from >= Len(list) => seen = <<>>
  <2>1. ASSUME from >= Len(list) PROVE till < from + 1
    BY <1>2, <2>1
  <2>. QED
    BY <1>2, <2>1, SubSeqEmpty
<1>. HIDE DEF seen
<1>6. Len(seen) \in Nat
  BY <1>2, <1>4
<1>7. \A i \in 1..Len(seen) : seen[i] = list[from + i] /\ from + i \in 1..Len(list)
  <2>1. ASSUME NEW i \in 1..Len(seen)
        PROVE  /\ i \in 1..(till - (from + 1) + 1) /\ from + 1 + i - 1 = from + i
               /\ from + i \in 1..Len(list)
    BY <1>1, <1>2, <1>4, <1>6
  <2>. QED
    BY <1>4, <2>1
<1>8. from < Len(list) =>
        Len(seen) = IF from + size < Len(list) THEN size ELSE Len(list) - from
  BY <1>1, <1>4 DEF till
<1>. QED
  BY <1>1, <1>4, <1>5, <1>6, <1>7, <1>8

\* Without ties there is one order to answer in.
LEMMA OrdersAreOne ==
  ASSUME NEW found, IsFiniteSet(found), NEW order,
         \A a, b \in found : a # b => ComesBefore(order, a, b) \/ ComesBefore(order, b, a),
         NEW one \in AnswerOrders(found, order), NEW two \in AnswerOrders(found, order)
  PROVE  \A i \in 1..Cardinality(found) : one[i] = two[i]
<1>. DEFINE n == Cardinality(found)
            Differ == {i \in 1..n : one[i] # two[i]}
<1>1. /\ one \in Seq(found) /\ Len(one) = n /\ n \in Nat
      /\ \A i, j \in 1..n : one[i] = one[j] => i = j
      /\ \A row \in found : \E i \in 1..n : one[i] = row
      /\ \A i, j \in 1..n : i < j => ~ComesBefore(order, one[j], one[i])
  BY AnswersListTheFound
<1>2. /\ two \in Seq(found) /\ Len(two) = n
      /\ \A i, j \in 1..n : two[i] = two[j] => i = j
      /\ \A row \in found : \E i \in 1..n : two[i] = row
      /\ \A i, j \in 1..n : i < j => ~ComesBefore(order, two[j], two[i])
  BY AnswersListTheFound
<1>. HIDE DEF n
<1>3. \A i \in 1..n : one[i] \in found /\ two[i] \in found
  BY <1>1, <1>2
<1>4. CASE Differ # {}
  <2>1. Differ \subseteq Nat
    BY <1>1
  <2>2. PICK k \in Differ : \A m \in Differ : k <= m
    BY <1>4, <2>1, LeastThereIs
  <2>3. k \in 1..n /\ one[k] # two[k] /\ \A m \in 1..n : m < k => one[m] = two[m]
    BY <1>1, <2>2
  <2>4. PICK m \in 1..n : two[m] = one[k]
    BY <1>2, <1>3, <2>3
  <2>5. k < m
    <3>1. CASE m < k
      BY <1>1, <2>3, <2>4, <3>1
    <3>2. CASE m = k
      BY <2>3, <2>4, <3>2
    <3>. QED
      BY <1>1, <2>3, <3>1, <3>2
  <2>6. ~ComesBefore(order, one[k], two[k])
    BY <1>2, <2>3, <2>4, <2>5
  <2>7. PICK l \in 1..n : one[l] = two[k]
    BY <1>1, <1>3, <2>3
  <2>8. k < l
    <3>1. CASE l < k
      BY <1>2, <2>3, <2>7, <3>1
    <3>2. CASE l = k
      BY <2>3, <2>7, <3>2
    <3>. QED
      BY <1>1, <2>3, <3>1, <3>2
  <2>9. ~ComesBefore(order, two[k], one[k])
    BY <1>1, <2>3, <2>7, <2>8
  <2>. QED
    BY <1>3, <2>3, <2>6, <2>9
<1>5. CASE Differ = {}
  BY <1>5 DEF n
<1>. QED
  BY <1>4, <1>5

-----------------------------------------------------------------------------
(* Lists by page number.                                                   *)

DueNow == Filtered(rows, listing.filter)
Total == Cardinality(DueNow)
PageRows == EffectiveSize(listing.size)
\* What is before the first page, and how many pages the client has read.
Skipped == (EffectivePage(listing.first) - 1) * PageRows
PagesRead ==
  IF listing.at = "asked" THEN EffectivePage(listing.page) - EffectivePage(listing.first)
  ELSE EffectivePage(listing.page) - EffectivePage(listing.first) + 1

\* What the client has is the list from its first page on, in whatever order without
\* ties the database answers.
GotInOrder ==
  LET order == ResolvedSort(listing.sort)
  IN (\A a, b \in rows : a # b => ComesBefore(order, a, b) \/ ComesBefore(order, b, a)) =>
       \A list \in AnswerOrders(DueNow, order), i \in 1..Len(listing.got) :
         Skipped + i \in 1..Total /\ listing.got[i] = list[Skipped + i]

\* A client that has read some pages has all their rows, and there are more.
PagesFill ==
  listing.how = "pages" /\ listing.at \in {"asked", "more"} /\ changes = 0 =>
    /\ PagesRead \in Nat /\ Len(listing.got) = PagesRead * PageRows
    /\ PagesRead > 0 => (EffectivePage(listing.first) + PagesRead - 1) * PageRows < Total
    /\ GotInOrder

\* What a client that reads by page number has at the end.
PagesEnd ==
  listing.how = "pages" /\ listing.at = "done" /\ changes = 0 =>
    /\ listing.pages = PagesOf(Total, listing.size)
    /\ IF EffectivePage(listing.first) <= listing.pages
       THEN Skipped < Total /\ Len(listing.got) = Total - Skipped
       ELSE listing.got = <<>>
    /\ GotInOrder
    \* It is a list the database has answered.
    /\ AnswerOrders(DueNow, ResolvedSort(listing.sort)) # {}

\* The page answered is the next of the list; it is the last unless there is another.
LEMMA NumberedPageKeepsTheList ==
  ASSUME ListingOK, PagesFill, NamedPass, AnswerPage
  PROVE  /\ ListingOK' /\ PagesFill' /\ NamedPass' /\ PagesEnd'
         /\ listing'.how = "pages" /\ listing'.at # "idle"
<1>. DEFINE order == ResolvedSort(listing.sort)
            first == EffectivePage(listing.first)
            page == EffectivePage(listing.page)
            from == Offset(listing.page, listing.size)
            pages == PagesOf(Total, listing.size)
<1>1. listing.at = "asked" /\ listing.how = "pages" /\ rows' = rows /\ stayed' = stayed /\ changes' = changes
  BY DEF AnswerPage
<1>2. /\ DueNow \subseteq TableRows /\ IsFiniteSet(DueNow) /\ Total \in Nat /\ Total <= MaxInt
      /\ listing.page \in Int /\ listing.first \in Int /\ listing.size \in Int /\ listing.got \in Seq(TableRows)
  BY FilteredAreRows DEF ListingOK, Listings, DueNow, Total
<1>3. /\ PageRows \in Nat /\ PageRows >= 1 /\ first \in Nat /\ first >= 1 /\ page \in Nat /\ page >= 1
      /\ Skipped \in Nat /\ (page - 1) * PageRows \in Nat /\ page - 1 \in Nat
  <2>1. PageRows \in Nat /\ PageRows >= 1 /\ first \in Nat /\ first >= 1 /\ page \in Nat /\ page >= 1
    <3>1. PageRows \in Nat /\ PageRows >= 1
      BY <1>2, SizesArePositive DEF PageRows
    <3>2. first \in Nat /\ first >= 1 /\ page \in Nat /\ page >= 1
      BY <1>2 DEF EffectivePage
    <3>. QED
      BY <3>1, <3>2
  <2>. HIDE DEF first, page
  <2>2. first - 1 \in Nat /\ page - 1 \in Nat
    BY <2>1
  <2>. QED
    BY <2>1, <2>2 DEF Skipped, first
<1>4. CASE BadFilter(listing.filter) \/ UnknownSort(listing.sort)
  <2>1. listing' = [listing EXCEPT !.at = "refused"]
    BY <1>4 DEF AnswerPage
  <2>. QED
    BY <1>1, <2>1 DEF ListingOK, Listings, PagesFill, NamedPass, PagesEnd
<1>5. CASE ~(BadFilter(listing.filter) \/ UnknownSort(listing.sort))
  <2>1. PICK list \in AnswerOrders(DueNow, order) :
          listing' = [listing EXCEPT !.got = @ \o Window(list, from, PageRows), !.pages = pages,
                                     !.at = IF page < pages THEN "more" ELSE "done"]
    BY <1>5, Zenon DEF AnswerPage, DueNow, Total, PageRows
  <2>. DEFINE seen == Window(list, from, PageRows)
  <2>2. /\ list \in Seq(DueNow) /\ Len(list) = Total
        /\ \A i, j \in 1..Total : list[i] = list[j] => i = j
    BY <1>2, AnswersListTheFound DEF Total
  <2>3. /\ (page - 1) * PageRows < Total => from = (page - 1) * PageRows
        /\ ~((page - 1) * PageRows < Total) => from \in Nat /\ from >= Total
    BY <1>2, OffsetsBegin DEF PageRows
  <2>4. pages \in Nat /\ (page < pages <=> page * PageRows < Total)
    BY <1>2, <1>3, PagesCoverTheRows DEF PageRows
  <2>5. page - 1 < pages <=> (page - 1) * PageRows < Total
    BY <1>2, <1>3, PagesCoverTheRows DEF PageRows
  <2>6. first - 1 < pages <=> Skipped < Total
    <3>1. first - 1 \in Nat
      BY <1>3
    <3>. QED
      BY <1>2, <3>1, PagesCoverTheRows DEF PageRows, Skipped
  <2>. HIDE DEF order, first, page, from, pages
  <2>7. from \in Nat
    BY <1>3, <2>3
  <2>8. /\ seen \in Seq(DueNow) /\ Len(seen) \in Nat
        /\ from >= Total => seen = <<>>
        /\ from < Total => Len(seen) = IF from + PageRows < Total THEN PageRows ELSE Total - from
        /\ \A i \in 1..Len(seen) : seen[i] = list[from + i] /\ from + i \in 1..Total
    <3>1. /\ seen \in Seq(DueNow) /\ Len(seen) \in Nat
          /\ from >= Len(list) => seen = <<>>
          /\ from < Len(list) =>
               Len(seen) = IF from + PageRows < Len(list) THEN PageRows ELSE Len(list) - from
          /\ \A i \in 1..Len(seen) : seen[i] = list[from + i] /\ from + i \in 1..Len(list)
      <4>. HIDE DEF seen
      <4>. QED
        BY <1>3, <2>2, <2>7, WindowsShow DEF seen
    <3>. HIDE DEF seen
    <3>. QED
      BY <2>2, <3>1
  <2>. HIDE DEF seen
  <2>9. /\ listing'.got = listing.got \o seen /\ listing'.pages = pages /\ listing'.how = "pages"
        /\ listing'.at = (IF page < pages THEN "more" ELSE "done") /\ listing'.page = listing.page
        /\ listing'.first = listing.first /\ listing'.size = listing.size
        /\ listing'.sort = listing.sort /\ listing'.filter = listing.filter
    BY <1>1, <2>1 DEF ListingOK, Listings, seen
  <2>10. seen \in Seq(TableRows)
    BY <1>2, <2>8
  <2>11. /\ listing'.got \in Seq(TableRows) /\ ToSet(listing'.got) = ToSet(listing.got) \cup ToSet(seen)
         /\ Len(listing'.got) = Len(listing.got) + Len(seen) /\ Len(listing.got) \in Nat
    BY <1>2, <2>9, <2>10, JoinedNames
  <2>12. ListingOK'
    <3>. DEFINE got == listing.got \o seen
                at == IF page < pages THEN "more" ELSE "done"
    <3>1. listing' = [listing EXCEPT !.got = got, !.pages = pages, !.at = at]
      BY <2>1 DEF seen
    <3>2. got \in Seq(TableRows) /\ at \in {"more", "done"} /\ pages \in Int
      BY <2>4, <2>9, <2>11
    <3>. HIDE DEF got, at
    <3>3. listing' \in Listings
      BY <3>1, <3>2 DEF ListingOK, Listings
    <3>4. changes' = 0 /\ listing'.at # "idle" => stayed' = rows'
      BY <1>1 DEF ListingOK, Listings
    <3>. QED
      BY <1>1, <3>3, <3>4 DEF ListingOK, Listings
  <2>13. NamedPass'
    <3>1. ToSet(seen) \subseteq DueNow
      BY <2>8 DEF ToSet
    <3>2. DueNow \subseteq Filtered(TableRows, listing.filter)
      BY <1>2 DEF DueNow, Filtered
    <3>. QED
      BY <2>9, <2>11, <3>1, <3>2 DEF NamedPass
  <2>14. DueNow' = DueNow /\ Total' = Total /\ PageRows' = PageRows /\ Skipped' = Skipped
    BY <1>1, <2>9 DEF DueNow, Total, PageRows, Skipped
  <2>15. ASSUME changes = 0
         PROVE  /\ page - first \in Nat /\ Len(listing.got) = (page - first) * PageRows
                /\ page > first => (page - 1) * PageRows < Total
                /\ GotInOrder
    <3>1. PagesRead = page - first
      BY <1>1 DEF PagesRead, page, first
    <3>2. first + (page - first) - 1 = page - 1
      BY <1>3
    <3>. QED
      BY <1>1, <1>3, <2>15, <3>1, <3>2 DEF PagesFill, first
  <2>16. /\ (page - 1) * PageRows = Skipped + (page - first) * PageRows
         /\ page * PageRows = (page - 1) * PageRows + PageRows
         /\ (page - first + 1) * PageRows = (page - first) * PageRows + PageRows
    <3>1. Skipped = (first - 1) * PageRows
      BY DEF Skipped, first
    <3>. QED
      BY <1>3, <3>1
  <2>17. ASSUME changes = 0, (page - 1) * PageRows < Total
         PROVE  from = Skipped + Len(listing.got)
    BY <2>3, <2>15, <2>16, <2>17
  <2>18. ASSUME changes = 0 PROVE GotInOrder'
    <3>1. ASSUME \A a, b \in rows : a # b => ComesBefore(order, a, b) \/ ComesBefore(order, b, a),
                 NEW other \in AnswerOrders(DueNow, order), NEW i \in 1..Len(listing'.got)
          PROVE  Skipped + i \in 1..Total /\ listing'.got[i] = other[Skipped + i]
      <4>1. CASE i \in 1..Len(listing.got)
        <5>1. listing'.got[i] = listing.got[i]
          BY <1>2, <2>9, <2>10, <4>1
        <5>. QED
          BY <2>15, <2>18, <3>1, <4>1, <5>1 DEF GotInOrder, order
      <4>2. CASE i \notin 1..Len(listing.got)
        <5>. DEFINE k == i - Len(listing.got)
        <5>1. k \in 1..Len(seen) /\ i = Len(listing.got) + k
          BY <2>8, <2>11, <4>2
        <5>. HIDE DEF k
        <5>2. listing'.got[i] = seen[k]
          BY <1>2, <2>9, <2>10, <5>1
        <5>3. seen[k] = list[from + k] /\ from + k \in 1..Total
          BY <2>8, <5>1
        <5>4. from < Total
          BY <1>2, <2>7, <5>1, <5>3
        <5>5. (page - 1) * PageRows < Total
          BY <1>2, <1>3, <2>3, <5>4
        <5>6. from + k = Skipped + i
          BY <1>3, <2>11, <2>17, <2>18, <5>1, <5>5
        <5>7. \A a, b \in DueNow : a # b => ComesBefore(order, a, b) \/ ComesBefore(order, b, a)
          BY <3>1, FilteredAreRows DEF ListingOK, Listings, DueNow
        <5>8. list[from + k] = other[from + k]
          BY <1>2, <2>1, <3>1, <5>3, <5>7, OrdersAreOne DEF Total
        <5>. QED
          BY <5>2, <5>3, <5>6, <5>8
      <4>. QED
        BY <4>1, <4>2
    <3>. QED
      BY <1>1, <2>9, <2>14, <3>1 DEF GotInOrder, order
  <2>19. CASE page < pages
    <3>1. listing'.at = "more"
      BY <2>9, <2>19
    <3>2. page * PageRows < Total /\ (page - 1) * PageRows < Total
      BY <1>2, <1>3, <2>4, <2>16, <2>19
    <3>3. Len(seen) = PageRows
      BY <1>2, <1>3, <2>3, <2>8, <2>16, <3>2
    <3>4. PagesRead' = page - first + 1
      BY <2>9, <3>1 DEF PagesRead, page, first
    <3>5. first' = first
      BY <2>9 DEF first
    <3>6. ASSUME changes = 0
          PROVE  /\ PagesRead' \in Nat /\ Len(listing'.got) = PagesRead' * PageRows
                 /\ (first + PagesRead' - 1) * PageRows < Total
      <4>1. page - first + 1 \in Nat /\ first + (page - first + 1) - 1 = page
        BY <1>3, <2>15, <3>6
      <4>. QED
        BY <2>11, <2>15, <2>16, <3>2, <3>3, <3>4, <3>6, <4>1
    <3>7. PagesFill'
      BY <1>1, <2>14, <2>18, <3>5, <3>6 DEF PagesFill, first
    <3>. QED
      BY <2>9, <2>12, <2>13, <3>1, <3>7 DEF PagesEnd
  <2>20. CASE ~(page < pages)
    <3>1. listing'.at = "done"
      BY <2>9, <2>20
    <3>2. first' = first
      BY <2>9 DEF first
    <3>3. ASSUME changes = 0, first <= pages
          PROVE  Skipped < Total /\ Len(listing'.got) = Total - Skipped
      <4>1. Skipped < Total
        BY <1>3, <2>4, <2>6, <3>3
      <4>2. (page - 1) * PageRows < Total
        <5>1. CASE page > first
          BY <2>15, <3>3, <5>1
        <5>2. CASE ~(page > first)
          <6>1. page = first
            BY <1>3, <2>15, <3>3, <5>2
          <6>. QED
            BY <4>1, <6>1 DEF Skipped, first
        <5>. QED
          BY <5>1, <5>2
      <4>3. Total <= page * PageRows /\ page * PageRows \in Nat
        BY <1>2, <1>3, <2>4, <2>16, <2>20
      <4>4. from = (page - 1) * PageRows /\ from = Skipped + Len(listing.got)
        BY <2>3, <2>17, <3>3, <4>2
      <4>5. Len(seen) = Total - from
        BY <1>2, <1>3, <2>7, <2>8, <2>16, <4>2, <4>3, <4>4
      <4>. QED
        BY <1>2, <1>3, <2>11, <4>1, <4>4, <4>5
    <3>4. ASSUME changes = 0, ~(first <= pages) PROVE listing'.got = <<>>
      <4>1. ~(Skipped < Total)
        BY <1>3, <2>4, <2>6, <3>4
      <4>2. page = first
        <5>1. CASE page > first
          <6>1. page - 1 < pages
            BY <2>5, <2>15, <3>4, <5>1
          <6>. QED
            BY <1>3, <2>4, <3>4, <5>1, <6>1
        <5>. QED
          BY <1>3, <2>15, <3>4, <5>1
      <4>3. ~((page - 1) * PageRows < Total)
        BY <4>1, <4>2 DEF Skipped, first
      <4>4. seen = <<>>
        BY <2>3, <2>8, <4>3
      <4>5. Len(listing.got) = 0
        <5>1. page - first = 0
          BY <1>3, <4>2
        <5>. QED
          BY <1>3, <2>15, <3>4, <5>1
      <4>. QED
        BY <1>2, <2>9, <4>4, <4>5
    <3>5. PagesEnd'
      <4>1. AnswerOrders(DueNow, ResolvedSort(listing'.sort)) # {}
        BY <2>1, <2>9 DEF order
      <4>. QED
        BY <1>1, <2>9, <2>14, <2>18, <3>2, <3>3, <3>4, <4>1 DEF PagesEnd, pages, first
    <3>. QED
      BY <2>9, <2>12, <2>13, <3>1, <3>5 DEF PagesFill
  <2>. QED
    BY <2>19, <2>20
<1>. QED
  BY <1>4, <1>5

-----------------------------------------------------------------------------

ListsInv ==
  /\ ListingOK /\ NamedPass
  /\ CursorsCover /\ CursorsEnd /\ PagesFill /\ PagesEnd

LEMMA ReadingIsOne == Reading \in Listings
<1>1. <<>> \in Seq(TableRows)
  OBVIOUS
<1>. QED
  BY <1>1 DEF Reading, Listings, NoCursor

\* A client that begins has read nothing.
LEMMA AskKeepsTheLists ==
  ASSUME ListsInv, Ask
  PROVE  ListsInv'
<1>1. listing.at = "idle" /\ rows' = rows /\ stayed' = rows /\ changes' = changes
  BY DEF Ask
<1>2. PICK filter \in Filters, size \in PageSizes :
       \/ \E sort \in Sorts, page \in PageNumbers :
            listing' = [Reading EXCEPT !.how = "pages", !.filter = filter, !.size = size,
                                       !.sort = sort, !.page = page,
                                       !.first = page, !.at = "asked"]
       \/ \E desc \in BOOLEAN :
            listing' = [Reading EXCEPT !.how = "cursor", !.filter = filter, !.size = size,
                                       !.desc = desc, !.at = "asked"]
  BY DEF Ask
<1>3. /\ filter \in Filters \cup {<<>>} /\ size \in Int /\ \A page \in PageNumbers : page \in Int
      /\ <<>> \in Seq(TableRows)
  BY PagingAssumption
<1>4. /\ listing'.at = "asked" /\ listing'.got = <<>> /\ listing'.cursor = NoCursor
      /\ listing'.how = "pages" => listing'.page = listing'.first /\ listing'.page \in Int
      /\ listing'.size = size
  BY <1>2, <1>3, ZenonT(40) DEF Reading
<1>5. ListingOK'
  <2>1. listing' \in Listings
    <3>1. ASSUME NEW sort \in Sorts, NEW page \in PageNumbers,
                 listing' = [Reading EXCEPT !.how = "pages", !.filter = filter, !.size = size,
                                            !.sort = sort, !.page = page, !.first = page, !.at = "asked"]
          PROVE  listing' \in Listings
      <4>1. page \in Int /\ sort \in Sorts \cup {<<>>}
        BY <1>3
      <4>. QED
        BY <1>3, <3>1, <4>1, ReadingIsOne DEF Listings
    <3>2. ASSUME NEW desc \in BOOLEAN,
                 listing' = [Reading EXCEPT !.how = "cursor", !.filter = filter, !.size = size,
                                            !.desc = desc, !.at = "asked"]
          PROVE  listing' \in Listings
      BY <1>3, <3>2, ReadingIsOne DEF Listings
    <3>. QED
      BY <1>2, <3>1, <3>2
  <2>. QED
    BY <1>1, <2>1 DEF ListingOK, ListsInv
<1>6. NamedPass'
  BY <1>4 DEF NamedPass, ToSet
<1>7. CursorsCover'
  BY <1>4 DEF CursorsCover, IsInjective
<1>8. PagesFill'
  <2>1. CASE listing'.how = "pages"
    <3>1. EffectivePage(listing'.page) \in Int /\ EffectivePage(listing'.page) = EffectivePage(listing'.first)
      BY <1>4, <2>1 DEF EffectivePage
    <3>2. PagesRead' = 0
      BY <1>4, <3>1 DEF PagesRead
    <3>3. PageRows' \in Nat
      BY <1>3, <1>4, SizesArePositive DEF PageRows
    <3>4. Len(listing'.got) = 0 /\ 0 * PageRows' = 0
      <4>1. Len(<<>>) = 0 /\ \A n \in Nat : 0 * n = 0
        OBVIOUS
      <4>. QED
        BY <1>4, <3>3, <4>1, Zenon
    <3>5. GotInOrder'
      BY <3>4 DEF GotInOrder
    <3>. QED
      BY <3>2, <3>4, <3>5 DEF PagesFill
  <2>2. CASE listing'.how # "pages"
    BY <2>2 DEF PagesFill
  <2>. QED
    BY <2>1, <2>2
<1>. QED
  BY <1>4, <1>5, <1>6, <1>7, <1>8 DEF ListsInv, CursorsEnd, PagesEnd

\* A row that comes is not due; one that goes is due no more.
LEMMA ChangesKeepTheLists ==
  ASSUME ListsInv, ChangeRows
  PROVE  ListsInv'
<1>1. /\ listing' = listing /\ listing.at \in {"asked", "more"} /\ changes' = changes + 1
      /\ rows' \subseteq TableRows /\ stayed' \subseteq rows' /\ stayed' \subseteq stayed
  BY DEF ChangeRows, ListsInv, ListingOK, Listings
<1>2. changes \in Nat /\ changes' \in Nat /\ changes' # 0
  <2>1. changes \in Nat
    BY DEF ListsInv, ListingOK
  <2>. QED
    BY <1>1, <2>1
<1>3. ListingOK'
  BY <1>1, <1>2 DEF ListsInv, ListingOK, Listings
<1>4. Filtered(stayed', listing.filter) \subseteq Filtered(stayed, listing.filter)
  BY <1>1 DEF Filtered
<1>5. CursorsCover'
  BY <1>1, <1>4 DEF ListsInv, CursorsCover, Past
<1>. QED
  BY <1>1, <1>2, <1>3, <1>5 DEF ListsInv, NamedPass, CursorsEnd, PagesFill, PagesEnd

\* The client turns the page it has read.
LEMMA TurningKeepsTheLists ==
  ASSUME ListsInv, TurnPage
  PROVE  ListsInv'
<1>1. /\ listing.at = "more" /\ rows' = rows /\ stayed' = stayed /\ changes' = changes
      /\ listing' = [listing EXCEPT !.at = "asked", !.page = EffectivePage(@) + 1]
  BY DEF TurnPage
<1>2. listing.page \in Int /\ listing.first \in Int /\ ListingOK
  BY DEF ListsInv, ListingOK, Listings
<1>3. /\ listing'.at = "asked" /\ listing'.page = EffectivePage(listing.page) + 1
      /\ listing'.how = listing.how /\ listing'.got = listing.got /\ listing'.cursor = listing.cursor
      /\ listing'.filter = listing.filter /\ listing'.desc = listing.desc /\ listing'.first = listing.first
      /\ listing'.size = listing.size /\ listing'.sort = listing.sort
  BY <1>1, <1>2 DEF ListingOK, Listings
<1>4. EffectivePage(listing.page) \in Nat /\ EffectivePage(listing'.page) = EffectivePage(listing.page) + 1
  BY <1>2, <1>3 DEF EffectivePage
<1>5. ListingOK'
  <2>. DEFINE page == EffectivePage(listing.page) + 1
  <2>1. listing' = [listing EXCEPT !.at = "asked", !.page = page] /\ page \in Int
    <3>1. EffectivePage(listing.page) + 1 \in Int
      BY <1>4
    <3>. QED
      BY <1>1, <3>1, Zenon
  <2>. HIDE DEF page
  <2>2. listing' \in Listings
    BY <1>2, <2>1 DEF ListingOK, Listings
  <2>. QED
    BY <1>1, <1>2, <2>2 DEF ListingOK
<1>6. CursorsCover' /\ NamedPass' /\ CursorsEnd' /\ PagesEnd'
  BY <1>1, <1>3 DEF ListsInv, CursorsCover, Past, NamedPass, CursorsEnd, PagesEnd
<1>7. PagesRead' = PagesRead
  <2>1. EffectivePage(listing.first) \in Int
    BY <1>2 DEF EffectivePage
  <2>. QED
    BY <1>1, <1>3, <1>4, <2>1 DEF PagesRead
<1>8. DueNow' = DueNow /\ Total' = Total /\ PageRows' = PageRows /\ Skipped' = Skipped
  BY <1>1, <1>3 DEF DueNow, Total, PageRows, Skipped
<1>9. GotInOrder' <=> GotInOrder
  BY <1>1, <1>3, <1>8 DEF GotInOrder
<1>10. PagesFill'
  BY <1>1, <1>3, <1>7, <1>8, <1>9 DEF ListsInv, PagesFill
<1>. QED
  BY <1>5, <1>6, <1>10 DEF ListsInv

LEMMA QueryStepsKeepTheLists ==
  ASSUME ListsInv, [QueryNext]_queryVars
  PROVE  ListsInv'
<1>1. CASE AskWithBrokenCursor
  BY <1>1 DEF AskWithBrokenCursor, ListsInv, ListingOK, Listings, NamedPass, CursorsCover, CursorsEnd, PagesFill, PagesEnd
<1>2. CASE AnswerPage
  BY <1>2, NumberedPageKeepsTheList DEF ListsInv, CursorsCover, CursorsEnd
<1>3. CASE AnswerCursorPage
  BY <1>3, CursorPageKeepsTheList DEF ListsInv, PagesFill, PagesEnd
<1>4. CASE UNCHANGED queryVars
  <2>1. rows' = rows /\ listing' = listing /\ stayed' = stayed /\ changes' = changes
    BY <1>4 DEF queryVars
  <2>2. DueNow' = DueNow /\ Total' = Total /\ PageRows' = PageRows /\ Skipped' = Skipped /\ PagesRead' = PagesRead
    BY <2>1 DEF DueNow, Total, PageRows, Skipped, PagesRead
  <2>3. GotInOrder' <=> GotInOrder
    BY <2>1, <2>2 DEF GotInOrder
  <2>. QED
    BY <2>1, <2>2, <2>3 DEF ListsInv, ListingOK, Listings, NamedPass, CursorsCover, Past, CursorsEnd, PagesFill, PagesEnd
<1>. QED
  BY <1>1, <1>2, <1>3, <1>4, AskKeepsTheLists, ChangesKeepTheLists, TurningKeepsTheLists DEF QueryNext

LEMMA ListsStart == QueryInit => ListsInv
<1>. SUFFICES ASSUME QueryInit PROVE ListsInv
  OBVIOUS
<1>1. rows \subseteq TableRows /\ stayed = {} /\ changes = 0 /\ listing = Reading
  BY DEF QueryInit
<1>2. listing.at = "idle" /\ listing.got = <<>>
  BY <1>1 DEF Reading
<1>3. ListingOK
  BY <1>1, <1>2, ReadingIsOne DEF ListingOK
<1>. QED
  BY <1>2, <1>3 DEF ListsInv, NamedPass, CursorsCover, CursorsEnd, PagesFill, PagesEnd, ToSet

\* The end of a list by page number has what PagingMissesNothing says.
LEMMA NumberedListsAreWhole ==
  ASSUME ListsInv, listing.at = "done", listing.how = "pages", changes = 0
  PROVE  /\ (\A a, b \in rows : a # b => \/ ComesBefore(ResolvedSort(listing.sort), a, b)
                                         \/ ComesBefore(ResolvedSort(listing.sort), b, a))
              => IsInjective(listing.got)
         /\ EffectivePage(listing.first) <= listing.pages =>
              Len(listing.got) = Cardinality(Filtered(stayed, listing.filter))
                                   - Offset(listing.first, listing.size)
         /\ EffectivePage(listing.first) > listing.pages => listing.got = <<>>
<1>1. /\ stayed = rows /\ listing.first \in Int /\ listing.size \in Int /\ listing.pages \in Int
      /\ IsFiniteSet(DueNow) /\ Total \in Nat /\ Total <= MaxInt /\ DueNow \subseteq rows
      /\ listing.got \in Seq(TableRows)
  BY FilteredAreRows DEF ListsInv, ListingOK, Listings, DueNow, Total
<1>2. /\ IF EffectivePage(listing.first) <= listing.pages
         THEN Skipped < Total /\ Len(listing.got) = Total - Skipped
         ELSE listing.got = <<>>
      /\ GotInOrder
      /\ AnswerOrders(DueNow, ResolvedSort(listing.sort)) # {}
  BY DEF ListsInv, PagesEnd
<1>3. EffectivePage(listing.first) \in Int
  BY <1>1 DEF EffectivePage
<1>4. ASSUME EffectivePage(listing.first) <= listing.pages
      PROVE  Len(listing.got) = Cardinality(Filtered(stayed, listing.filter))
                                  - Offset(listing.first, listing.size)
  <2>1. Offset(listing.first, listing.size) = Skipped
    BY <1>1, <1>2, <1>4, OffsetsBegin DEF Skipped, PageRows
  <2>. QED
    BY <1>1, <1>2, <1>4, <2>1 DEF Total, DueNow
<1>5. ASSUME \A a, b \in rows : a # b => \/ ComesBefore(ResolvedSort(listing.sort), a, b)
                                         \/ ComesBefore(ResolvedSort(listing.sort), b, a)
      PROVE  IsInjective(listing.got)
  <2>. PICK list \in AnswerOrders(DueNow, ResolvedSort(listing.sort)) : TRUE
    BY <1>2
  <2>1. \A i, j \in 1..Total : list[i] = list[j] => i = j
    BY <1>1, AnswersListTheFound DEF Total
  <2>2. \A i \in 1..Len(listing.got) : Skipped + i \in 1..Total /\ listing.got[i] = list[Skipped + i]
    BY <1>2, <1>5 DEF GotInOrder
  <2>3. DOMAIN listing.got = 1..Len(listing.got) /\ Skipped \in Int
    <3>1. PageRows \in Nat
      BY <1>1, SizesArePositive DEF PageRows
    <3>. QED
      BY <1>1, <1>3, <3>1 DEF Skipped
  <2>4. ASSUME NEW i \in 1..Len(listing.got), NEW j \in 1..Len(listing.got), listing.got[i] = listing.got[j]
        PROVE  i = j
    <3>1. Skipped + i = Skipped + j
      BY <2>1, <2>2, <2>4
    <3>. QED
      BY <2>3, <3>1
  <2>. QED
    BY <2>3, <2>4 DEF IsInjective
<1>. QED
  BY <1>1, <1>2, <1>3, <1>4, <1>5

\* What a client has got passes the filters that PagingMissesNothing and DeliveredIsAsked
\* speak of.
LEMMA NamedIsAsked ==
  ASSUME ListsInv
  PROVE  DeliveredIsAsked
<1>. DEFINE flat == FlatFields(listing.filter)
<1>1. ASSUME NEW row \in ToSet(listing.got), NEW i \in DOMAIN flat,
             flat[i].kind = "pointer" \/ (flat[i].kind # "nil" /\ ~Zero(flat[i].kind, flat[i].value))
      PROVE  \E k \in DOMAIN flat[i].columns : ColumnMatches(row, flat[i].columns[k], flat[i])
  <2>1. ~EmptyValue(flat[i])
    BY <1>1 DEF EmptyValue
  <2>2. i \in ClausePlaces(listing.filter)
    BY <2>1 DEF ClausePlaces
  <2>3. row \in Filtered(TableRows, listing.filter)
    BY DEF ListsInv, NamedPass
  <2>4. ClauseMatches(row, flat[i])
    BY <2>2, <2>3 DEF Filtered
  <2>. QED
    BY <2>4 DEF ClauseMatches
<1>. QED
  BY <1>1 DEF DeliveredIsAsked

LEMMA ListsAreWhole ==
  ASSUME ListsInv
  PROVE  ListsAreComplete
<1>1. listing.at = "done" /\ listing.how = "cursor" =>
        /\ IsInjective(listing.got)
        /\ \A row \in Filtered(stayed, listing.filter) :
             /\ \E other \in ToSet(listing.got) : other.rank = row.rank
             /\ (\A other \in TableRows \ {row} : other.rank # row.rank) => row \in ToSet(listing.got)
  <2>1. ToSet(listing.got) \subseteq TableRows
    BY DEF ListsInv, NamedPass, Filtered
  <2>2. ASSUME listing.at = "done", listing.how = "cursor"
        PROVE  /\ IsInjective(listing.got)
               /\ \A row \in Filtered(stayed, listing.filter) :
                    \E other \in ToSet(listing.got) : other.rank = row.rank
    BY <2>2 DEF ListsInv, CursorsEnd
  <2>. QED
    BY <2>1, <2>2
<1>2. PagingMissesNothing
  BY <1>1, NumberedListsAreWhole DEF PagingMissesNothing
<1>. QED
  BY <1>2, NamedIsAsked DEF ListsAreComplete

\* ListsAreComplete, for every table, filter, sort, page size and number of changes:
\* filter.ApplyDB, order.ApplyDB, pagination and SelectCursorPage together give a client
\* that reads to the end what it asked for, all of it and no row twice.
THEOREM ListsStayComplete == QuerySpec => []ListsAreComplete
<1>1. QueryInit => ListsInv
  BY ListsStart
<1>2. ListsInv /\ [QueryNext]_queryVars => ListsInv'
  BY QueryStepsKeepTheLists
<1>3. ListsInv => ListsAreComplete
  BY ListsAreWhole
<1>. QED
  BY <1>1, <1>2, <1>3, PTL DEF QuerySpec
=============================================================================
