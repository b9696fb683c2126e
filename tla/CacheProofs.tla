------------------------------ MODULE CacheProofs ------------------------------
(***************************************************************************)
(* What the two levels of the response cache promise, for any number of    *)
(* clients, users and versions, keys, goroutines and entries: routes keep  *)
(* CachedAnswersHold; MemoryCacheStore keeps StoreConsistent, and it       *)
(* implements ResponseCache.                                               *)
(***************************************************************************)
EXTENDS RouteCache, MemoryCacheStore, FiniteSetTheorems, TLAPS

\* A body belongs under a key if it was computed for its user with its method.
OwnBody(body, k) == body # Nothing => k = <<"GET", body.user>>

\* It is good until the key is invalidated, after which only the request that was
\* computing it may still hold or keep it.
NotOutdated(body, k, late) ==
  body # Nothing /\ body.version < cleared[k] => late

KeptAreGood ==
  \A k \in DOMAIN kept :
    OwnBody(kept[k].body, k) /\ NotOutdated(kept[k].body, k, kept[k].late)

CallsAreGood ==
  \A c \in Callers :
    /\ calls[c].at \in {"missed", "recorded", "answered"} => calls[c].user \in Users
    /\ calls[c].at = "recorded" =>
         /\ OwnBody(calls[c].recorded, CacheKey(calls[c]))
         /\ NotOutdated(calls[c].recorded, CacheKey(calls[c]), calls[c].late)

RouteCacheInv ==
  /\ RouteCacheTypeOK /\ \A k \in CacheKeys : cleared[k] <= version
  /\ KeptAreGood /\ CallsAreGood /\ AnswersAreOnesOwn

-----------------------------------------------------------------------------

\* No body is the absence of one.
LEMMA BodiesAreThere == Nothing \notin Bodies
  BY DEF Nothing, Bodies

\* The client that has not called.
LEMMA NoCallIsCall == NoCall \in Calls
  BY DEF NoCall, Calls, Answers, Methods

\* Nothing is kept and nobody has called.
LEMMA RouteCacheStarts == RouteCacheInit => RouteCacheInv
<1>. SUFFICES ASSUME RouteCacheInit PROVE RouteCacheInv
  OBVIOUS
<1>1. RouteCacheTypeOK /\ \A k \in CacheKeys : cleared[k] <= version
  BY RouteCacheAssumption, NoCallIsCall DEF RouteCacheInit, RouteCacheTypeOK, Calls
<1>2. KeptAreGood
  BY DEF RouteCacheInit, KeptAreGood
<1>3. CallsAreGood /\ AnswersAreOnesOwn
  BY DEF RouteCacheInit, CallsAreGood, AnswersAreOnesOwn, NoCall
<1>. QED
  BY <1>1, <1>2, <1>3 DEF RouteCacheInv

\* The call of a client moves on, those of the others stay.
LEMMA MovesOne ==
  ASSUME RouteCacheTypeOK, NEW c \in Callers, NEW call \in Calls, Move(c, call)
  PROVE  /\ calls' \in [Callers -> Calls] /\ calls'[c] = call
         /\ \A d \in Callers \ {c} : calls'[d] = calls[d]
  BY DEF RouteCacheTypeOK, Move

\* A client calls as somebody.
LEMMA NewCallsAreCalls ==
  ASSUME NEW c \in Callers, NEW call \in NewCalls(c)
  PROVE  /\ call \in Calls /\ CacheKey(call) \in CacheKeys /\ call.user \in Users
         /\ call.recorded = Nothing
<1>1. PICK k \in CacheKeys : call = [NoCall EXCEPT !.method = k[1], !.user = k[2]]
  BY DEF NewCalls
<1>2. call \in Calls /\ call.method = k[1] /\ call.user = k[2] /\ call.recorded = Nothing
  BY <1>1 DEF NoCall, Calls, CacheKeys, Answers, Methods
<1>. QED
  BY <1>2 DEF CacheKey, CacheKeys

\* What is answered: a body of one's own, that one's copy is such a body, or none.
Proper(got, call, copy) ==
  /\ got \in Answers
  /\ got[1] = "body" => got[2] \in Bodies /\ got[2].user = call.user /\ call.method = "GET"
  /\ got[1] = "not modified" => copy # Nothing /\ copy.user = call.user

LEMMA WrittenIsProper ==
  ASSUME RouteCacheInv, NEW c \in Callers, NEW call \in Calls,
         NEW body \in Bodies \cup {Nothing}, OwnBody(body, CacheKey(call))
  PROVE  Proper(Written(c, body), call, copies[c])
<1>1. CASE Matches(c, body)
  BY <1>1 DEF Written, Matches, OwnBody, CacheKey, Proper, Answers
<1>2. CASE ~Matches(c, body) /\ body = Nothing
  BY <1>2 DEF Written, Proper, Answers
<1>3. CASE ~Matches(c, body) /\ body # Nothing
  BY <1>3 DEF Written, OwnBody, CacheKey, Proper, Answers
<1>. QED
  BY <1>1, <1>2, <1>3

\* An answer ends a call and changes no other.
LEMMA RepliesAreGood ==
  ASSUME RouteCacheInv, NEW c \in Callers, NEW call \in Calls, call.user \in Users,
         NEW got, Proper(got, call, copies[c]), Reply(c, call, got)
  PROVE  /\ calls' \in [Callers -> Calls]
         /\ calls'[c].at = "answered" /\ calls'[c].user \in Users
         /\ \A d \in Callers \ {c} : calls'[d] = calls[d]
         /\ copies' \in [Callers -> Bodies \cup {Nothing}]
         /\ AnswersAreOnesOwn'
<1>1. PICK answered : answered = [NoCall EXCEPT !.at = "answered", !.method = call.method,
                                                !.user = call.user, !.got = got]
  OBVIOUS
<1>2. /\ answered \in Calls /\ answered.at = "answered" /\ answered.method = call.method
      /\ answered.user = call.user /\ answered.got = got
  BY <1>1 DEF Proper, NoCall, Calls
<1>3. Move(c, answered)
  BY <1>1 DEF Reply, Move
<1>4. /\ calls' \in [Callers -> Calls] /\ calls'[c] = answered
      /\ \A d \in Callers \ {c} : calls'[d] = calls[d]
  BY <1>2, <1>3, MovesOne DEF RouteCacheInv
<1>5. /\ copies' \in [Callers -> Bodies \cup {Nothing}]
      /\ got[1] # "body" => copies'[c] = copies[c]
      /\ \A d \in Callers \ {c} : copies'[d] = copies[d]
  BY DEF RouteCacheInv, RouteCacheTypeOK, Reply, Proper
<1>6. AnswersAreOnesOwn'
  BY <1>2, <1>4, <1>5, ZenonT(40) DEF RouteCacheInv, AnswersAreOnesOwn, Proper
<1>. QED
  BY <1>2, <1>4, <1>5, <1>6

-----------------------------------------------------------------------------
(* The data.                                                               *)

\* A new version outdates what is invalidated from now on.
LEMMA ChangeDataKeeps == ASSUME RouteCacheInv, ChangeData PROVE RouteCacheInv'
<1>1. RouteCacheTypeOK' /\ \A k \in CacheKeys : cleared'[k] <= version'
  BY RouteCacheAssumption DEF RouteCacheInv, RouteCacheTypeOK, ChangeData
<1>2. KeptAreGood' /\ CallsAreGood' /\ AnswersAreOnesOwn'
  BY DEF RouteCacheInv, ChangeData, KeptAreGood, CallsAreGood, AnswersAreOnesOwn, NotOutdated
<1>. QED
  BY <1>1, <1>2 DEF RouteCacheInv

\* An entry that is gone is not outdated.
LEMMA ExpireKeeps == ASSUME RouteCacheInv, NEW touched \in CacheKeys, Expire(touched) PROVE RouteCacheInv'
<1>1. RouteCacheTypeOK' /\ KeptAreGood'
  BY DEF RouteCacheInv, RouteCacheTypeOK, Expire, KeptAreGood, NotOutdated
<1>2. (\A k \in CacheKeys : cleared'[k] <= version') /\ CallsAreGood' /\ AnswersAreOnesOwn'
  BY DEF RouteCacheInv, Expire, CallsAreGood, AnswersAreOnesOwn, NotOutdated
<1>. QED
  BY <1>1, <1>2 DEF RouteCacheInv

\* An invalidation leaves nothing under its key, and marks the answers on their way.
LEMMA InvalidateKeeps ==
  ASSUME RouteCacheInv, NEW touched \in CacheKeys, Invalidate(touched)
  PROVE  RouteCacheInv'
<1>1. /\ cleared' \in [CacheKeys -> 0..LastVersion]
      /\ \A k \in CacheKeys : cleared'[k] = IF k = touched THEN version ELSE cleared[k]
      /\ version' = version /\ copies' = copies
  BY RouteCacheAssumption DEF RouteCacheInv, RouteCacheTypeOK, Invalidate
<1>2. /\ DOMAIN kept' = DOMAIN kept \ {touched}
      /\ \A k \in DOMAIN kept' : kept'[k] = kept[k]
  BY DEF Invalidate
<1>3. ASSUME NEW c \in Callers
      PROVE  /\ calls'[c] \in Calls
             /\ calls'[c].at = calls[c].at /\ calls'[c].method = calls[c].method
             /\ calls'[c].user = calls[c].user /\ calls'[c].recorded = calls[c].recorded
             /\ calls'[c].got = calls[c].got /\ (calls[c].late => calls'[c].late)
             /\ calls[c].at = "recorded" /\ CacheKey(calls[c]) = touched => calls'[c].late
  <2>1. calls[c] \in Calls
    BY DEF RouteCacheInv, RouteCacheTypeOK
  <2>. QED
    BY <2>1 DEF Invalidate, Calls
<1>4. calls' \in [Callers -> Calls]
  BY <1>3 DEF Invalidate
<1>5. RouteCacheTypeOK' /\ \A k \in CacheKeys : cleared'[k] <= version'
  BY <1>1, <1>2, <1>4 DEF RouteCacheInv, RouteCacheTypeOK
<1>6. KeptAreGood'
  BY <1>1, <1>2 DEF RouteCacheInv, RouteCacheTypeOK, KeptAreGood, NotOutdated
<1>7. CallsAreGood'
  <2>. SUFFICES ASSUME NEW c \in Callers
                PROVE  /\ calls'[c].at \in {"missed", "recorded", "answered"} => calls'[c].user \in Users
                       /\ calls'[c].at = "recorded" =>
                            /\ OwnBody(calls'[c].recorded, CacheKey(calls'[c]))
                            /\ NotOutdated(calls[c].recorded, CacheKey(calls[c]), calls[c].late)'
    BY DEF CallsAreGood
  <2>1. CacheKey(calls'[c]) = CacheKey(calls[c])
    BY <1>3 DEF CacheKey
  <2>2. calls[c].user \in Users => CacheKey(calls[c]) \in CacheKeys
    BY DEF RouteCacheInv, RouteCacheTypeOK, Calls, CacheKey, CacheKeys
  <2>. QED
    BY <1>1, <1>3, <2>1, <2>2 DEF RouteCacheInv, CallsAreGood, NotOutdated
<1>8. AnswersAreOnesOwn'
  <2>1. copies' = copies
    BY DEF Invalidate
  <2>2. SUFFICES ASSUME NEW c \in Callers, calls'[c].at = "answered"
                 PROVE  /\ calls'[c].got[1] = "body" =>
                             calls'[c].got[2].user = calls'[c].user /\ calls'[c].method = "GET"
                        /\ calls'[c].got[1] = "not modified" =>
                             copies[c] # Nothing /\ copies[c].user = calls'[c].user
    BY <2>1 DEF AnswersAreOnesOwn
  <2>. QED
    BY <1>3, <2>2 DEF RouteCacheInv, AnswersAreOnesOwn
<1>. QED
  BY <1>5, <1>6, <1>7, <1>8 DEF RouteCacheInv

-----------------------------------------------------------------------------
(* wrapCache.                                                              *)

\* A step that answers one call and keeps nothing.
LEMMA AnsweredKeeps ==
  ASSUME RouteCacheInv, NEW c \in Callers, NEW call \in Calls, call.user \in Users,
         NEW got, Proper(got, call, copies[c]), Reply(c, call, got),
         UNCHANGED <<version, kept, cleared>>
  PROVE  RouteCacheInv'
<1>1. RouteCacheTypeOK' /\ \A k \in CacheKeys : cleared'[k] <= version'
  BY RepliesAreGood DEF RouteCacheInv, RouteCacheTypeOK
<1>2. KeptAreGood' /\ CallsAreGood' /\ AnswersAreOnesOwn'
  BY RepliesAreGood DEF RouteCacheInv, KeptAreGood, CallsAreGood, NotOutdated
<1>. QED
  BY <1>1, <1>2 DEF RouteCacheInv

\* What is kept under the key of a call is its own.
LEMMA AnswerFromCacheKeeps ==
  ASSUME RouteCacheInv, NEW c \in Callers, AnswerFromCache(c)
  PROVE  RouteCacheInv'
<1>1. PICK call \in NewCalls(c) :
        /\ CacheKey(call) \in DOMAIN kept
        /\ Reply(c, call, Written(c, kept[CacheKey(call)].body))
  BY DEF AnswerFromCache
<1>2. PICK body : body = kept[CacheKey(call)].body
  OBVIOUS
<1>3. body \in Bodies \cup {Nothing} /\ OwnBody(body, CacheKey(call))
  BY <1>1, <1>2 DEF RouteCacheInv, RouteCacheTypeOK, KeptAreGood
<1>4. call \in Calls /\ call.user \in Users
  BY NewCallsAreCalls
<1>5. PICK got : got = Written(c, body)
  OBVIOUS
<1>6. Proper(got, call, copies[c]) /\ Reply(c, call, got)
  BY <1>1, <1>2, <1>3, <1>4, <1>5, WrittenIsProper DEF Reply, Move
<1>. QED
  BY <1>4, <1>6, AnsweredKeeps DEF AnswerFromCache

\* A call begins, with nothing recorded.
LEMMA MissKeeps == ASSUME RouteCacheInv, NEW c \in Callers, Miss(c) PROVE RouteCacheInv'
<1>1. PICK call \in NewCalls(c) : Move(c, [call EXCEPT !.at = "missed"])
  BY DEF Miss
<1>2. PICK missed : missed = [call EXCEPT !.at = "missed"]
  OBVIOUS
<1>3. missed \in Calls /\ missed.at = "missed" /\ missed.user \in Users
  BY <1>2, NewCallsAreCalls DEF Calls
<1>4. /\ calls' \in [Callers -> Calls] /\ calls'[c] = missed
      /\ \A d \in Callers \ {c} : calls'[d] = calls[d]
  BY <1>1, <1>2, <1>3, MovesOne DEF RouteCacheInv, Move
<1>5. RouteCacheTypeOK' /\ KeptAreGood' /\ \A k \in CacheKeys : cleared'[k] <= version'
  BY <1>4 DEF RouteCacheInv, RouteCacheTypeOK, KeptAreGood, NotOutdated, Miss
<1>6. CallsAreGood' /\ AnswersAreOnesOwn'
  BY <1>3, <1>4, ZenonT(40) DEF RouteCacheInv, CallsAreGood, AnswersAreOnesOwn, NotOutdated, Miss
<1>. QED
  BY <1>5, <1>6 DEF RouteCacheInv

\* What is computed now is of the version there is now.
LEMMA ComputeKeeps == ASSUME RouteCacheInv, NEW c \in Callers, Compute(c) PROVE RouteCacheInv'
<1>1. PICK body :
        body = IF calls[c].method = "HEAD" THEN Nothing
               ELSE [method |-> "GET", user |-> calls[c].user, version |-> version]
  OBVIOUS
<1>2. calls[c] \in Calls /\ calls[c].user \in Users /\ version \in 0..LastVersion
  BY DEF RouteCacheInv, RouteCacheTypeOK, CallsAreGood, Compute
<1>3. body \in Bodies \cup {Nothing} /\ OwnBody(body, CacheKey(calls[c]))
      /\ (body # Nothing => body.version = version)
  BY <1>1, <1>2 DEF Bodies, OwnBody, CacheKey, Calls, Methods
<1>4. PICK call : call = [calls[c] EXCEPT !.at = "recorded", !.recorded = body]
  OBVIOUS
<1>5. /\ call \in Calls /\ call.at = "recorded" /\ call.user \in Users /\ call.recorded = body
      /\ CacheKey(call) = CacheKey(calls[c]) /\ CacheKey(call) \in CacheKeys
  BY <1>2, <1>3, <1>4 DEF Calls, CacheKey, CacheKeys
<1>6. Move(c, call)
  BY <1>1, <1>4 DEF Compute, Move
<1>7. /\ calls' \in [Callers -> Calls] /\ calls'[c] = call
      /\ \A d \in Callers \ {c} : calls'[d] = calls[d]
  BY <1>5, <1>6, MovesOne DEF RouteCacheInv
<1>8. RouteCacheTypeOK' /\ KeptAreGood' /\ \A k \in CacheKeys : cleared'[k] <= version'
  BY <1>7 DEF RouteCacheInv, RouteCacheTypeOK, KeptAreGood, NotOutdated, Compute
<1>9. CallsAreGood'
  <2>1. NotOutdated(body, CacheKey(call), call.late)'
    BY <1>3, <1>5 DEF RouteCacheInv, RouteCacheTypeOK, NotOutdated, Compute
  <2>. QED
    BY <1>3, <1>5, <1>7, <2>1 DEF RouteCacheInv, CallsAreGood, NotOutdated, Compute
<1>10. AnswersAreOnesOwn'
  BY <1>5, <1>7 DEF RouteCacheInv, AnswersAreOnesOwn, Compute
<1>. QED
  BY <1>8, <1>9, <1>10 DEF RouteCacheInv

\* What is not cached is no body to a client that compares ETags.
LEMMA ComputeUncachedKeeps ==
  ASSUME RouteCacheInv, NEW c \in Callers, ComputeUncached(c)
  PROVE  RouteCacheInv'
<1>1. calls[c] \in Calls /\ calls[c].user \in Users
  BY DEF RouteCacheInv, RouteCacheTypeOK, CallsAreGood, ComputeUncached
<1>2. PICK call, got : call = calls[c] /\ got = <<"uncached">>
  OBVIOUS
<1>3. Proper(got, call, copies[c])
  BY <1>2 DEF Proper, Answers
<1>4. Reply(c, call, got)
  BY <1>2 DEF ComputeUncached, Reply, Move
<1>. QED
  BY <1>1, <1>2, <1>3, <1>4, AnsweredKeeps DEF ComputeUncached

\* A copy that is matched by what was computed is the client's own.
LEMMA AnswerNotModifiedKeeps ==
  ASSUME RouteCacheInv, NEW c \in Callers, AnswerNotModified(c)
  PROVE  RouteCacheInv'
<1>1. /\ calls[c] \in Calls /\ calls[c].user \in Users
      /\ OwnBody(calls[c].recorded, CacheKey(calls[c]))
  BY DEF RouteCacheInv, RouteCacheTypeOK, CallsAreGood, AnswerNotModified
<1>2. PICK call, got : call = calls[c] /\ got = <<"not modified">>
  OBVIOUS
<1>3. Proper(got, call, copies[c])
  BY <1>1, <1>2 DEF AnswerNotModified, Matches, OwnBody, CacheKey, Proper, Answers
<1>4. Reply(c, call, got)
  BY <1>2 DEF AnswerNotModified, Reply, Move
<1>. QED
  BY <1>1, <1>2, <1>3, <1>4, AnsweredKeeps DEF AnswerNotModified

\* What is kept was recorded for its key, and is outdated only if it was on its way.
LEMMA AnswerAndKeepKeeps ==
  ASSUME RouteCacheInv, NEW c \in Callers, AnswerAndKeep(c)
  PROVE  RouteCacheInv'
<1>1. PICK call : call = calls[c]
  OBVIOUS
<1>2. /\ call \in Calls /\ call.user \in Users /\ CacheKey(call) \in CacheKeys
      /\ OwnBody(call.recorded, CacheKey(call))
      /\ NotOutdated(call.recorded, CacheKey(call), call.late)
      /\ call.recorded \in Bodies \cup {Nothing} /\ call.late \in BOOLEAN
  BY <1>1
  DEF RouteCacheInv, RouteCacheTypeOK, CallsAreGood, AnswerAndKeep, Calls, CacheKey, CacheKeys
<1>3. PICK got : got = Written(c, call.recorded)
  OBVIOUS
<1>4. Proper(got, call, copies[c])
  BY <1>2, <1>3, WrittenIsProper
<1>5. Reply(c, call, got)
  BY <1>1, <1>3 DEF AnswerAndKeep, Reply, Move
<1>6. PICK entry : entry = [body |-> call.recorded, late |-> call.late]
  OBVIOUS
<1>7. /\ entry \in [body : Bodies \cup {Nothing}, late : BOOLEAN]
      /\ entry.body = call.recorded /\ entry.late = call.late
  BY <1>2, <1>6
<1>8. /\ DOMAIN kept' = DOMAIN kept \cup {CacheKey(call)}
      /\ \A k \in DOMAIN kept' : kept'[k] = IF k = CacheKey(call) THEN entry ELSE kept[k]
      /\ UNCHANGED <<version, cleared>>
  BY <1>1, <1>6 DEF AnswerAndKeep
<1>9. RouteCacheTypeOK' /\ \A k \in CacheKeys : cleared'[k] <= version'
  BY <1>2, <1>4, <1>5, <1>7, <1>8, RepliesAreGood DEF RouteCacheInv, RouteCacheTypeOK
<1>10. KeptAreGood'
  BY <1>2, <1>7, <1>8 DEF RouteCacheInv, KeptAreGood, NotOutdated
<1>11. CallsAreGood' /\ AnswersAreOnesOwn'
  BY <1>2, <1>4, <1>5, <1>8, RepliesAreGood DEF RouteCacheInv, CallsAreGood, NotOutdated
<1>. QED
  BY <1>9, <1>10, <1>11 DEF RouteCacheInv

-----------------------------------------------------------------------------

\* Every step keeps the invariant.
LEMMA RouteCacheSteps == RouteCacheInv /\ [RouteCacheNext]_routeCacheVars => RouteCacheInv'
<1>. SUFFICES ASSUME RouteCacheInv, [RouteCacheNext]_routeCacheVars PROVE RouteCacheInv'
  OBVIOUS
<1>1. ASSUME NEW user \in Users PROVE <<"GET", user>> \in CacheKeys
  BY DEF CacheKeys, Methods
<1>2. CASE UNCHANGED routeCacheVars
  BY <1>2
  DEF routeCacheVars, RouteCacheInv, RouteCacheTypeOK, KeptAreGood, CallsAreGood, AnswersAreOnesOwn,
      NotOutdated
<1>. QED
  BY <1>1, <1>2, ChangeDataKeeps, InvalidateKeeps, ExpireKeeps, AnswerFromCacheKeeps, MissKeeps,
     ComputeKeeps, ComputeUncachedKeeps, AnswerNotModifiedKeeps, AnswerAndKeepKeeps
  DEF RouteCacheNext

\* The invariant holds in every reachable state.
THEOREM RouteCacheInvHolds == RouteCacheSpec => []RouteCacheInv
<1>1. RouteCacheInit => RouteCacheInv
  BY RouteCacheStarts
<1>2. RouteCacheInv /\ [RouteCacheNext]_routeCacheVars => RouteCacheInv'
  BY RouteCacheSteps
<1>. QED
  BY <1>1, <1>2, PTL DEF RouteCacheSpec

\* Whatever is kept, computed and invalidated at the same time, a client gets only what
\* was computed for it, is told that its copy is good only if it was, and no answer is
\* kept that was invalidated before its computation began (cache.go 263-392, 111-132).
THEOREM CachedAnswersAreGood == RouteCacheSpec => []CachedAnswersHold
<1>1. RouteCacheInv => CachedAnswersHold
  BY DEF RouteCacheInv, KeptAreGood, NotOutdated, CachedAnswersHold,
         OnlyFlyingAnswersOutliveInvalidation
<1>. QED
  BY <1>1, RouteCacheInvHolds, PTL

-----------------------------------------------------------------------------
(* Lists from which elements are removed.                                  *)

\* The places of a list can be counted, each of them has a number, and a later one
\* has a greater one.
LEMMA PlacesAreNumbered ==
  ASSUME NEW n \in Nat, NEW places \in SUBSET (1..n)
  PROVE  /\ IsFiniteSet(places) /\ Cardinality(places) \in Nat
         /\ \A i \in 1..Cardinality(places) : Nth(places, i) \in places
         /\ \A p \in places : \E i \in 1..Cardinality(places) : Nth(places, i) = p
         /\ \A i, j \in 1..Cardinality(places) : i < j => Nth(places, i) < Nth(places, j)
<1>. DEFINE Upto(p) == {q \in places : q <= p}
            number == [p \in places |-> Cardinality(Upto(p))]
            count == Cardinality(places)
<1>1. IsFiniteSet(places) /\ count \in Nat /\ \A p \in places : p \in Nat
  <2>1. IsFiniteSet(1..n) /\ \A p \in places : p \in Nat
    BY FS_Interval
  <2>2. IsFiniteSet(places)
    BY <2>1, FS_Subset
  <2>. QED
    BY <2>1, <2>2, FS_CardinalityType
<1>2. ASSUME NEW p \in places
      PROVE  IsFiniteSet(Upto(p)) /\ Cardinality(Upto(p)) \in 1..count
  <2>1. Upto(p) \in SUBSET places /\ p \in Upto(p)
    OBVIOUS
  <2>2. IsFiniteSet(Upto(p)) /\ Cardinality(Upto(p)) <= count /\ Cardinality(Upto(p)) \in Nat
    BY <1>1, <2>1, FS_Subset, FS_CardinalityType
  <2>3. Cardinality(Upto(p)) # 0
    BY <2>1, <2>2, FS_EmptySet
  <2>. QED
    BY <1>1, <2>2, <2>3
<1>3. ASSUME NEW p \in places, NEW q \in places, p < q
      PROVE  Cardinality(Upto(p)) < Cardinality(Upto(q))
  <2>1. q <= q /\ ~(q <= p) /\ \A x \in places : x <= p => x <= q
    BY <1>1, <1>3
  <2>2. Upto(p) \in SUBSET Upto(q) /\ q \in Upto(q) /\ q \notin Upto(p)
    BY <2>1, Zenon
  <2>. HIDE DEF Upto
  <2>3. Upto(p) # Upto(q)
    BY <2>2
  <2>. QED
    BY <1>1, <1>2, <2>2, <2>3, FS_Subset
<1>4. number \in Surjection(places, 1..count)
  <2>1. number \in [places -> 1..count]
    BY <1>2
  <2>2. ASSUME NEW p \in places, NEW q \in places, number[p] = number[q] PROVE p = q
    <3>1. p \in Nat /\ q \in Nat /\ ~(p < q) /\ ~(q < p)
      BY <1>2, <1>3, <2>2
    <3>. QED
      BY <3>1
  <2>3. number \in Injection(places, 1..count)
    BY <2>1, <2>2 DEF Injection, IsInjective
  <2>4. IsFiniteSet(1..count) /\ Cardinality(1..count) = count
    BY <1>1, FS_Interval
  <2>. HIDE DEF number
  <2>. QED
    BY <2>3, <2>4, FS_Injection
<1>5. ASSUME NEW i \in 1..count
      PROVE  Nth(places, i) \in places /\ number[Nth(places, i)] = i
  <2>1. \E p \in places : Cardinality({q \in places : q <= p}) = i
    BY <1>4 DEF Surjection
  <2>. QED
    BY <2>1 DEF Nth
<1>6. ASSUME NEW p \in places PROVE \E i \in 1..count : Nth(places, i) = p
  <2>1. PICK i : i = number[p]
    OBVIOUS
  <2>2. i \in 1..count
    BY <1>2, <2>1
  <2>3. Nth(places, i) \in places /\ number[Nth(places, i)] = number[p]
    BY <1>5, <2>1, <2>2
  <2>4. PICK q : q = Nth(places, i)
    OBVIOUS
  <2>5. q \in places /\ Cardinality(Upto(q)) = Cardinality(Upto(p))
    BY <2>3, <2>4
  <2>. HIDE DEF Upto
  <2>6. ~(q < p) /\ ~(p < q)
    BY <1>2, <1>3, <2>5
  <2>. QED
    BY <1>1, <2>2, <2>4, <2>5, <2>6
<1>7. ASSUME NEW i \in 1..count, NEW j \in 1..count, i < j
      PROVE  Nth(places, i) < Nth(places, j)
  <2>1. PICK p, q : p = Nth(places, i) /\ q = Nth(places, j)
    OBVIOUS
  <2>2. p \in places /\ q \in places /\ number[p] = i /\ number[q] = j
    BY <1>5, <2>1
  <2>3. ~(q < p) /\ p # q
    BY <1>3, <1>7, <2>2
  <2>. QED
    BY <2>1, <2>2, <2>3
<1>. QED
  BY <1>1, <1>5, <1>6, <1>7

\* What is left of a list: what stood at the places, in the same order, nothing twice
\* that was not there twice.
LEMMA PickedIsLeft ==
  ASSUME NEW S, NEW list \in Seq(S), NEW places \in SUBSET DOMAIN list
  PROVE  /\ Picked(list, places) \in Seq(S)
         /\ Len(Picked(list, places)) = Cardinality(places)
         /\ ToSet(Picked(list, places)) = {list[p] : p \in places}
         /\ IsInjective(list) => IsInjective(Picked(list, places))
<1>1. Len(list) \in Nat /\ DOMAIN list = 1..Len(list)
  OBVIOUS
<1>2. PICK left : left = Picked(list, places)
  OBVIOUS
<1>3. /\ Cardinality(places) \in Nat
      /\ \A i \in 1..Cardinality(places) : Nth(places, i) \in places
      /\ \A p \in places : \E i \in 1..Cardinality(places) : Nth(places, i) = p
      /\ \A i, j \in 1..Cardinality(places) : i < j => Nth(places, i) < Nth(places, j)
  BY <1>1, PlacesAreNumbered
<1>4. /\ DOMAIN left = 1..Cardinality(places)
      /\ \A i \in DOMAIN left : left[i] = list[Nth(places, i)]
  BY <1>2 DEF Picked
<1>5. left \in Seq(S) /\ Len(left) = Cardinality(places)
  <2>1. \A i \in 1..Cardinality(places) : left[i] \in S
    BY <1>1, <1>3, <1>4
  <2>2. left = [i \in 1..Cardinality(places) |-> list[Nth(places, i)]]
    BY <1>2 DEF Picked
  <2>. QED
    BY <1>3, <1>4, <2>1, <2>2
<1>6. ToSet(left) = {list[p] : p \in places}
  BY <1>3, <1>4 DEF ToSet
<1>7. ASSUME IsInjective(list), NEW i \in DOMAIN left, NEW j \in DOMAIN left, left[i] = left[j]
      PROVE  i = j
  <2>1. Nth(places, i) = Nth(places, j)
    BY <1>3, <1>4, <1>7 DEF IsInjective
  <2>2. ~(i < j) /\ ~(j < i)
    BY <1>1, <1>3, <1>4, <2>1
  <2>. QED
    BY <1>3, <1>4, <2>2
<1>. QED
  BY <1>2, <1>5, <1>6, <1>7 DEF IsInjective

-----------------------------------------------------------------------------
(* MemoryCacheStore.                                                       *)

\* The three structures of a store describe the same keys, each at one place of the
\* list.
Sound(store) ==
  /\ store = [items |-> store.items, order |-> store.order, entries |-> store.entries]
  /\ store.entries \in SUBSET Keys
  /\ DOMAIN store.items = store.entries
  /\ \A k \in store.entries : store.items[k] \in Response
  /\ store.order \in Seq(Keys)
  /\ ToSet(store.order) = store.entries
  /\ IsInjective(store.order)

\* What the calls of Get hold.
GetsTyped ==
  /\ now \in 1..MaxTime /\ sets \in 0..MaxSets
  /\ pc \in [Goroutines -> {"idle", "read", "reap", "promote"}]
  /\ key \in [Goroutines -> Keys \cup {NoKey}]
  /\ value \in [Goroutines -> Response \cup {NoResponse}]
  /\ \A g \in Goroutines :
       /\ pc[g] # "idle" => key[g] # NoKey /\ value[g] # NoResponse
       /\ pc[g] = "reap" => Expired(value[g])

StoreInv == Sound(Store) /\ GetsTyped /\ Len(order) <= MaxEntries

\* The invariant has the types in it.
LEMMA StoreIsTyped == StoreInv => TypeOK
  BY DEF StoreInv, Sound, Store, TypeOK, GetsTyped

\* How many numbers there are up to n.
LEMMA NumbersAreCounted == \A n \in Nat : IsFiniteSet(1..n) /\ Cardinality(1..n) = n
  BY FS_Interval

\* The list is as long as the map is large.
LEMMA ListIsAsLongAsMap ==
  ASSUME NEW store, Sound(store)
  PROVE  /\ Len(store.order) \in Nat /\ DOMAIN store.order = 1..Len(store.order)
         /\ Cardinality(store.entries) = Len(store.order)
<1>1. PICK list : list = store.order
  OBVIOUS
<1>2. list \in Seq(Keys) /\ ToSet(list) = store.entries /\ IsInjective(list)
  BY <1>1 DEF Sound
<1>3. Len(list) \in Nat /\ DOMAIN list = 1..Len(list)
  BY <1>2
<1>4. list \in Bijection(1..Len(list), store.entries)
  <2>1. \A k \in store.entries : \E i \in 1..Len(list) : list[i] = k
    BY <1>2, <1>3 DEF ToSet
  <2>2. list \in [1..Len(list) -> store.entries]
    BY <1>2, <1>3 DEF ToSet
  <2>. QED
    BY <1>2, <2>1, <2>2 DEF Bijection, Injection, Surjection
<1>5. IsFiniteSet(1..Len(list)) /\ Cardinality(1..Len(list)) = Len(list)
  BY <1>3, NumbersAreCounted
<1>6. ExistsBijection(1..Len(list), store.entries)
  BY <1>4 DEF ExistsBijection
<1>. QED
  BY <1>1, <1>3, <1>5, <1>6, FS_Bijection

\* Deleted keys leave all three structures, the others stay as they are.
IsLeft(left, store, gone) ==
  /\ Sound(left) /\ left.entries = store.entries \ gone
  /\ \A k \in left.entries : left.items[k] = store.items[k]
  /\ left.order = Picked(store.order, {i \in DOMAIN store.order : store.order[i] \notin gone})
  /\ Len(left.order) <= Len(store.order)

LEMMA DeletionIsSound ==
  ASSUME NEW store, Sound(store), NEW gone, NEW left, left = DeleteKeys(store, gone)
  PROVE  IsLeft(left, store, gone)
<1>. DEFINE places == {i \in DOMAIN store.order : store.order[i] \notin gone}
<1>1. /\ Len(store.order) \in Nat /\ DOMAIN store.order = 1..Len(store.order)
      /\ store.order \in Seq(Keys) /\ ToSet(store.order) = store.entries /\ IsInjective(store.order)
  BY ListIsAsLongAsMap DEF Sound
<1>2. \A i \in DOMAIN store.order : store.order[i] \in store.entries
  BY <1>1 DEF ToSet
<1>3. places = {i \in DOMAIN store.order : store.order[i] \notin gone \cap store.entries}
  BY <1>2
<1>4. /\ left.entries = store.entries \ gone /\ left.items = Drop(store.items, gone)
      /\ left.order = Picked(store.order, places)
  BY <1>3 DEF DeleteKeys
<1>5. /\ DOMAIN left.items = left.entries
      /\ \A k \in left.entries : left.items[k] = store.items[k]
  BY <1>4 DEF Drop, Sound
<1>. HIDE DEF places
<1>6. /\ left.order \in Seq(Keys) /\ Len(left.order) = Cardinality(places)
      /\ ToSet(left.order) = {store.order[p] : p \in places} /\ IsInjective(left.order)
  <2>1. places \in SUBSET DOMAIN store.order
    BY DEF places
  <2>. QED
    BY <1>1, <1>4, <2>1, PickedIsLeft
<1>7. ToSet(left.order) = left.entries
  BY <1>1, <1>4, <1>6 DEF ToSet, places
<1>8. Len(left.order) <= Len(store.order)
  <2>1. places \in SUBSET (1..Len(store.order))
    BY <1>1 DEF places
  <2>2. IsFiniteSet(1..Len(store.order)) /\ Cardinality(1..Len(store.order)) = Len(store.order)
    BY <1>1, NumbersAreCounted
  <2>. QED
    BY <1>6, <2>1, <2>2, FS_Subset
<1>9. Sound(left)
  BY <1>4, <1>5, <1>6, <1>7 DEF Sound, DeleteKeys
<1>. QED
  BY <1>4, <1>5, <1>8, <1>9 DEF places, IsLeft

\* The first element of the list is in the map, so that one entry is evicted.
LEMMA EvictionIsSound ==
  ASSUME NEW store, Sound(store), Len(store.order) # 0, NEW left, left = EvictOldest(store)
  PROVE  /\ Sound(left) /\ left.entries = store.entries \ {store.order[1]}
         /\ \A k \in left.entries : left.items[k] = store.items[k]
         /\ left.order = Tail(store.order) /\ Len(left.order) = Len(store.order) - 1
<1>1. /\ Len(store.order) \in Nat \ {0} /\ DOMAIN store.order = 1..Len(store.order)
      /\ store.order \in Seq(Keys) /\ ToSet(store.order) = store.entries
      /\ DOMAIN store.items = store.entries /\ IsInjective(store.order)
  BY ListIsAsLongAsMap DEF Sound
<1>. DEFINE stored == {i \in DOMAIN store.order : store.order[i] \in DOMAIN store.items}
            upto == IF stored = {} THEN Len(store.order)
                    ELSE CHOOSE i \in stored : \A j \in stored : i <= j
<1>2. stored = 1..Len(store.order)
  BY <1>1 DEF ToSet
<1>3. upto = 1
  <2>. HIDE DEF stored
  <2>1. 1 \in stored /\ \A j \in stored : 1 <= j
    BY <1>1, <1>2
  <2>2. upto \in stored /\ \A j \in stored : upto <= j
    BY <2>1
  <2>. HIDE DEF upto
  <2>. QED
    BY <1>1, <1>2, <2>2
<1>4. /\ left.items = Drop(store.items, {store.order[i] : i \in 1..1})
      /\ left.order = SubSeq(store.order, 2, Len(store.order))
      /\ left.entries = store.entries \ {store.order[i] : i \in 1..1}
  <2>1. left = [items |-> Drop(store.items, {store.order[i] : i \in 1..upto}),
                order |-> SubSeq(store.order, upto + 1, Len(store.order)),
                entries |-> store.entries \ {store.order[i] : i \in 1..upto}]
    BY DEF EvictOldest
  <2>. HIDE DEF upto
  <2>. QED
    BY <1>3, <2>1
<1>5. {store.order[i] : i \in 1..1} = {store.order[1]}
  OBVIOUS
<1>6. /\ left.order = Tail(store.order) /\ left.order \in Seq(Keys)
      /\ Len(left.order) = Len(store.order) - 1
      /\ DOMAIN left.order = 1..(Len(store.order) - 1)
      /\ \A i \in DOMAIN left.order : left.order[i] = store.order[i + 1]
  BY <1>1, <1>4
<1>7. /\ DOMAIN left.items = left.entries
      /\ \A k \in left.entries : left.items[k] = store.items[k]
  BY <1>1, <1>4, <1>5 DEF Drop
<1>. HIDE DEF stored, upto
<1>8. \A i \in DOMAIN left.order :
        i \in Nat \ {0} /\ i + 1 \in DOMAIN store.order /\ left.order[i] = store.order[i + 1]
  BY <1>1, <1>6
<1>9. IsInjective(left.order)
  <2>. SUFFICES ASSUME NEW i \in DOMAIN left.order, NEW j \in DOMAIN left.order,
                       left.order[i] = left.order[j]
                PROVE  i = j
    BY DEF IsInjective
  <2>1. i + 1 = j + 1
    BY <1>1, <1>8 DEF IsInjective
  <2>. QED
    BY <1>8, <2>1
<1>10. ToSet(left.order) = left.entries
  <2>1. ASSUME NEW i \in DOMAIN left.order PROVE left.order[i] \in left.entries
    <3>1. store.order[i + 1] \in store.entries /\ i + 1 # 1 /\ 1 \in DOMAIN store.order
      BY <1>1, <1>8 DEF ToSet
    <3>2. store.order[i + 1] # store.order[1]
      BY <1>1, <1>8, <3>1 DEF IsInjective
    <3>. QED
      BY <1>4, <1>5, <1>8, <3>1, <3>2
  <2>2. ASSUME NEW k \in left.entries PROVE \E i \in DOMAIN left.order : left.order[i] = k
    <3>1. PICK i \in 1..Len(store.order) : store.order[i] = k
      BY <1>1, <1>4 DEF ToSet
    <3>2. i # 1 /\ i - 1 \in DOMAIN left.order /\ left.order[i - 1] = k
      BY <1>1, <1>4, <1>5, <1>6, <3>1, <2>2
    <3>. QED
      BY <3>2
  <2>3. \A k : k \in ToSet(left.order) <=> k \in left.entries
    BY <1>6, <2>1, <2>2 DEF ToSet
  <2>. QED
    BY <1>4, <2>3 DEF ToSet
<1>11. Sound(left)
  BY <1>1, <1>4, <1>6, <1>7, <1>9, <1>10 DEF Sound, EvictOldest
<1>. QED
  BY <1>4, <1>5, <1>6, <1>7, <1>11

\* A promoted key is the last of the list, and the others keep their order.
LEMMA PromotionIsSound ==
  ASSUME NEW store, Sound(store), NEW k \in store.entries,
         NEW left, left = PromoteKey(store, k)
  PROVE  /\ Sound(left) /\ left.entries = store.entries /\ left.items = store.items
         /\ left.order =
              Append(Picked(store.order, {i \in DOMAIN store.order : store.order[i] # k}), k)
         /\ Len(left.order) = Len(store.order)
<1>. DEFINE places == {i \in DOMAIN store.order : store.order[i] # k}
            rest == Picked(store.order, places)
<1>1. /\ Len(store.order) \in Nat /\ DOMAIN store.order = 1..Len(store.order)
      /\ store.order \in Seq(Keys) /\ ToSet(store.order) = store.entries /\ IsInjective(store.order)
      /\ store.entries \in SUBSET Keys
  BY ListIsAsLongAsMap DEF Sound
<1>2. /\ left.entries = store.entries /\ left.items = store.items
      /\ left.order = Append(rest, k)
  <2>1. left = [store EXCEPT !.order = Append(rest, k)]
    BY DEF PromoteKey
  <2>. HIDE DEF rest
  <2>. QED
    BY <2>1 DEF Sound
<1>3. /\ rest \in Seq(Keys) /\ Len(rest) = Cardinality(places) /\ IsInjective(rest)
      /\ ToSet(rest) = {store.order[p] : p \in places}
  <2>1. places \in SUBSET DOMAIN store.order
    OBVIOUS
  <2>. HIDE DEF places
  <2>. QED
    BY <1>1, <2>1, PickedIsLeft
<1>4. Cardinality(places) = Len(store.order) - 1
  <2>1. PICK i \in DOMAIN store.order : store.order[i] = k
    BY <1>1 DEF ToSet
  <2>2. places = (1..Len(store.order)) \ {i} /\ i \in 1..Len(store.order)
    BY <1>1, <2>1 DEF IsInjective
  <2>3. /\ IsFiniteSet(1..Len(store.order))
        /\ Cardinality(1..Len(store.order)) = Len(store.order)
    BY <1>1, NumbersAreCounted
  <2>. HIDE DEF places
  <2>. QED
    BY <2>2, <2>3, FS_RemoveElement
<1>5. ToSet(rest) = store.entries \ {k}
  BY <1>1, <1>3 DEF ToSet
<1>. HIDE DEF places, rest
<1>6. /\ left.order \in Seq(Keys) /\ Len(left.order) = Len(store.order)
      /\ DOMAIN left.order = 1..Len(store.order) /\ DOMAIN rest = 1..(Len(store.order) - 1)
      /\ \A i \in DOMAIN left.order :
           left.order[i] = IF i = Len(store.order) THEN k ELSE rest[i]
  BY <1>1, <1>2, <1>3, <1>4
<1>7. IsInjective(left.order) /\ ToSet(left.order) = left.entries
  <2>1. Len(store.order) # 0
    BY <1>1 DEF ToSet
  <2>2. \A i \in DOMAIN rest : rest[i] # k /\ rest[i] \in store.entries
    BY <1>5 DEF ToSet
  <2>3. IsInjective(left.order)
    BY <1>1, <1>3, <1>6, <2>1, <2>2 DEF IsInjective
  <2>4. ASSUME NEW x \in store.entries PROVE \E i \in DOMAIN left.order : left.order[i] = x
    <3>1. CASE x = k
      BY <1>1, <1>6, <2>1, <3>1
    <3>2. CASE x # k
      BY <1>1, <1>5, <1>6, <3>2, SMTT(20) DEF ToSet
    <3>. QED
      BY <3>1, <3>2
  <2>. QED
    BY <1>1, <1>2, <1>6, <2>2, <2>3, <2>4 DEF ToSet
<1>8. Sound(left)
  BY <1>1, <1>2, <1>6, <1>7 DEF Sound, PromoteKey
<1>. QED
  BY <1>2, <1>6, <1>8 DEF rest, places

\* A key that was not there is the last of the list with its response.
LEMMA InsertionIsSound ==
  ASSUME NEW store, Sound(store), NEW k \in Keys \ store.entries, NEW response \in Response,
         NEW left, left = Assign(PushBack(store, k), k, response)
  PROVE  /\ Sound(left) /\ left.entries = store.entries \cup {k}
         /\ left.items[k] = response
         /\ \A x \in store.entries : left.items[x] = store.items[x]
         /\ left.order = Append(store.order, k) /\ Len(left.order) = Len(store.order) + 1
<1>1. /\ Len(store.order) \in Nat /\ DOMAIN store.order = 1..Len(store.order)
      /\ store.order \in Seq(Keys) /\ ToSet(store.order) = store.entries /\ IsInjective(store.order)
      /\ store.entries \in SUBSET Keys /\ DOMAIN store.items = store.entries
  BY ListIsAsLongAsMap DEF Sound
<1>2. /\ left = [items |-> left.items, order |-> left.order, entries |-> left.entries]
      /\ left.entries = store.entries \cup {k} /\ left.order = Append(store.order, k)
      /\ left.items = [x \in store.entries \cup {k} |-> IF x = k THEN response ELSE store.items[x]]
  BY <1>1 DEF Sound, PushBack, Assign
<1>3. /\ DOMAIN left.items = left.entries /\ left.items[k] = response
      /\ \A x \in store.entries : left.items[x] = store.items[x]
  BY <1>2
<1>4. /\ left.order \in Seq(Keys) /\ Len(left.order) = Len(store.order) + 1
      /\ DOMAIN left.order = 1..(Len(store.order) + 1)
      /\ \A i \in DOMAIN left.order :
           left.order[i] = IF i = Len(store.order) + 1 THEN k ELSE store.order[i]
  BY <1>1, <1>2
<1>5. ToSet(left.order) = left.entries
  <2>1. \A i \in DOMAIN left.order : left.order[i] \in left.entries
    BY <1>1, <1>2, <1>4 DEF ToSet
  <2>2. ASSUME NEW x \in left.entries PROVE \E i \in DOMAIN left.order : left.order[i] = x
    BY <1>1, <1>2, <1>4 DEF ToSet
  <2>3. \A x : x \in ToSet(left.order) <=> x \in left.entries
    BY <2>1, <2>2 DEF ToSet
  <2>. QED
    BY <1>2, <2>3 DEF ToSet
<1>6. IsInjective(left.order)
  <2>1. \A i \in 1..Len(store.order) : store.order[i] # k
    BY <1>1 DEF ToSet
  <2>. QED
    BY <1>1, <1>4, <2>1 DEF IsInjective
<1>7. Sound(left)
  BY <1>1, <1>2, <1>3, <1>4, <1>5, <1>6 DEF Sound
<1>. QED
  BY <1>2, <1>3, <1>4, <1>7

\* A response in place of another one.
LEMMA AssignmentIsSound ==
  ASSUME NEW store, Sound(store), NEW k \in store.entries, NEW response \in Response,
         NEW left, left = Assign(store, k, response)
  PROVE  /\ Sound(left) /\ left.entries = store.entries /\ left.order = store.order
         /\ left.items[k] = response
         /\ \A x \in store.entries \ {k} : left.items[x] = store.items[x]
<1>1. DOMAIN store.items = store.entries
  BY DEF Sound
<1>2. /\ left = [items |-> left.items, order |-> left.order, entries |-> left.entries]
      /\ left.entries = store.entries /\ left.order = store.order
      /\ left.items = [x \in store.entries |-> IF x = k THEN response ELSE store.items[x]]
  BY <1>1 DEF Sound, Assign
<1>3. /\ DOMAIN left.items = left.entries /\ left.items[k] = response
      /\ \A x \in store.entries \ {k} : left.items[x] = store.items[x]
  BY <1>2
<1>4. Sound(left)
  BY <1>2, <1>3 DEF Sound
<1>. QED
  BY <1>2, <1>3, <1>4

\* What a new key finds in the list: expired entries are gone and there is room.
Fresh == Picked(order, {i \in DOMAIN order : ~Expired(items[order[i]])})
FreshRoom == IF Len(Fresh) >= MaxEntries THEN Tail(Fresh) ELSE Fresh

LEMMA RoomIsSound ==
  ASSUME StoreInv, NEW room, room = RoomFor(Store)
  PROVE  /\ Sound(room) /\ room.entries \subseteq entries
         /\ \A x \in room.entries : room.items[x] = items[x]
         /\ room.order = FreshRoom /\ Len(room.order) < MaxEntries
<1>1. /\ Store.items = items /\ Store.order = order /\ Store.entries = entries
      /\ Sound(Store) /\ Len(order) <= MaxEntries
      /\ Len(order) \in Nat /\ MaxEntries \in Nat \ {0}
  BY ListIsAsLongAsMap, StoreAssumption DEF StoreInv, Store
<1>2. PICK gone : gone = {k \in DOMAIN items : Expired(items[k])}
  OBVIOUS
<1>3. PICK pruned : pruned = DeleteKeys(Store, gone)
  OBVIOUS
<1>4. /\ Sound(pruned) /\ pruned.entries = entries \ gone
      /\ \A k \in pruned.entries : pruned.items[k] = items[k]
      /\ pruned.order = Picked(order, {i \in DOMAIN order : order[i] \notin gone})
      /\ Len(pruned.order) <= Len(order)
  <2>1. IsLeft(pruned, Store, gone)
    BY <1>1, <1>3, DeletionIsSound
  <2>. QED
    BY <1>1, <2>1 DEF IsLeft
<1>5. {i \in DOMAIN order : order[i] \notin gone} = {i \in DOMAIN order : ~Expired(items[order[i]])}
  BY <1>1, <1>2 DEF Sound, ToSet
<1>6. pruned.order = Fresh /\ Len(pruned.order) \in Nat
      /\ Cardinality(DOMAIN pruned.items) = Len(pruned.order)
  BY <1>4, <1>5, ListIsAsLongAsMap DEF Fresh, Sound
<1>7. room = IF Len(Fresh) >= MaxEntries THEN EvictOldest(pruned) ELSE pruned
  BY <1>1, <1>2, <1>3, <1>6 DEF RoomFor, PruneExpired
<1>8. CASE Len(Fresh) >= MaxEntries
  <2>1. room = EvictOldest(pruned) /\ Len(pruned.order) # 0
    BY <1>1, <1>6, <1>7, <1>8
  <2>2. /\ Sound(room) /\ room.entries = pruned.entries \ {pruned.order[1]}
        /\ \A k \in room.entries : room.items[k] = pruned.items[k]
        /\ room.order = Tail(pruned.order) /\ Len(room.order) = Len(pruned.order) - 1
    BY <1>4, <2>1, EvictionIsSound
  <2>3. room.order = FreshRoom /\ Len(room.order) < MaxEntries
    BY <1>1, <1>4, <1>6, <1>8, <2>2 DEF FreshRoom
  <2>. QED
    BY <1>4, <2>2, <2>3
<1>9. CASE ~(Len(Fresh) >= MaxEntries)
  BY <1>1, <1>4, <1>6, <1>7, <1>9 DEF FreshRoom
<1>. QED
  BY <1>8, <1>9

\* What a call of Set leaves.
LEMMA SetIsSound ==
  ASSUME StoreInv, NEW k \in Keys, NEW lifetime \in Lifetimes, Set(k, lifetime)
  PROVE  \E left : \E response \in Response :
           /\ Sound(left) /\ Len(left.order) <= MaxEntries /\ Becomes(left)
           /\ left.items[k] = response /\ (k \in entries => left.entries = entries)
           /\ \A x \in left.entries \ {k} : left.items[x] = items[x]
           /\ left.order =
                Append(IF k \in entries THEN Picked(order, {i \in DOMAIN order : order[i] # k})
                       ELSE FreshRoom, k)
<1>1. /\ Store.items = items /\ Store.order = order /\ Store.entries = entries
      /\ Sound(Store) /\ Len(order) <= MaxEntries /\ DOMAIN items = entries
      /\ Len(order) \in Nat /\ MaxEntries \in Nat \ {0}
  BY ListIsAsLongAsMap, StoreAssumption DEF StoreInv, Store, Sound
<1>2. PICK response : response = [id |-> sets + 1,
                                  expires |-> IF lifetime = 0 THEN 0 ELSE now + lifetime]
  OBVIOUS
<1>3. response \in Response
  <2>1. sets + 1 \in 1..MaxSets /\ now \in 1..MaxTime
    BY StoreAssumption DEF StoreInv, GetsTyped, Set
  <2>. QED
    BY <1>2, <2>1 DEF Response, Expiries
<1>4. CASE k \in entries
  <2>1. PICK placed, left : placed = PromoteKey(Store, k) /\ left = Assign(placed, k, response)
    OBVIOUS
  <2>2. Becomes(left)
    BY <1>1, <1>2, <1>4, <2>1 DEF Set
  <2>3. /\ Sound(placed) /\ placed.entries = entries /\ placed.items = items
        /\ placed.order = Append(Picked(order, {i \in DOMAIN order : order[i] # k}), k)
        /\ Len(placed.order) = Len(order)
    <3>1. k \in Store.entries
      BY <1>1, <1>4
    <3>2. /\ Sound(placed) /\ placed.entries = Store.entries /\ placed.items = Store.items
          /\ placed.order =
               Append(Picked(Store.order, {i \in DOMAIN Store.order : Store.order[i] # k}), k)
          /\ Len(placed.order) = Len(Store.order)
      BY <1>1, <2>1, <3>1, PromotionIsSound
    <3>. QED
      BY <1>1, <3>2
  <2>4. /\ Sound(left) /\ left.entries = placed.entries /\ left.order = placed.order
        /\ left.items[k] = response
        /\ \A x \in placed.entries \ {k} : left.items[x] = placed.items[x]
    BY <1>3, <1>4, <2>1, <2>3, AssignmentIsSound
  <2>. QED
    BY <1>1, <1>3, <1>4, <2>2, <2>3, <2>4
<1>5. CASE k \notin entries
  <2>1. PICK room, left : room = RoomFor(Store) /\ left = Assign(PushBack(room, k), k, response)
    OBVIOUS
  <2>2. Becomes(left)
    BY <1>1, <1>2, <1>5, <2>1 DEF Set
  <2>3. /\ Sound(room) /\ room.entries \subseteq entries
        /\ \A x \in room.entries : room.items[x] = items[x]
        /\ room.order = FreshRoom /\ Len(room.order) < MaxEntries
    BY <2>1, RoomIsSound
  <2>4. /\ Sound(left) /\ left.entries = room.entries \cup {k}
        /\ left.items[k] = response
        /\ \A x \in room.entries : left.items[x] = room.items[x]
        /\ left.order = Append(room.order, k) /\ Len(left.order) = Len(room.order) + 1
    BY <1>3, <1>5, <2>1, <2>3, InsertionIsSound
  <2>5. Len(left.order) <= MaxEntries
    BY <1>1, <2>3, <2>4, ListIsAsLongAsMap
  <2>. QED
    BY <1>3, <1>5, <2>2, <2>3, <2>4, <2>5
<1>. QED
  BY <1>4, <1>5

\* The store of the next state is the one that was computed.
LEMMA NewStoreIsSound ==
  ASSUME NEW left, Sound(left), Len(left.order) <= MaxEntries, Becomes(left)
  PROVE  Sound(Store)' /\ Len(order') <= MaxEntries
<1>1. Sound([items |-> items', order |-> order', entries |-> entries'])
  BY DEF Sound, Becomes
<1>. QED
  BY <1>1 DEF Sound, Store, Becomes, Response, Expiries

\* An empty store, with nobody reading.
LEMMA StoreStarts == Init => StoreInv
<1>. SUFFICES ASSUME Init PROVE StoreInv
  OBVIOUS
<1>1. order \in Seq(Keys) /\ DOMAIN order = {} /\ Len(order) = 0
  BY DEF Init
<1>2. Sound(Store)
  BY <1>1 DEF Init, Store, Sound, ToSet, IsInjective
<1>3. GetsTyped /\ Len(order) <= MaxEntries
  BY <1>1, StoreAssumption DEF Init, GetsTyped
<1>. QED
  BY <1>1, <1>2, <1>3 DEF StoreInv

\* Time that passes makes nothing fresh.
LEMMA TickKeeps == ASSUME StoreInv, Tick PROVE StoreInv'
<1>1. Sound(Store)' /\ Len(order') <= MaxEntries
  BY DEF StoreInv, Tick, Sound, Store, storeVars, Response, Expiries
<1>2. GetsTyped'
  <2>1. /\ now \in 1..MaxTime /\ now' = now + 1 /\ now' \in 1..MaxTime
        /\ pc' = pc /\ key' = key /\ value' = value /\ sets' = sets
    BY StoreAssumption DEF StoreInv, GetsTyped, Tick, getVars
  <2>2. \A g \in Goroutines : pc[g] = "reap" => Expired(value[g])'
    <3>1. \A response \in Response : response.expires \in Nat
      BY StoreAssumption DEF Response, Expiries
    <3>2. ASSUME NEW g \in Goroutines, pc[g] = "reap" PROVE value[g] \in Response /\ Expired(value[g])
      BY <3>2 DEF StoreInv, GetsTyped
    <3>. QED
      BY <2>1, <3>1, <3>2 DEF Expired
  <2>. QED
    BY <2>1, <2>2 DEF StoreInv, GetsTyped
<1>. QED
  BY <1>1, <1>2 DEF StoreInv

\* A response is put where it belongs, and no key is there twice.
LEMMA SetKeeps ==
  ASSUME StoreInv, NEW k \in Keys, NEW lifetime \in Lifetimes, Set(k, lifetime)
  PROVE  StoreInv'
<1>1. Sound(Store)' /\ Len(order') <= MaxEntries
  BY SetIsSound, NewStoreIsSound
<1>2. GetsTyped'
  BY StoreAssumption DEF StoreInv, GetsTyped, Set, getVars, Expired, Response, Expiries
<1>. QED
  BY <1>1, <1>2 DEF StoreInv

\* A deletion, of several keys or of one that has expired.
LEMMA DeletionKeeps ==
  ASSUME StoreInv, NEW gone, Becomes(DeleteKeys(Store, gone))
  PROVE  Sound(Store)' /\ Len(order') <= MaxEntries
<1>1. PICK left : left = DeleteKeys(Store, gone)
  OBVIOUS
<1>2. Sound(Store) /\ Len(order) <= MaxEntries /\ Store.order = order
  BY DEF StoreInv, Store
<1>3. IsLeft(left, Store, gone)
  BY <1>1, <1>2, DeletionIsSound
<1>4. Sound(left) /\ Len(left.order) <= Len(order)
  BY <1>2, <1>3 DEF IsLeft
<1>5. Len(left.order) <= MaxEntries
  BY <1>2, <1>4, ListIsAsLongAsMap, StoreAssumption
<1>. QED
  BY <1>1, <1>4, <1>5, NewStoreIsSound

LEMMA DeleteManyKeeps ==
  ASSUME StoreInv, NEW keys \in SUBSET Keys, DeleteMany(keys)
  PROVE  StoreInv'
<1>1. Sound(Store)' /\ Len(order') <= MaxEntries
  BY DeletionKeeps DEF DeleteMany
<1>2. GetsTyped'
  BY DEF StoreInv, GetsTyped, DeleteMany, getVars, Expired, Response, Expiries
<1>. QED
  BY <1>1, <1>2 DEF StoreInv

\* A Get that returns holds nothing any more.
LEMMA ReturnKeeps ==
  ASSUME StoreInv, NEW g \in Goroutines, GetReturns(g)
  PROVE  GetsTyped'
  BY DEF StoreInv, GetsTyped, GetReturns, Expired

\* What a Get reads is a response; it is reaped only if it has expired.
LEMMA GetReadKeeps ==
  ASSUME StoreInv, NEW g \in Goroutines, NEW k \in Keys, GetRead(g, k)
  PROVE  StoreInv'
<1>1. Sound(Store)' /\ Len(order') <= MaxEntries
  BY DEF StoreInv, GetRead, Sound, Store, storeVars, Response, Expiries
<1>2. GetsTyped'
  <2>1. items[k] \in Response /\ k # NoKey /\ items[k] # NoResponse
    BY StoreAssumption, NoResponseAssumption DEF StoreInv, Sound, Store, GetRead
  <2>. QED
    BY <2>1 DEF StoreInv, GetsTyped, GetRead, Expired
<1>. QED
  BY <1>1, <1>2 DEF StoreInv

LEMMA GetClockKeeps ==
  ASSUME StoreInv, NEW g \in Goroutines, GetClock(g)
  PROVE  StoreInv'
<1>1. Sound(Store)' /\ Len(order') <= MaxEntries
  BY DEF StoreInv, GetClock, Sound, Store, storeVars, Response, Expiries
<1>2. GetsTyped'
  BY DEF StoreInv, GetsTyped, GetClock, Expired
<1>. QED
  BY <1>1, <1>2 DEF StoreInv

LEMMA GetReapKeeps ==
  ASSUME StoreInv, NEW g \in Goroutines, GetReap(g)
  PROVE  StoreInv'
<1>1. UNCHANGED storeVars => Sound(Store)' /\ Len(order') <= MaxEntries
  BY DEF StoreInv, Sound, Store, storeVars, Response, Expiries
<1>2. Becomes(DeleteKeys(Store, {key[g]})) => Sound(Store)' /\ Len(order') <= MaxEntries
  BY DeletionKeeps
<1>3. Sound(Store)' /\ Len(order') <= MaxEntries
  BY <1>1, <1>2 DEF GetReap
<1>. QED
  BY <1>3, ReturnKeeps DEF GetReap, StoreInv

LEMMA GetPromoteKeeps ==
  ASSUME StoreInv, NEW g \in Goroutines, GetPromote(g)
  PROVE  StoreInv'
<1>1. PICK left : left = PromoteKey(Store, key[g])
  OBVIOUS
<1>2. Sound(Store) /\ Len(order) <= MaxEntries /\ Store.order = order
  BY DEF StoreInv, Store
<1>3. Sound(left) /\ Len(left.order) = Len(order)
  <2>1. CASE key[g] \in Store.entries
    BY <1>1, <1>2, <2>1, PromotionIsSound
  <2>2. CASE key[g] \notin Store.entries
    BY <1>1, <1>2, <2>2 DEF PromoteKey
  <2>. QED
    BY <2>1, <2>2
<1>4. Sound(Store)' /\ Len(order') <= MaxEntries
  BY <1>1, <1>2, <1>3, NewStoreIsSound DEF GetPromote
<1>. QED
  BY <1>4, ReturnKeeps DEF GetPromote, StoreInv

\* Every step of the store keeps the invariant.
LEMMA StoreStep == ASSUME StoreInv, [Next]_vars PROVE StoreInv'
<1>1. CASE UNCHANGED vars
  BY <1>1
     DEF StoreInv, vars, storeVars, getVars, Sound, Store, GetsTyped, Response, Expiries, Expired
<1>2. CASE Tick
  BY <1>2, TickKeeps
<1>3. CASE \E k \in Keys, lifetime \in Lifetimes : Set(k, lifetime)
  BY <1>3, SetKeeps
<1>4. CASE \E keys \in SUBSET Keys : DeleteMany(keys)
  BY <1>4, DeleteManyKeeps
<1>5. ASSUME NEW g \in Goroutines, GetStep(g) PROVE StoreInv'
  BY <1>5, GetReadKeeps, GetClockKeeps, GetReapKeeps, GetPromoteKeeps DEF GetStep
<1>. QED
  BY <1>1, <1>2, <1>3, <1>4, <1>5 DEF Next

\* The invariant of the store: its types, and three structures that agree.
THEOREM StoreInvHolds == Spec => []StoreInv
<1>. QED
  BY StoreStarts, StoreStep, PTL DEF Spec

\* The map, the list and the index of MemoryCacheStore describe the same keys, each
\* once, and no more than the limit, whatever calls overlap.
THEOREM StoreIsConsistent == Spec => []StoreConsistent
<1>1. StoreInv => StoreConsistent
  <2>. SUFFICES ASSUME StoreInv PROVE StoreConsistent
    OBVIOUS
  <2>1. /\ Sound(Store) /\ Len(order) <= MaxEntries
        /\ Store.items = items /\ Store.order = order /\ Store.entries = entries
    BY DEF StoreInv, Store
  <2>. QED
    BY <2>1, ListIsAsLongAsMap DEF StoreConsistent, Sound
<1>. QED
  BY <1>1, StoreInvHolds, PTL

-----------------------------------------------------------------------------
(* The store implements the cache.                                         *)

\* The entries of a list of keys.
LineOf(list, responses) ==
  [i \in DOMAIN list |-> [key |-> list[i], object |-> responses[list[i]]]]

\* The cache picks as the store does: its operator is another instance of the same one.
LEMMA PickedAgree == \A list, places : Cache!Picked(list, places) = Picked(list, places)
  BY Zenon DEF Cache!Picked, Picked, Cache!Nth, Nth, Cache!Cardinality, Cardinality

\* What is picked from the list is picked from the line.
LEMMA LineOfPicked ==
  ASSUME NEW list \in Seq(Keys), NEW places \in SUBSET DOMAIN list,
         NEW before, NEW after, \A p \in places : after[list[p]] = before[list[p]]
  PROVE  LineOf(Picked(list, places), after) = Cache!Picked(LineOf(list, before), places)
<1>1. Len(list) \in Nat /\ DOMAIN list = 1..Len(list)
  OBVIOUS
<1>2. \A n \in 1..Cardinality(places) : Nth(places, n) \in places
  BY <1>1, PlacesAreNumbered
<1>3. LineOf(Picked(list, places), after) =
        [n \in 1..Cardinality(places) |->
           [key |-> list[Nth(places, n)], object |-> after[list[Nth(places, n)]]]]
  BY DEF LineOf, Picked
<1>4. Picked(LineOf(list, before), places) =
        [n \in 1..Cardinality(places) |->
           [key |-> list[Nth(places, n)], object |-> before[list[Nth(places, n)]]]]
  BY <1>2 DEF LineOf, Picked
<1>5. LineOf(Picked(list, places), after) = Picked(LineOf(list, before), places)
  BY <1>2, <1>3, <1>4
<1>. QED
  BY <1>5, PickedAgree

\* Append and Tail, place by place.
LEMMA AppendIs ==
  ASSUME NEW S, NEW s \in Seq(S), NEW e \in S
  PROVE  Append(s, e) = [i \in 1..(Len(s) + 1) |-> IF i = Len(s) + 1 THEN e ELSE s[i]]
<1>1. PICK t : t = Append(s, e)
  OBVIOUS
<1>2. t \in Seq(S) /\ Len(t) = Len(s) + 1 /\ DOMAIN t = 1..(Len(s) + 1)
  BY <1>1
<1>3. \A i \in 1..(Len(s) + 1) : t[i] = IF i = Len(s) + 1 THEN e ELSE s[i]
  BY <1>1
<1>4. t = [i \in DOMAIN t |-> t[i]]
  BY <1>2
<1>. QED
  BY <1>1, <1>2, <1>3, <1>4

LEMMA TailIs ==
  ASSUME NEW S, NEW s \in Seq(S), Len(s) # 0
  PROVE  Tail(s) = [i \in 1..(Len(s) - 1) |-> s[i + 1]]
<1>1. PICK t : t = Tail(s)
  OBVIOUS
<1>2. t \in Seq(S) /\ Len(t) = Len(s) - 1 /\ DOMAIN t = 1..(Len(s) - 1)
  BY <1>1
<1>3. \A i \in 1..(Len(s) - 1) : t[i] = s[i + 1]
  BY <1>1
<1>4. t = [i \in DOMAIN t |-> t[i]]
  BY <1>2
<1>. QED
  BY <1>1, <1>2, <1>3, <1>4

\* The last key of the list is the last entry of the line.
LEMMA LineOfAppended ==
  ASSUME NEW list \in Seq(Keys), NEW k \in Keys,
         NEW before, NEW after, \A i \in DOMAIN list : after[list[i]] = before[list[i]]
  PROVE  LineOf(Append(list, k), after) =
           Append(LineOf(list, before), [key |-> k, object |-> after[k]])
<1>1. /\ Len(list) \in Nat /\ DOMAIN list = 1..Len(list)
      /\ DOMAIN Append(list, k) = 1..(Len(list) + 1)
      /\ \A i \in 1..Len(list) : Append(list, k)[i] = list[i]
      /\ Append(list, k)[Len(list) + 1] = k
  OBVIOUS
<1>2. PICK line : line = LineOf(list, before)
  OBVIOUS
<1>3. line \in Seq({[key |-> x, object |-> before[x]] : x \in Keys}) /\ Len(line) = Len(list)
  BY <1>1, <1>2 DEF LineOf
<1>4. PICK entry : entry = [key |-> k, object |-> after[k]]
  OBVIOUS
<1>5. Append(line, entry) =
        [i \in 1..(Len(list) + 1) |-> IF i = Len(list) + 1 THEN entry ELSE line[i]]
  <2>1. PICK Entries : Entries = {[key |-> x, object |-> before[x]] : x \in Keys} \cup {entry}
    OBVIOUS
  <2>2. line \in Seq(Entries) /\ entry \in Entries
    BY <1>3, <2>1
  <2>. QED
    BY <1>3, <2>2, AppendIs
<1>6. LineOf(Append(list, k), after) =
        [i \in 1..(Len(list) + 1) |-> IF i = Len(list) + 1 THEN entry ELSE line[i]]
  BY <1>1, <1>2, <1>4 DEF LineOf
<1>. QED
  BY <1>2, <1>4, <1>5, <1>6

\* The line without its first entry is that of the list without its first key.
LEMMA LineOfTail ==
  ASSUME NEW list \in Seq(Keys), Len(list) # 0, NEW responses
  PROVE  LineOf(Tail(list), responses) = Tail(LineOf(list, responses))
<1>1. /\ Len(list) \in Nat /\ DOMAIN list = 1..Len(list)
      /\ DOMAIN Tail(list) = 1..(Len(list) - 1)
      /\ \A i \in 1..(Len(list) - 1) : Tail(list)[i] = list[i + 1]
  OBVIOUS
<1>2. PICK line : line = LineOf(list, responses)
  OBVIOUS
<1>3. line \in Seq({[key |-> x, object |-> responses[x]] : x \in Keys}) /\ Len(line) = Len(list)
  BY <1>1, <1>2 DEF LineOf
<1>4. Tail(line) = [i \in 1..(Len(list) - 1) |-> line[i + 1]]
  <2>1. PICK Entries : Entries = {[key |-> x, object |-> responses[x]] : x \in Keys}
    OBVIOUS
  <2>2. line \in Seq(Entries) /\ Len(line) # 0
    BY <1>3, <2>1
  <2>. QED
    BY <1>3, <2>2, TailIs
<1>5. LineOf(Tail(list), responses) = [i \in 1..(Len(list) - 1) |-> line[i + 1]]
  BY <1>1, <1>2 DEF LineOf
<1>. QED
  BY <1>2, <1>4, <1>5

\* The line of a sound store, its keys and their responses.
LEMMA LineHolds ==
  ASSUME StoreInv
  PROVE  /\ Line = LineOf(order, items)
         /\ order \in Seq(Keys) /\ DOMAIN Line = DOMAIN order
         /\ \A i \in DOMAIN order : /\ order[i] \in entries /\ Line[i].key = order[i]
                                    /\ Line[i].object = items[order[i]]
         /\ \A k : Cache!Holds(k) <=> k \in entries
         /\ \A k \in entries : Cache!ObjectOf(k) = items[k]
         /\ entries \in SUBSET Keys /\ DOMAIN items = entries
         /\ \A k \in entries : items[k] \in Response
<1>1. /\ order \in Seq(Keys) /\ ToSet(order) = entries /\ IsInjective(order)
      /\ entries \in SUBSET Keys /\ DOMAIN items = entries
      /\ \A k \in entries : items[k] \in Response
  BY DEF StoreInv, Sound, Store
<1>2. /\ Line = LineOf(order, items) /\ DOMAIN Line = DOMAIN order
      /\ \A i \in DOMAIN order :
           Line[i] = [key |-> order[i], object |-> items[order[i]]]
  BY DEF Line, LineOf
<1>3. \A i \in DOMAIN order : order[i] \in entries
  BY <1>1 DEF ToSet
<1>4. \A k : Cache!Holds(k) <=> k \in entries
  BY <1>1, <1>2, <1>3 DEF Cache!Holds, ToSet
<1>5. ASSUME NEW k \in entries PROVE Cache!ObjectOf(k) = items[k]
  <2>1. PICK n \in DOMAIN order : order[n] = k
    BY <1>1 DEF ToSet
  <2>2. Line[n] \in Cache!ToSet(Line) /\ Line[n].key = k
    BY <1>2, <2>1 DEF Cache!ToSet
  <2>3. PICK entry : entry = CHOOSE e \in Cache!ToSet(Line) : e.key = k
    OBVIOUS
  <2>4. entry \in Cache!ToSet(Line) /\ entry.key = k
    BY <2>2, <2>3
  <2>5. PICK i \in DOMAIN order : entry = Line[i]
    BY <1>2, <2>4 DEF Cache!ToSet
  <2>6. entry.object = items[k]
    BY <1>2, <2>4, <2>5
  <2>. QED
    BY <2>3, <2>6 DEF Cache!ObjectOf
<1>. QED
  BY <1>1, <1>2, <1>3, <1>4, <1>5

\* The line without some keys.
LEMMA WithoutIs ==
  ASSUME StoreInv, NEW gone
  PROVE  LET places == {i \in DOMAIN order : order[i] \notin gone}
         IN Cache!Without(gone) = Cache!Picked(LineOf(order, items), places)
<1>1. {i \in DOMAIN Line : Line[i].key \notin gone} = {i \in DOMAIN order : order[i] \notin gone}
  BY LineHolds
<1>. QED
  BY <1>1, LineHolds DEF Cache!Without

\* The line of the next state.
LEMMA NextLineIs == Line' = LineOf(order', items')
  BY DEF Line, LineOf

\* Deletion: the line loses the entries of those keys.
LEMMA DeletionForgets ==
  ASSUME StoreInv, NEW gone, Becomes(DeleteKeys(Store, gone))
  PROVE  Line' = Cache!Without(gone)
<1>. DEFINE places == {i \in DOMAIN order : order[i] \notin gone}
<1>1. PICK left : left = DeleteKeys(Store, gone)
  OBVIOUS
<1>2. Sound(Store) /\ Store.order = order /\ Store.items = items /\ Store.entries = entries
  BY DEF StoreInv, Store
<1>3. IsLeft(left, Store, gone)
  BY <1>1, <1>2, DeletionIsSound
<1>4. /\ order' = Picked(order, places)
      /\ \A k \in entries \ gone : items'[k] = items[k]
  BY <1>1, <1>2, <1>3 DEF IsLeft, Becomes
<1>5. places \in SUBSET DOMAIN order /\ \A p \in places : items'[order[p]] = items[order[p]]
  BY <1>4, LineHolds
<1>6. LineOf(Picked(order, places), items') = Cache!Picked(LineOf(order, items), places)
  <2>. HIDE DEF places
  <2>. QED
    BY <1>5, LineHolds, LineOfPicked
<1>. QED
  BY <1>4, <1>6, NextLineIs, WithoutIs

LEMMA DeleteManyForgets ==
  ASSUME StoreInv, NEW keys \in SUBSET Keys, DeleteMany(keys)
  PROVE  Cache!Forget(keys)
  BY DeletionForgets DEF DeleteMany, Cache!Forget

\* A Get that reaps removes an entry that has expired, and the others leave the cache
\* alone.
LEMMA GetReapReaps ==
  ASSUME StoreInv, NEW g \in Goroutines, GetReap(g)
  PROVE  (\E k \in Keys : Cache!Reap(k)) \/ UNCHANGED Cache!cacheVars
<1>1. CASE key[g] \in DOMAIN items /\ items[key[g]] = value[g]
  <2>1. key[g] \in entries /\ key[g] \in Keys
    BY <1>1, LineHolds
  <2>2. Expired(value[g])
    BY DEF StoreInv, GetsTyped, GetReap
  <2>3. Cache!Holds(key[g]) /\ Cache!Expired(Cache!ObjectOf(key[g]))
    BY <1>1, <2>1, <2>2, LineHolds DEF Expired, Cache!Expired
  <2>4. Line' = Cache!Without({key[g]}) /\ UNCHANGED now
    BY <1>1, DeletionForgets DEF GetReap, GetReturns
  <2>. QED
    BY <2>1, <2>3, <2>4 DEF Cache!Reap
<1>2. CASE ~(key[g] \in DOMAIN items /\ items[key[g]] = value[g])
  BY <1>2 DEF GetReap, GetReturns, storeVars, Line, Cache!cacheVars
<1>. QED
  BY <1>1, <1>2

\* The list without one key, with it at the end.
LEMMA LineWithLast ==
  ASSUME StoreInv, NEW k \in entries,
         order' = Append(Picked(order, {i \in DOMAIN order : order[i] # k}), k),
         \A x \in entries \ {k} : items'[x] = items[x]
  PROVE  Line' = Append(Cache!Without({k}), [key |-> k, object |-> items'[k]])
<1>. DEFINE places == {i \in DOMAIN order : order[i] \notin {k}}
<1>1. {i \in DOMAIN order : order[i] # k} = places
  OBVIOUS
<1>2. PICK rest : rest = Picked(order, places)
  OBVIOUS
<1>3. /\ order \in Seq(Keys) /\ k \in Keys /\ places \in SUBSET DOMAIN order
      /\ \A p \in places : order[p] \in entries \ {k}
  BY LineHolds
<1>. HIDE DEF places
<1>4. rest \in Seq(Keys) /\ ToSet(rest) = {order[p] : p \in places}
  BY <1>2, <1>3, PickedIsLeft
<1>5. \A i \in DOMAIN rest : rest[i] \in entries \ {k}
  <2>1. \A i \in DOMAIN rest : rest[i] \in ToSet(rest)
    BY DEF ToSet
  <2>. QED
    BY <1>3, <1>4, <2>1
<1>6. LineOf(Append(rest, k), items') = Append(LineOf(rest, items), [key |-> k, object |-> items'[k]])
  <2>1. PICK after : after = items'
    OBVIOUS
  <2>2. \A i \in DOMAIN rest : after[rest[i]] = items[rest[i]]
    BY <1>5, <2>1
  <2>3. rest \in Seq(Keys) /\ k \in Keys
    BY <1>3, <1>4
  <2>4. LineOf(Append(rest, k), after) =
          Append(LineOf(rest, items), [key |-> k, object |-> after[k]])
    BY <2>2, <2>3, LineOfAppended
  <2>. QED
    BY <2>1, <2>4
<1>7. LineOf(rest, items) = Cache!Picked(LineOf(order, items), places)
  BY <1>2, <1>3, LineOfPicked
<1>8. Cache!Without({k}) = Cache!Picked(LineOf(order, items), places)
  BY WithoutIs DEF places
<1>. QED
  BY <1>1, <1>2, <1>6, <1>7, <1>8, NextLineIs

\* A Get that promotes uses the entry, if the key is still there: whatever response it
\* has by now.
LEMMA GetPromoteUses ==
  ASSUME StoreInv, NEW g \in Goroutines, GetPromote(g)
  PROVE  (\E k \in Keys : Cache!Use(k)) \/ UNCHANGED Cache!cacheVars
<1>1. PICK left : left = PromoteKey(Store, key[g])
  OBVIOUS
<1>2. /\ Sound(Store) /\ Store.order = order /\ Store.items = items /\ Store.entries = entries
      /\ Becomes(left) /\ now' = now
  BY <1>1 DEF StoreInv, Store, GetPromote, GetReturns
<1>3. CASE key[g] \in entries
  <2>1. PICK k \in entries : k = key[g]
    BY <1>3
  <2>2. left.items = Store.items
        /\ left.order =
             Append(Picked(Store.order, {i \in DOMAIN Store.order : Store.order[i] # k}), k)
    <3>1. k \in Store.entries /\ left = PromoteKey(Store, k) /\ Sound(Store)
      BY <1>1, <1>2, <2>1
    <3>. QED
      BY <3>1, PromotionIsSound
  <2>3. items' = items /\ order' = Append(Picked(order, {i \in DOMAIN order : order[i] # k}), k)
    BY <1>2, <2>2 DEF Becomes
  <2>4. Line' = Append(Cache!Without({k}), [key |-> k, object |-> items[k]])
    BY <2>3, LineWithLast
  <2>5. Cache!Holds(k) /\ Cache!ObjectOf(k) = items[k] /\ k \in Keys
    BY LineHolds
  <2>. QED
    BY <1>2, <2>4, <2>5 DEF Cache!Use
<1>4. CASE key[g] \notin entries
  <2>1. left = Store
    BY <1>1, <1>2, <1>4 DEF PromoteKey
  <2>. QED
    BY <1>2, <2>1 DEF Becomes, Line, Cache!cacheVars
<1>. QED
  BY <1>3, <1>4

\* The room that the store makes is the room of the cache.
LEMMA RoomIs ==
  ASSUME StoreInv
  PROVE  /\ FreshRoom \in Seq(Keys) /\ \A i \in DOMAIN FreshRoom : FreshRoom[i] \in entries
         /\ LineOf(FreshRoom, items) = Cache!Room
<1>. DEFINE places == {i \in DOMAIN order : ~Expired(items[order[i]])}
<1>1. order \in Seq(Keys) /\ places \in SUBSET DOMAIN order /\ \A p \in places : order[p] \in entries
  BY LineHolds
<1>2. {i \in DOMAIN Line : ~Cache!Expired(Line[i].object)} = places
  BY LineHolds DEF Expired, Cache!Expired
<1>. HIDE DEF places
<1>3. Fresh = Picked(order, places)
  BY DEF Fresh, places
<1>4. Fresh \in Seq(Keys) /\ ToSet(Fresh) = {order[p] : p \in places}
  BY <1>1, <1>3, PickedIsLeft
<1>5. Len(Fresh) \in Nat /\ DOMAIN Fresh = 1..Len(Fresh) /\ \A i \in DOMAIN Fresh : Fresh[i] \in entries
  BY <1>1, <1>4 DEF ToSet
<1>6. LineOf(Fresh, items) = Cache!Picked(Line, places)
  BY <1>1, <1>3, LineHolds, LineOfPicked
<1>7. Len(LineOf(Fresh, items)) = Len(Fresh)
  BY <1>5 DEF LineOf
<1>8. Cache!Room = IF Len(Fresh) >= MaxEntries THEN Tail(LineOf(Fresh, items)) ELSE LineOf(Fresh, items)
  BY <1>2, <1>6, <1>7 DEF Cache!Room
<1>9. CASE Len(Fresh) >= MaxEntries
  <2>1. Len(Fresh) # 0 /\ FreshRoom = Tail(Fresh)
    BY <1>5, <1>9, StoreAssumption DEF FreshRoom
  <2>2. FreshRoom \in Seq(Keys) /\ \A i \in DOMAIN FreshRoom : FreshRoom[i] \in entries
    BY <1>4, <1>5, <2>1
  <2>3. LineOf(FreshRoom, items) = Tail(LineOf(Fresh, items))
    BY <1>4, <2>1, LineOfTail
  <2>. QED
    BY <1>8, <1>9, <2>2, <2>3
<1>10. CASE ~(Len(Fresh) >= MaxEntries)
  BY <1>4, <1>5, <1>8, <1>10 DEF FreshRoom
<1>. QED
  BY <1>9, <1>10

\* Set stores the response, after the others.
LEMMA SetStores ==
  ASSUME StoreInv, NEW k \in Keys, NEW lifetime \in Lifetimes, Set(k, lifetime)
  PROVE  \E response \in Response : Cache!Store(k, response)
<1>1. PICK left : \E response \in Response :
           /\ Sound(left) /\ Len(left.order) <= MaxEntries /\ Becomes(left)
           /\ left.items[k] = response /\ (k \in entries => left.entries = entries)
           /\ \A x \in left.entries \ {k} : left.items[x] = items[x]
           /\ left.order =
                Append(IF k \in entries THEN Picked(order, {i \in DOMAIN order : order[i] # k})
                       ELSE FreshRoom, k)
  BY SetIsSound
<1>2. PICK response \in Response :
           /\ Sound(left) /\ Becomes(left)
           /\ left.items[k] = response /\ (k \in entries => left.entries = entries)
           /\ \A x \in left.entries \ {k} : left.items[x] = items[x]
           /\ left.order =
                Append(IF k \in entries THEN Picked(order, {i \in DOMAIN order : order[i] # k})
                       ELSE FreshRoom, k)
  BY <1>1
<1>3. /\ items' = left.items /\ order' = left.order /\ items'[k] = response /\ now' = now
      /\ \A x \in left.entries \ {k} : items'[x] = items[x]
  BY <1>2 DEF Becomes, Set
<1>4. CASE k \in entries
  <2>1. order' = Append(Picked(order, {i \in DOMAIN order : order[i] # k}), k)
    BY <1>2, <1>3, <1>4
  <2>2. \A x \in entries \ {k} : items'[x] = items[x]
    BY <1>2, <1>3, <1>4
  <2>3. Line' = Append(Cache!Without({k}), [key |-> k, object |-> response])
    BY <1>3, <1>4, <2>1, <2>2, LineWithLast
  <2>. QED
    BY <1>3, <1>4, <2>3, LineHolds DEF Cache!Store
<1>5. CASE k \notin entries
  <2>1. order' = Append(FreshRoom, k) /\ left.order = Append(FreshRoom, k)
    BY <1>2, <1>3, <1>5
  <2>2. \A i \in DOMAIN FreshRoom : FreshRoom[i] \in left.entries \ {k}
    BY <1>2, <1>5, <2>1, RoomIs DEF Sound, ToSet
  <2>3. LineOf(Append(FreshRoom, k), items') =
          Append(LineOf(FreshRoom, items), [key |-> k, object |-> items'[k]])
    <3>1. PICK after : after = items'
      OBVIOUS
    <3>2. \A i \in DOMAIN FreshRoom : after[FreshRoom[i]] = items[FreshRoom[i]]
      BY <1>3, <2>2, <3>1
    <3>. QED
      BY <3>1, <3>2, RoomIs, LineOfAppended, SMTT(60)
  <2>4. Line' = Append(Cache!Room, [key |-> k, object |-> response])
    BY <1>3, <2>1, <2>3, NextLineIs, RoomIs
  <2>. QED
    BY <1>3, <1>5, <2>4, LineHolds DEF Cache!Store
<1>. QED
  BY <1>4, <1>5

\* The store starts as the cache does, and what it does is what the cache does or
\* leaves it alone.
LEMMA StoreStartsCache == Init => Cache!CacheInit
  BY DEF Init, Cache!CacheInit, Line

LEMMA StoreStepIsCacheStep ==
  ASSUME StoreInv, [Next]_vars
  PROVE  [Cache!CacheNext]_Cache!cacheVars
<1>1. CASE UNCHANGED vars
  BY <1>1 DEF vars, storeVars, Line, Cache!cacheVars
<1>2. CASE Tick
  <2>1. now' \in Nat /\ now' > now /\ UNCHANGED Line
    BY <1>2, StoreAssumption DEF StoreInv, GetsTyped, Tick, storeVars, Line
  <2>. QED
    BY <2>1 DEF Cache!CacheNext, Cache!Clock
<1>3. CASE \E k \in Keys, lifetime \in Lifetimes : Set(k, lifetime)
  BY <1>3, SetStores DEF Cache!CacheNext
<1>4. CASE \E keys \in SUBSET Keys : DeleteMany(keys)
  BY <1>4, DeleteManyForgets DEF Cache!CacheNext
<1>5. ASSUME NEW g \in Goroutines, GetStep(g) PROVE [Cache!CacheNext]_Cache!cacheVars
  <2>1. ASSUME NEW k \in Keys, GetRead(g, k) \/ GetClock(g) PROVE UNCHANGED Cache!cacheVars
    BY <2>1 DEF GetRead, GetClock, storeVars, Line, Cache!cacheVars
  <2>2. CASE GetClock(g)
    BY <2>2 DEF GetClock, storeVars, Line, Cache!cacheVars
  <2>3. CASE GetReap(g)
    BY <2>3, GetReapReaps DEF Cache!CacheNext
  <2>4. CASE GetPromote(g)
    BY <2>4, GetPromoteUses DEF Cache!CacheNext
  <2>. QED
    BY <1>5, <2>1, <2>2, <2>3, <2>4 DEF GetStep
<1>. QED
  BY <1>1, <1>2, <1>3, <1>4, <1>5 DEF Next

\* MemoryCacheStore implements the least-recently-used cache that the routes rely on:
\* each of its steps acts as one operation of ResponseCache or as none.
THEOREM StoreImplementsCache == Spec => ImplementsCache
<1>. QED
  BY StoreStartsCache, StoreStepIsCacheStep, StoreInvHolds, PTL
     DEF Spec, ImplementsCache, Cache!CacheSpec
=============================================================================
