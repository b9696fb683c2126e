------------------------------ MODULE RouteCache -----------------------------
(***************************************************************************)
(* A cached GET route as its clients see it: under which key an answer is  *)
(* kept, for whom it was computed, when an ETag lets a client keep its     *)
(* copy, and what CacheInvalidator.Delete achieves while answers are still *)
(* being computed. (Operation has the writers of wrapCache under timeouts  *)
(* and transactions, MemoryCacheStore the store.)                          *)
(*                                                                         *)
(* The handler reads the data and answers something that depends on it, on *)
(* the user (the Authorization header) and on the method; the ETag, a hash *)
(* of the body, is the body here.                                          *)
(***************************************************************************)
EXTENDS Naturals, FiniteSets

CONSTANTS
  Callers,      \* the clients, one request at a time each
  Users,        \* whom they call as
  LastVersion   \* bound on the versions of the data

ASSUME RouteCacheAssumption == LastVersion \in Nat

VARIABLES
  version,   \* of the data
  kept,      \* the store: [body, late] under a key
  calls,     \* the request of each client: [at, method, user, recorded, got],
             \* and, as history, whether its key was invalidated since it missed (late)
  copies,    \* the body each client has kept with its ETag, or none
  cleared    \* history: by key, the version at its last invalidation

routeCacheVars == <<version, kept, calls, copies, cleared>>

Methods == {"GET", "HEAD"}
Nothing == [method |-> "none"]  \* no body
CacheKeys == Methods \X Users

\* The body of an answer: for whom it was computed, and from which version.
Bodies == [method : {"GET"}, user : Users, version : 0..LastVersion]

\* What a client gets.
Answers ==
  {<<"nothing">>, <<"uncached">>, <<"headers">>, <<"not modified">>} \cup ({"body"} \X Bodies)

\* defaultCacheKey: the method, the URI (there is one here) and the hashes of the
\* Authorization and Accept-Language headers.
CacheKey(call) == <<call.method, call.user>>

NoCall == [at |-> "idle", method |-> "GET", user |-> "nobody", recorded |-> Nothing,
           got |-> <<"nothing">>, late |-> FALSE]
Calls ==
  [at : {"idle", "missed", "recorded", "answered"}, method : Methods,
   user : Users \cup {"nobody"}, recorded : Bodies \cup {Nothing}, got : Answers, late : BOOLEAN]

RouteCacheTypeOK ==
  /\ version \in 0..LastVersion
  /\ DOMAIN kept \subseteq CacheKeys
  /\ \A key \in DOMAIN kept : kept[key] \in [body : Bodies \cup {Nothing}, late : BOOLEAN]
  /\ calls \in [Callers -> Calls]
  /\ copies \in [Callers -> Bodies \cup {Nothing}]
  /\ cleared \in [CacheKeys -> 0..LastVersion]

RouteCacheInit ==
  /\ version = 0
  /\ kept = [key \in {} |-> Nothing]
  /\ calls = [c \in Callers |-> NoCall] /\ copies = [c \in Callers |-> Nothing]
  /\ cleared = [key \in CacheKeys |-> 0]

Move(c, call) == calls' = [calls EXCEPT ![c] = call]

\* The client keeps a body that came with an ETag; a later call sends it along.
Reply(c, call, got) ==
  /\ Move(c, [NoCall EXCEPT !.at = "answered", !.method = call.method, !.user = call.user,
                            !.got = got])
  /\ copies' = [copies EXCEPT ![c] = IF got[1] = "body" THEN got[2] ELSE @]

\* The calls a client may make once it has the answer of its last.
NewCalls(c) ==
  IF calls[c].at \in {"idle", "answered"}
  THEN {[NoCall EXCEPT !.method = key[1], !.user = key[2]] : key \in CacheKeys}
  ELSE {}

-----------------------------------------------------------------------------
(* The data.                                                               *)

ChangeData ==
  /\ version < LastVersion
  /\ version' = version + 1
  /\ UNCHANGED <<kept, calls, copies, cleared>>

\* The ttl of an entry ends: from then on it counts as absent.
Expire(key) ==
  /\ key \in DOMAIN kept
  /\ kept' = [k \in DOMAIN kept \ {key} |-> kept[k]]
  /\ UNCHANGED <<version, calls, copies, cleared>>

\* CacheInvalidator.Delete of one key.
Invalidate(key) ==
  /\ cleared[key] < version
  /\ kept' = [k \in DOMAIN kept \ {key} |-> kept[k]]
  /\ cleared' = [cleared EXCEPT ![key] = version]
  /\ calls' = [c \in Callers |->
                 IF calls[c].at \in {"missed", "recorded"} /\ CacheKey(calls[c]) = key
                 THEN [calls[c] EXCEPT !.late = TRUE] ELSE calls[c]]
  /\ UNCHANGED <<version, copies>>

-----------------------------------------------------------------------------
(* wrapCache.                                                              *)

\* Plausible bug: any copy will do.
MatchesAnything(c, body) == body # Nothing /\ copies[c] # Nothing

\* matchesETag, against the copy of the client. A HEAD request has no body, so its
\* answer has no ETag.
Matches(c, body) == body # Nothing /\ copies[c] = body

\* What the client gets of a body: a 304 if the ETag of its copy matches.
Written(c, body) ==
  IF Matches(c, body) THEN <<"not modified">>
  ELSE IF body = Nothing THEN <<"headers">> ELSE <<"body", body>>

\* cacheLookup and writeCachedResponse.
AnswerFromCache(c) ==
  /\ \E call \in NewCalls(c) :
       /\ CacheKey(call) \in DOMAIN kept
       /\ Reply(c, call, Written(c, kept[CacheKey(call)].body))
  /\ UNCHANGED <<version, kept, cleared>>

Miss(c) ==
  /\ \E call \in NewCalls(c) :
       /\ CacheKey(call) \notin DOMAIN kept
       /\ Move(c, [call EXCEPT !.at = "missed"])
  /\ UNCHANGED <<version, kept, copies, cleared>>

\* The handler reads the data and its answer is recorded.
Compute(c) ==
  /\ calls[c].at = "missed"
  /\ Move(c, [calls[c] EXCEPT !.at = "recorded",
                !.recorded = IF calls[c].method = "HEAD" THEN Nothing
                             ELSE [method |-> "GET", user |-> calls[c].user, version |-> version]])
  /\ UNCHANGED <<version, kept, copies, cleared>>

\* An error, or a body beyond maxBodyBytes, goes out as it is and is not kept.
ComputeUncached(c) ==
  /\ calls[c].at = "missed"
  /\ Reply(c, calls[c], <<"uncached">>)
  /\ UNCHANGED <<version, kept, cleared>>

\* The client's copy is the answer: it is told so, and nothing is kept.
AnswerNotModified(c) ==
  /\ calls[c].at = "recorded" /\ Matches(c, calls[c].recorded)
  /\ Reply(c, calls[c], <<"not modified">>)
  /\ UNCHANGED <<version, kept, cleared>>

\* The answer is written and then kept, however long ago it was computed.
AnswerAndKeep(c) ==
  /\ calls[c].at = "recorded" /\ ~Matches(c, calls[c].recorded)
  /\ kept' = [key \in DOMAIN kept \cup {CacheKey(calls[c])} |->
                IF key = CacheKey(calls[c])
                THEN [body |-> calls[c].recorded, late |-> calls[c].late] ELSE kept[key]]
  /\ Reply(c, calls[c], Written(c, calls[c].recorded))
  /\ UNCHANGED <<version, cleared>>

RouteCacheNext ==
  \/ ChangeData
  \/ \E user \in Users : Invalidate(<<"GET", user>>)
  \/ \E key \in CacheKeys : Expire(key)
  \/ \E c \in Callers :
       \/ AnswerFromCache(c) \/ Miss(c) \/ Compute(c)
       \/ ComputeUncached(c) \/ AnswerNotModified(c) \/ AnswerAndKeep(c)

RouteCacheSpec == RouteCacheInit /\ [][RouteCacheNext]_routeCacheVars

-----------------------------------------------------------------------------

\* A client gets only what was computed for the user and the method it called
\* with, and told that its copy is good it holds what it would have been sent: a
\* body computed for its user, too.
AnswersAreOnesOwn ==
  \A c \in Callers :
    calls[c].at = "answered" =>
      /\ calls[c].got[1] = "body" =>
           calls[c].got[2].user = calls[c].user /\ calls[c].method = "GET"
      /\ calls[c].got[1] = "not modified" => copies[c] # Nothing /\ copies[c].user = calls[c].user

\* After CacheInvalidator.Delete nothing older is kept under the key, but what a
\* request stores that was already computing its answer at that time.
OnlyFlyingAnswersOutliveInvalidation ==
  \A key \in DOMAIN kept :
    kept[key].body # Nothing /\ kept[key].body.version < cleared[key]
      => kept[key].late

\* What a cached route answers was made for the one who gets it, and no answer is
\* kept that had been invalidated before its computation began.
CachedAnswersHold == AnswersAreOnesOwn /\ OnlyFlyingAnswersOutliveInvalidation
=============================================================================
