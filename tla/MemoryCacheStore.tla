-------------------------- MODULE MemoryCacheStore --------------------------
(***************************************************************************)
(* MemoryCacheStore (cache.go): the map items, the list order and the map  *)
(* entries from a key to its element of the list, under one RWMutex, used  *)
(* by several request goroutines at once. Get reads under RLock, looks at  *)
(* the clock with no lock held and locks again to promote or to reap.      *)
(***************************************************************************)
EXTENDS Naturals, Sequences, FiniteSets, SequencesExt, Subsequences

CONSTANTS
  Keys,
  Goroutines,
  MaxEntries,
  Lifetimes,  \* lifetimes of stored responses; 0 is the zero Expires
  MaxTime,    \* bound on the clock
  MaxSets,    \* bound on the number of Set calls
  NoKey, NoResponse

ASSUME StoreAssumption ==
  /\ IsFiniteSet(Keys)
  /\ MaxEntries \in Nat \ {0}
  /\ Lifetimes \subseteq Nat /\ MaxTime \in Nat \ {0} /\ MaxSets \in Nat
  /\ NoKey \notin Keys

VARIABLES
  items, order, entries,  \* the store
  now,                    \* the clock
  sets,                   \* Set calls so far: names the clones they make
  pc, key, value          \* each Get call: where it is, its key, what it read

storeVars == <<items, order, entries>>
getVars   == <<pc, key, value>>
vars == <<storeVars, now, sets, getVars>>

\* A *CachedResponse of the store. Set stores a clone that nobody else holds,
\* so the identity of the pointer is the number of the Set call.
Expiries == {0} \cup {t + lifetime : t \in 1..MaxTime, lifetime \in Lifetimes}
Response == [id : 1..MaxSets, expires : Expiries]

ASSUME NoResponseAssumption == NoResponse \notin Response

Expired(response) == response.expires # 0 /\ now > response.expires

TypeOK ==
  /\ DOMAIN items \subseteq Keys
  /\ \A k \in DOMAIN items : items[k] \in Response
  /\ order \in Seq(Keys)
  /\ entries \subseteq Keys
  /\ now \in 1..MaxTime /\ sets \in 0..MaxSets
  /\ pc \in [Goroutines -> {"idle", "read", "reap", "promote"}]
  /\ key \in [Goroutines -> Keys \cup {NoKey}]
  /\ value \in [Goroutines -> Response \cup {NoResponse}]
  \* A Get has a response in hand, and reaps it only once it has expired.
  /\ \A g \in Goroutines :
       /\ pc[g] # "idle" => key[g] # NoKey /\ value[g] # NoResponse
       /\ pc[g] = "reap" => Expired(value[g])

Init ==
  /\ items = <<>> /\ order = <<>> /\ entries = {}
  /\ now = 1 /\ sets = 0
  /\ pc = [g \in Goroutines |-> "idle"]
  /\ key = [g \in Goroutines |-> NoKey]
  /\ value = [g \in Goroutines |-> NoResponse]

-----------------------------------------------------------------------------
(* The helpers that run with the mutex held, as functions of the store.     *)

Store == [items |-> items, order |-> order, entries |-> entries]

Becomes(store) ==
  /\ items' = store.items /\ order' = store.order /\ entries' = store.entries

Drop(f, keys) == [k \in DOMAIN f \ keys |-> f[k]]

\* A plausible bug: the map is cleaned and the list is forgotten.
DeleteKeysKeepOrder(store, keys) ==
  [items |-> Drop(store.items, keys), order |-> store.order,
   entries |-> store.entries \ keys]

\* deleteKeyLocked, of several keys: only a key with an element loses it.
DeleteKeys(store, keys) ==
  [items |-> Drop(store.items, keys),
   order |-> Picked(store.order, {i \in DOMAIN store.order :
                                    store.order[i] \notin keys \cap store.entries}),
   entries |-> store.entries \ keys]

PruneExpired(store) ==
  DeleteKeys(store, {k \in DOMAIN store.items : Expired(store.items[k])})

\* A plausible bug: the newest element goes.
EvictNewest(store) ==
  IF store.order = <<>> THEN store ELSE DeleteKeys(store, {Last(store.order)})

\* evictOldestLocked: elements are popped until one of them was in items.
EvictOldest(store) ==
  LET stored == {i \in DOMAIN store.order : store.order[i] \in DOMAIN store.items}
      upto == IF stored = {} THEN Len(store.order)
              ELSE CHOOSE i \in stored : \A j \in stored : i <= j
      popped == {store.order[i] : i \in 1..upto}
  IN [items |-> Drop(store.items, popped),
      order |-> SubSeq(store.order, upto + 1, Len(store.order)),
      entries |-> store.entries \ popped]

PromoteKey(store, k) ==
  IF k \in store.entries
  THEN [store EXCEPT !.order = Append(Picked(@, {i \in DOMAIN @ : @[i] # k}), k)]
  ELSE store

\* The insertion in Set, after room was made for a key that is not there.
RoomFor(store) ==
  LET pruned == PruneExpired(store)
  IN IF Cardinality(DOMAIN pruned.items) >= MaxEntries THEN EvictOldest(pruned) ELSE pruned

PushBack(store, k) ==
  [store EXCEPT !.order = Append(@, k), !.entries = @ \cup {k}]

Assign(store, k, response) ==
  [store EXCEPT !.items = [x \in DOMAIN @ \cup {k} |-> IF x = k THEN response ELSE @[x]]]

-----------------------------------------------------------------------------
(* The calls.                                                               *)

Tick == now < MaxTime /\ now' = now + 1 /\ UNCHANGED <<storeVars, sets, getVars>>

Set(k, lifetime) ==
  LET response == [id |-> sets + 1, expires |-> IF lifetime = 0 THEN 0 ELSE now + lifetime]
      placed == IF k \in DOMAIN items THEN PromoteKey(Store, k)
                ELSE PushBack(RoomFor(Store), k)
  IN /\ sets < MaxSets
     /\ Becomes(Assign(placed, k, response))
     /\ sets' = sets + 1
     /\ UNCHANGED <<now, getVars>>

\* Delete of one key and DeleteMany.
DeleteMany(keys) ==
  /\ Becomes(DeleteKeys(Store, keys))
  /\ UNCHANGED <<now, sets, getVars>>

\* Get: the read under RLock. A miss returns at once and changes nothing.
GetRead(g, k) ==
  /\ pc[g] = "idle"
  /\ k \in DOMAIN items
  /\ key' = [key EXCEPT ![g] = k]
  /\ value' = [value EXCEPT ![g] = items[k]]
  /\ pc' = [pc EXCEPT ![g] = "read"]
  /\ UNCHANGED <<storeVars, now, sets>>

\* A plausible bug: whatever has an expiry is taken for expired.
GetClockAnyExpiry(g) ==
  /\ pc[g] = "read"
  /\ pc' = [pc EXCEPT ![g] = IF value[g].expires # 0 THEN "reap" ELSE "promote"]
  /\ UNCHANGED <<storeVars, now, sets, key, value>>

\* time.Now() and the comparison, with no lock held.
GetClock(g) ==
  /\ pc[g] = "read"
  /\ pc' = [pc EXCEPT ![g] = IF Expired(value[g]) THEN "reap" ELSE "promote"]
  /\ UNCHANGED <<storeVars, now, sets, key, value>>

GetReturns(g) ==
  /\ pc' = [pc EXCEPT ![g] = "idle"]
  /\ key' = [key EXCEPT ![g] = NoKey]
  /\ value' = [value EXCEPT ![g] = NoResponse]
  /\ UNCHANGED <<now, sets>>

\* deleteExpiredIfMatchLocked: what is stored by now is looked at again.
GetReap(g) ==
  /\ pc[g] = "reap"
  /\ IF key[g] \in DOMAIN items /\ items[key[g]] = value[g]
     THEN Becomes(DeleteKeys(Store, {key[g]}))
     ELSE UNCHANGED storeVars
  /\ GetReturns(g)

\* promoteKeyLocked, which may find another response there, or none.
GetPromote(g) ==
  /\ pc[g] = "promote"
  /\ Becomes(PromoteKey(Store, key[g]))
  /\ GetReturns(g)

GetStep(g) == (\E k \in Keys : GetRead(g, k)) \/ GetClock(g) \/ GetReap(g) \/ GetPromote(g)

Next ==
  \/ Tick
  \/ \E k \in Keys, lifetime \in Lifetimes : Set(k, lifetime)
  \/ \E keys \in SUBSET Keys : DeleteMany(keys)
  \/ \E g \in Goroutines : GetStep(g)

Spec == Init /\ [][Next]_vars

-----------------------------------------------------------------------------

\* The map, the list and the index describe the same keys, each once, and no more
\* of them than maxEntries. A key only in the list would be evicted in place of a
\* real one, a key only in the map would never be evicted.
StoreConsistent ==
  /\ DOMAIN items = entries
  /\ ToSet(order) = entries
  /\ Len(order) = Cardinality(entries)
  /\ Len(order) <= MaxEntries

\* The store implements the cache the routes rely on: its three structures act
\* as one line of entries in the order of their last use.
Line == [i \in DOMAIN order |-> [key |-> order[i], object |-> items[order[i]]]]

Cache == INSTANCE ResponseCache WITH line <- Line, Objects <- Response

ImplementsCache == Cache!CacheSpec
=============================================================================
