---------------------------- MODULE ResponseCache ----------------------------
(***************************************************************************)
(* What a ResponseCacheStore promises the route cache: one line of entries *)
(* ordered by last use, at most MaxEntries long and with at most one entry *)
(* per key. Only the least recently used entry is ever evicted, and only   *)
(* to make room for a new key.                                             *)
(***************************************************************************)
EXTENDS Naturals, Sequences, SequencesExt, Subsequences

CONSTANTS Keys, MaxEntries, Objects  \* Objects: the responses, each with an expiry

VARIABLES
  line,  \* the entries, least recently used first
  now    \* the clock

cacheVars == <<line, now>>

\* A cached response says when it expires. An expiry of 0 is the zero time.Time,
\* which never expires.
Expired(object) == object.expires # 0 /\ now > object.expires

Holds(key) == \E i \in DOMAIN line : line[i].key = key

ObjectOf(key) == (CHOOSE e \in ToSet(line) : e.key = key).object

Without(keys) == Picked(line, {i \in DOMAIN line : line[i].key \notin keys})

CacheInit == line = <<>> /\ now \in Nat

Clock == now' \in Nat /\ now' > now /\ UNCHANGED line

\* A hit: the entry was used last.
Use(key) ==
  /\ Holds(key)
  /\ line' = Append(Without({key}), [key |-> key, object |-> ObjectOf(key)])
  /\ UNCHANGED now

\* What is left when a new key arrives: expired entries go first, and one
\* fresh entry, the least recently used, if that made no room.
Room ==
  LET fresh == Picked(line, {i \in DOMAIN line : ~Expired(line[i].object)}) IN
  IF Len(fresh) >= MaxEntries THEN Tail(fresh) ELSE fresh

Store(key, object) ==
  /\ LET rest == IF Holds(key) THEN Without({key}) ELSE Room
     IN line' = Append(rest, [key |-> key, object |-> object])
  /\ UNCHANGED now

\* Invalidation, of keys that may be there or not.
Forget(keys) ==
  /\ line' = Without(keys)
  /\ UNCHANGED now

\* A lookup that finds an expired entry removes it.
Reap(key) ==
  /\ Holds(key) /\ Expired(ObjectOf(key))
  /\ line' = Without({key})
  /\ UNCHANGED now

CacheNext ==
  \/ Clock
  \/ \E key \in Keys : Use(key) \/ Reap(key)
  \/ \E key \in Keys, object \in Objects : Store(key, object)
  \/ \E keys \in SUBSET Keys : Forget(keys)

CacheSpec == CacheInit /\ [][CacheNext]_cacheVars
=============================================================================
