----------------------------- MODULE RateLimiter -----------------------------
(***************************************************************************)
(* The token-bucket rate limit of one operation (operation_limits.go): a   *)
(* bucket for every client address, filled by the time that has passed     *)
(* since the client's previous request, and a prune that forgets clients   *)
(* which have been idle. allow runs under one mutex, but its time stamp is *)
(* taken before the mutex, so requests reach the bucket out of order.      *)
(*                                                                         *)
(* Time is counted in ticks, and so is credit: a bucket gains one unit a   *)
(* tick and a request costs Cost units, the inverse of the configured rate.*)
(* Tokens of the code are units divided by Cost.                           *)
(***************************************************************************)
EXTENDS Integers

CONSTANTS
  Clients,        \* client addresses
  Requests,       \* bound: the requests being handled at one time
  Cost,           \* ticks in which one request is earned
  Burst,          \* credit of a full bucket
  TTL,            \* defaults.RateLimiterClientTTL
  PruneInterval,  \* defaults.RateLimiterPruneInterval
  MaxDelay,       \* ticks between time.Now() and the mutex, at most
  MaxTime,        \* bound: the last tick
  Watched         \* the client whose requests the history below counts

\* newRateLimiter raises a burst below one request to one request.
ASSUME RateAssumption ==
  /\ Watched \in Clients
  /\ Cost \in Nat \ {0} /\ Burst \in Nat /\ Cost <= Burst
  /\ TTL \in Nat /\ PruneInterval \in Nat /\ MaxDelay \in Nat /\ MaxTime \in Nat

\* A client that is idle for the TTL has a full bucket again. The code does not
\* check it: RateLimit(1, 1000) breaks it, and then the prune hands out credit.
ASSUME RefillWithinTTL == Burst + 2 * MaxDelay <= TTL

VARIABLES
  clock,               \* the monotonic clock
  known,               \* the keys of rateLimiter.clients
  tokens, last,        \* the bucket of each known client
  lastPrune,
  pc, client, stamp,   \* the requests: where each is, whose, and its time.Now()
  start, spent, grant  \* history of Watched: the time a window opened, the
                       \* credit spent in it, the latest stamp let through

buckets == <<known, tokens, last, lastPrune>>
history == <<start, spent, grant>>
vars == <<clock, buckets, pc, client, stamp, history>>

Ticks == 0..MaxTime

TypeOK ==
  /\ clock \in Ticks /\ lastPrune \in Ticks
  /\ known \subseteq Clients
  /\ tokens \in [Clients -> Int] /\ last \in [Clients -> Ticks]
  /\ \A c \in Clients : tokens[c] <= Burst
  /\ pc \in [Requests -> {"free", "stamped", "allowed", "refused"}]
  /\ client \in [Requests -> Clients] /\ stamp \in [Requests -> Ticks]
  /\ start \in Ticks /\ spent \in Nat /\ grant \in Ticks

Init ==
  /\ clock = 0 /\ lastPrune = 0
  /\ known = {}
  /\ tokens = [c \in Clients |-> 0] /\ last = [c \in Clients |-> 0]
  /\ pc = [r \in Requests |-> "free"]
  /\ client = [r \in Requests |-> Watched] /\ stamp = [r \in Requests |-> 0]
  /\ start = 0 /\ spent = 0 /\ grant = 0

-----------------------------------------------------------------------------
(* The environment: time passes while no request has been kept waiting for *)
(* longer than MaxDelay, and the observer opens a new window.              *)

Tick ==
  /\ clock < MaxTime
  /\ \A r \in Requests : pc[r] = "stamped" => clock - stamp[r] < MaxDelay
  /\ clock' = clock + 1
  /\ UNCHANGED <<buckets, pc, client, stamp, history>>

OpenWindow ==
  /\ start' = clock
  /\ spent' = 0
  /\ UNCHANGED <<clock, buckets, pc, client, stamp, grant>>

-----------------------------------------------------------------------------
(* A request.                                                              *)

\* wrapRateLimit evaluates the arguments of allow, before its lock.
TakeStamp(r, c) ==
  /\ pc[r] = "free"
  /\ pc' = [pc EXCEPT ![r] = "stamped"]
  /\ client' = [client EXCEPT ![r] = c]
  /\ stamp' = [stamp EXCEPT ![r] = clock]
  /\ UNCHANGED <<clock, buckets, history>>

\* A plausible bug: the bucket is never capped at the burst.
CreditUncapped(c, now) == IF c \in known THEN tokens[c] + (now - last[c]) ELSE Burst

\* The bucket of c at time now, before the request is charged: a new bucket is
\* full, an old one has grown by the time since last. now may be before last.
Credit(c, now) ==
  LET grown == tokens[c] + (now - last[c]) IN
  IF c \notin known THEN Burst ELSE IF grown > Burst THEN Burst ELSE grown

\* A plausible bug: a refused request is charged too.
BucketChargesAlways(c, credit, now, allowed) ==
  /\ tokens' = [tokens EXCEPT ![c] = credit - Cost]
  /\ last' = [last EXCEPT ![c] = now]

UpdateBucket(c, credit, now, allowed) ==
  /\ tokens' = [tokens EXCEPT ![c] = credit - (IF allowed THEN Cost ELSE 0)]
  /\ last' = [last EXCEPT ![c] = now]

\* A plausible bug: the prune forgets every client.
PruneEveryone(c, now) ==
  IF now - lastPrune > PruneInterval
    THEN known' = {} /\ lastPrune' = now
    ELSE known' = known \cup {c} /\ UNCHANGED lastPrune

\* pruneLocked, when the last prune is long enough ago. It comes after the
\* update of c's own bucket, which it therefore keeps.
Prune(c, now) ==
  IF now - lastPrune > PruneInterval
    THEN /\ known' = {d \in known \cup {c} : d = c \/ now - last[d] <= TTL}
         /\ lastPrune' = now
    ELSE known' = known \cup {c} /\ UNCHANGED lastPrune

\* Allow: one critical section. Whether the request is let through is decided
\* on the bucket before the prune.
Allow(r) ==
  LET c       == client[r]
      now     == stamp[r]
      credit  == Credit(c, now)
      allowed == credit >= Cost
  IN
  /\ pc[r] = "stamped"
  /\ UpdateBucket(c, credit, now, allowed)
  /\ Prune(c, now)
  /\ pc' = [pc EXCEPT ![r] = IF allowed THEN "allowed" ELSE "refused"]
  /\ spent' = IF allowed /\ c = Watched THEN spent + Cost ELSE spent
  /\ grant' = IF allowed /\ c = Watched /\ now > grant THEN now ELSE grant
  /\ UNCHANGED <<clock, client, stamp, start>>

\* The handler has run, or 429 has been written; the local variables are gone.
Finish(r) ==
  /\ pc[r] \in {"allowed", "refused"}
  /\ pc' = [pc EXCEPT ![r] = "free"]
  /\ client' = [client EXCEPT ![r] = Watched]
  /\ stamp' = [stamp EXCEPT ![r] = 0]
  /\ UNCHANGED <<clock, buckets, history>>

-----------------------------------------------------------------------------

Next ==
  \/ Tick \/ OpenWindow
  \/ \E r \in Requests :
       \/ \E c \in Clients : TakeStamp(r, c)
       \/ Allow(r) \/ Finish(r)

Spec == Init /\ [][Next]_vars

-----------------------------------------------------------------------------
(* Properties.                                                             *)

\* The rate limit: in any window of time, whatever the other clients do, in
\* whatever order stamps reach the mutex and whenever the prune forgets the
\* bucket, a client is let through for a burst and what the window earns. The
\* delay between the stamp and the mutex is added to the window.
WithinRate == spent <= Burst + (clock - start) + MaxDelay

\* The limiter turns away nobody it should not: a client that is refused had a
\* request let through less than 1/rate before, by the stamps. Requests that
\* were refused, however many, and other clients do not count against it.
PacedIsAllowed ==
  [][\A r \in Requests :
       (pc[r] = "stamped" /\ pc'[r] = "refused" /\ client[r] = Watched)
         => stamp[r] < grant + Cost]_vars
=============================================================================
