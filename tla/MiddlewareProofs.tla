---------------------------- MODULE MiddlewareProofs ----------------------------
(***************************************************************************)
(* The properties of the middleware for any requests, clients, tokens and  *)
(* limits: the rate limiter, the session cookie, the CSRF tokens and the   *)
(* chain that calls them. Each part has an inductive invariant of its own. *)
(***************************************************************************)
EXTENDS RateLimiter, Session, Csrf, Chain, FiniteSetTheorems, TLAPS

-----------------------------------------------------------------------------
(***************************************************************************)
(* WithinRate and PacedIsAllowed for every set of clients and requests and *)
(* every rate, burst and delay that RefillWithinTTL allows.                *)
(*                                                                         *)
(* The inductive invariant is a budget: what Watched has spent in the      *)
(* window, what is left in its bucket and the time up to the bucket's last *)
(* stamp never add up to more than they did when the window opened. While  *)
(* the bucket is forgotten the budget rests on the idle time alone.        *)
(***************************************************************************)

\* A request waits for the mutex for at most MaxDelay.
StampsRecent ==
  \A r \in Requests :
    pc[r] = "stamped" => stamp[r] <= clock /\ clock - stamp[r] <= MaxDelay

\* The history is behind the clock.
HistoryPast == start <= clock /\ grant <= clock

\* The bucket of Watched is no emptier than the time by which its last stamp is
\* ahead of the latest one let through.
BucketBounds ==
  Watched \in known =>
    /\ last[Watched] <= clock
    /\ grant <= last[Watched] + MaxDelay
    /\ last[Watched] - grant <= tokens[Watched]

BucketBudget ==
  Watched \in known /\ spent > 0 =>
    spent + tokens[Watched] - last[Watched] <= Burst - start + MaxDelay

IdleBudget ==
  Watched \notin known /\ spent > 0 => spent <= clock - start

Budget == TypeOK /\ StampsRecent /\ HistoryPast /\ BucketBounds /\ BucketBudget /\ IdleBudget

-----------------------------------------------------------------------------

LEMMA InitBudget == Init => Budget
  BY RateAssumption
     DEF Init, Budget, TypeOK, Ticks, StampsRecent, HistoryPast, BucketBounds, BucketBudget,
         IdleBudget

\* A bucket before it is charged: what Credit returns for a known and for an
\* unknown client.
LEMMA CreditValue ==
  ASSUME TypeOK, NEW c \in Clients, NEW now \in Ticks
  PROVE  /\ Credit(c, now) \in Int
         /\ Credit(c, now) <= Burst
         /\ c \notin known => Credit(c, now) = Burst
         /\ c \in known => \/ Credit(c, now) = tokens[c] + (now - last[c])
                           \/ Credit(c, now) = Burst
         /\ c \in known => Credit(c, now) <= tokens[c] + (now - last[c])
  BY RateAssumption DEF TypeOK, Ticks, Credit

\* What a step of Allow leaves in the bucket of its own client and in the others.
LEMMA AllowStep ==
  ASSUME Budget, NEW r \in Requests, Allow(r)
  PROVE  LET c       == client[r]
             now     == stamp[r]
             credit  == Credit(c, now)
             charge  == IF credit >= Cost THEN Cost ELSE 0
         IN /\ c \in Clients /\ now \in Ticks /\ credit \in Int /\ charge \in Nat
            /\ now <= clock /\ clock - now <= MaxDelay
            /\ c \in known' /\ tokens'[c] = credit - charge /\ last'[c] = now
            /\ \A d \in Clients \ {c} :
                 /\ tokens'[d] = tokens[d] /\ last'[d] = last[d]
                 /\ d \in known' => d \in known
                 /\ d \in known /\ d \notin known' => now - last[d] > TTL
            /\ c # Watched => UNCHANGED <<spent, grant>>
            /\ c = Watched => spent' = spent + charge
            /\ c = Watched /\ charge = 0 => grant' = grant
            /\ c = Watched /\ charge # 0 =>
                 grant' = (IF now > grant THEN now ELSE grant)
<1> DEFINE c      == client[r]
           now    == stamp[r]
           credit == Credit(c, now)
           charge == IF credit >= Cost THEN Cost ELSE 0
<1>1. c \in Clients /\ now \in Ticks
  BY DEF Budget, TypeOK
<1>2. credit \in Int
  BY <1>1, CreditValue DEF Budget
<1>3. charge \in Nat /\ (charge = 0 <=> ~(credit >= Cost))
  BY <1>2, RateAssumption
<1>4. now <= clock /\ clock - now <= MaxDelay
  BY DEF Budget, StampsRecent, Allow
<1>5. /\ tokens'[c] = credit - charge /\ last'[c] = now
      /\ \A d \in Clients \ {c} : tokens'[d] = tokens[d] /\ last'[d] = last[d]
  BY <1>1, <1>2 DEF Allow, UpdateBucket, Budget, TypeOK
<1>6. known' = known \cup {c} \/ known' = {d \in known \cup {c} : d = c \/ now - last[d] <= TTL}
  BY DEF Allow, Prune
<1>7. /\ c \in known'
      /\ \A d \in Clients \ {c} :
           /\ d \in known' => d \in known
           /\ d \in known /\ d \notin known' => ~(now - last[d] <= TTL)
  BY <1>6
<1>8. \A d \in Clients : now - last[d] \in Int
  BY <1>1 DEF Budget, TypeOK, Ticks
<1>9. \A d \in Clients \ {c} : d \in known /\ d \notin known' => now - last[d] > TTL
  BY <1>7, <1>8, RateAssumption
<1>10. /\ c # Watched => UNCHANGED <<spent, grant>>
       /\ c = Watched => spent' = spent + charge
       /\ c = Watched /\ charge = 0 => grant' = grant
       /\ c = Watched /\ charge # 0 => grant' = (IF now > grant THEN now ELSE grant)
  BY <1>3 DEF Allow, Budget, TypeOK
<1> QED
  BY <1>1, <1>2, <1>3, <1>4, <1>5, <1>7, <1>9, <1>10

LEMMA AllowTypeOK ==
  ASSUME Budget, NEW r \in Requests, Allow(r)
  PROVE  TypeOK'
<1> DEFINE c      == client[r]
           now    == stamp[r]
           credit == Credit(c, now)
<1>1. c \in Clients /\ now \in Ticks
  BY DEF Budget, TypeOK
<1>2. credit \in Int /\ credit <= Burst
  BY <1>1, CreditValue DEF Budget
<1>3. /\ tokens' \in [Clients -> Int] /\ last' \in [Clients -> Ticks]
      /\ \A d \in Clients : tokens'[d] <= Burst
  BY <1>1, <1>2, RateAssumption DEF Allow, UpdateBucket, Budget, TypeOK
<1>4. known' \subseteq Clients /\ lastPrune' \in Ticks
  BY <1>1 DEF Allow, Prune, Budget, TypeOK
<1>5. spent' \in Nat /\ grant' \in Ticks
  BY <1>1, RateAssumption DEF Allow, Budget, TypeOK
<1>6. pc' \in [Requests -> {"free", "stamped", "allowed", "refused"}]
  BY DEF Allow, Budget, TypeOK
<1> QED
  BY <1>3, <1>4, <1>5, <1>6 DEF Allow, Budget, TypeOK

\* The heart of the argument: one request, its charge and the prune it may
\* trigger keep the budget of Watched.
LEMMA AllowBudget ==
  ASSUME Budget, NEW r \in Requests, Allow(r)
  PROVE  HistoryPast' /\ BucketBounds' /\ BucketBudget' /\ IdleBudget'
<1> DEFINE c      == client[r]
           now    == stamp[r]
           credit == Credit(c, now)
           charge == IF credit >= Cost THEN Cost ELSE 0
           w      == Watched
<1>1. /\ clock \in Nat /\ start \in Nat /\ spent \in Nat /\ grant \in Nat
      /\ w \in Clients /\ tokens[w] \in Int /\ last[w] \in Nat
  BY RateAssumption DEF Budget, TypeOK, Ticks
<1>2. clock' = clock /\ start' = start
  BY DEF Allow
<1>3. now \in Nat /\ credit \in Int /\ charge \in Nat /\ now <= clock /\ clock - now <= MaxDelay
  BY AllowStep DEF Ticks
<1>4. MaxDelay \in Nat /\ Burst \in Nat /\ Cost \in Nat \ {0} /\ TTL \in Nat /\ Cost <= Burst
  BY RateAssumption
<1>5. CASE c = w
  <2>1. /\ w \in known' /\ tokens'[w] = credit - charge /\ last'[w] = now
        /\ spent' = spent + charge
        /\ charge = 0 => grant' = grant
        /\ charge # 0 => grant' = (IF now > grant THEN now ELSE grant)
    BY <1>5, AllowStep
  <2>2. /\ charge = 0 => credit < Cost
        /\ charge # 0 => charge = Cost /\ credit >= Cost
    BY <1>3, <1>4
  <2>3. /\ credit <= Burst
        /\ w \notin known => credit = Burst
        /\ w \in known => credit = tokens[w] + (now - last[w]) \/ credit = Burst
        /\ w \in known => credit <= tokens[w] + (now - last[w])
    BY <1>5, AllowStep, CreditValue DEF Budget
  <2>4. HistoryPast'
    BY <1>1, <1>2, <1>3, <2>1 DEF HistoryPast, Budget
  <2>5. BucketBounds'
    <3>1. grant' <= now + MaxDelay
      BY <1>1, <1>3, <1>4, <2>1 DEF Budget, HistoryPast
    <3>2. now - grant' <= credit - charge
      <4>1. CASE charge # 0
        BY <4>1, <1>1, <1>3, <1>4, <2>1, <2>2
      <4>2. CASE charge = 0
        <5>1. w \in known /\ credit = tokens[w] + (now - last[w])
          BY <4>2, <1>4, <2>2, <2>3
        <5> QED
          BY <4>2, <5>1, <1>1, <1>3, <2>1 DEF Budget, BucketBounds
      <4> QED
        BY <4>1, <4>2
    <3> QED
      BY <3>1, <3>2, <1>2, <1>3, <2>1 DEF BucketBounds
  <2>6. BucketBudget'
    <3>1. CASE spent = 0
      BY <3>1, <1>1, <1>2, <1>3, <1>4, <2>1, <2>3 DEF BucketBudget, Budget, HistoryPast
    <3>2. CASE spent > 0 /\ w \in known
      BY <3>2, <1>1, <1>2, <1>3, <1>4, <2>1, <2>3 DEF BucketBudget, Budget
    <3>3. CASE spent > 0 /\ w \notin known
      BY <3>3, <1>1, <1>2, <1>3, <1>4, <2>1, <2>3 DEF BucketBudget, IdleBudget, Budget
    <3> QED
      BY <3>1, <3>2, <3>3, <1>1
  <2>7. IdleBudget'
    BY <2>1 DEF IdleBudget
  <2> QED
    BY <2>4, <2>5, <2>6, <2>7
<1>6. CASE c # w
  <2>1. /\ tokens'[w] = tokens[w] /\ last'[w] = last[w]
        /\ w \in known' => w \in known
        /\ w \in known /\ w \notin known' => now - last[w] > TTL
        /\ spent' = spent /\ grant' = grant
    BY <1>6, <1>1, AllowStep
  <2>2. HistoryPast' /\ BucketBounds' /\ BucketBudget'
    BY <1>2, <2>1 DEF HistoryPast, BucketBounds, BucketBudget, Budget
  <2>3. ASSUME w \in known, w \notin known', spent > 0
        PROVE  IdleBudget'
    \* The prune forgets Watched: it has been idle for the TTL, which is time
    \* enough for a full burst.
    <3>1. spent + tokens[w] - last[w] <= Burst - start + MaxDelay
      BY <2>3 DEF Budget, BucketBudget
    <3>2. 0 - MaxDelay <= tokens[w]
      BY <2>3, <1>1, <1>4 DEF Budget, BucketBounds
    <3>3. last[w] < clock - TTL
      BY <2>1, <2>3, <1>1, <1>3, <1>4
    <3>4. spent <= clock - start
      BY <3>1, <3>2, <3>3, <1>1, <1>4, RefillWithinTTL
    <3> QED
      BY <3>4, <1>2, <2>1 DEF IdleBudget
  <2>4. ASSUME w \notin known \/ w \in known' \/ ~(spent > 0)
        PROVE  IdleBudget'
    BY <2>4, <1>1, <1>2, <2>1 DEF IdleBudget, Budget
  <2> QED
    BY <2>2, <2>3, <2>4
<1> QED
  BY <1>5, <1>6

LEMMA NextBudget == Budget /\ [Next]_vars => Budget'
<1> SUFFICES ASSUME Budget, [Next]_vars PROVE Budget'
  OBVIOUS
<1> USE RateAssumption
<1>1. CASE Tick
  <2>1. TypeOK' /\ StampsRecent'
    BY <1>1 DEF Tick, buckets, history, Budget, TypeOK, Ticks, StampsRecent
  <2>2. HistoryPast' /\ BucketBounds' /\ BucketBudget' /\ IdleBudget'
    BY <1>1 DEF Tick, buckets, history, Budget, TypeOK, Ticks, HistoryPast, BucketBounds,
                BucketBudget, IdleBudget
  <2> QED
    BY <2>1, <2>2 DEF Budget
<1>2. CASE OpenWindow
  BY <1>2 DEF OpenWindow, buckets, Budget, TypeOK, Ticks, StampsRecent, HistoryPast,
              BucketBounds, BucketBudget, IdleBudget
<1>3. ASSUME NEW r \in Requests, NEW c \in Clients, TakeStamp(r, c) PROVE Budget'
  <2>1. TypeOK' /\ StampsRecent'
    BY <1>3 DEF TakeStamp, buckets, history, Budget, TypeOK, Ticks, StampsRecent
  <2>2. HistoryPast' /\ BucketBounds' /\ BucketBudget' /\ IdleBudget'
    BY <1>3 DEF TakeStamp, buckets, history, Budget, HistoryPast, BucketBounds, BucketBudget,
                IdleBudget
  <2> QED
    BY <2>1, <2>2 DEF Budget
<1>4. ASSUME NEW r \in Requests, Allow(r) PROVE Budget'
  <2>1. StampsRecent'
    BY <1>4 DEF Allow, Budget, TypeOK, StampsRecent
  <2> QED
    BY <1>4, <2>1, AllowTypeOK, AllowBudget DEF Budget
<1>5. ASSUME NEW r \in Requests, Finish(r) PROVE Budget'
  <2>1. TypeOK' /\ StampsRecent'
    BY <1>5 DEF Finish, buckets, history, Budget, TypeOK, Ticks, StampsRecent
  <2>2. HistoryPast' /\ BucketBounds' /\ BucketBudget' /\ IdleBudget'
    BY <1>5 DEF Finish, buckets, history, Budget, HistoryPast, BucketBounds, BucketBudget,
                IdleBudget
  <2> QED
    BY <2>1, <2>2 DEF Budget
<1>6. CASE UNCHANGED vars
  BY <1>6 DEF vars, buckets, history, Budget, TypeOK, StampsRecent, HistoryPast, BucketBounds,
              BucketBudget, IdleBudget
<1> QED
  BY <1>1, <1>2, <1>3, <1>4, <1>5, <1>6 DEF Next

LEMMA BudgetWithinRate == Budget => WithinRate
<1> SUFFICES ASSUME Budget PROVE WithinRate
  OBVIOUS
<1>1. /\ clock \in Nat /\ start \in Nat /\ spent \in Nat /\ grant \in Nat
      /\ tokens[Watched] \in Int /\ last[Watched] \in Nat
      /\ Burst \in Nat /\ MaxDelay \in Nat
  BY RateAssumption DEF Budget, TypeOK, Ticks
<1>2. CASE spent = 0
  BY <1>1, <1>2 DEF Budget, HistoryPast, WithinRate
<1>3. CASE spent > 0 /\ Watched \in known
  BY <1>1, <1>3 DEF Budget, HistoryPast, BucketBounds, BucketBudget, WithinRate
<1>4. CASE spent > 0 /\ Watched \notin known
  BY <1>1, <1>4 DEF Budget, IdleBudget, WithinRate
<1> QED
  BY <1>1, <1>2, <1>3, <1>4

\* A refused request found its bucket short of one request.
LEMMA RefusalIsEarned ==
  ASSUME Budget, [Next]_vars, NEW r \in Requests,
         pc[r] = "stamped", pc'[r] = "refused", client[r] = Watched
  PROVE  stamp[r] < grant + Cost
<1>1. Allow(r)
  <2>1. \A q \in Requests : pc[q] \in {"free", "stamped", "allowed", "refused"}
    BY DEF Budget, TypeOK
  <2>2. ~ UNCHANGED pc
    OBVIOUS
  <2>3. ~Tick /\ ~OpenWindow /\ ~UNCHANGED vars
    BY <2>2 DEF Tick, OpenWindow, vars
  <2>4. PICK q \in Requests : (\E c \in Clients : TakeStamp(q, c)) \/ Allow(q) \/ Finish(q)
    BY <2>3 DEF Next
  <2>5. q = r
    BY <2>4 DEF TakeStamp, Allow, Finish, Budget, TypeOK
  <2> QED
    BY <2>4, <2>5 DEF TakeStamp, Finish, Budget, TypeOK
<1> DEFINE credit == Credit(Watched, stamp[r])
<1>2. /\ stamp[r] \in Nat /\ grant \in Nat /\ stamp[r] \in Ticks
      /\ Watched \in Clients /\ tokens[Watched] \in Int /\ last[Watched] \in Nat
      /\ Burst \in Nat /\ Cost \in Nat \ {0} /\ Cost <= Burst
  BY RateAssumption DEF Budget, TypeOK, Ticks
<1>3. credit \in Int /\ ~(credit >= Cost)
  <2>1. credit \in Int
    BY <1>2, CreditValue DEF Budget
  <2> QED
    BY <2>1, <1>1 DEF Allow, Budget, TypeOK
<1>4. Watched \in known /\ credit = tokens[Watched] + (stamp[r] - last[Watched])
  BY <1>2, <1>3, CreditValue DEF Budget
<1> QED
  BY <1>2, <1>3, <1>4 DEF Budget, BucketBounds

-----------------------------------------------------------------------------

\* The budget holds throughout.
THEOREM BudgetHolds == Spec => []Budget
<1>1. Init => Budget
  BY InitBudget
<1>2. Budget /\ [Next]_vars => Budget'
  BY NextBudget
<1> QED
  BY <1>1, <1>2, PTL DEF Spec

\* RateLimit lets a client through for a burst and what the window earns, in
\* every window, with any number of clients and concurrent requests, stamps
\* that reach the mutex out of order and any prune (rateLimiter.allow).
THEOREM LimiterKeepsRate == Spec => []WithinRate
<1>1. Budget => WithinRate
  BY BudgetWithinRate
<1> QED
  BY <1>1, BudgetHolds, PTL

\* A client that keeps to its rate is never refused (rateLimiter.allow).
THEOREM LimiterIsFair == Spec => PacedIsAllowed
<1>1. Budget /\ [Next]_vars =>
        [\A r \in Requests :
           (pc[r] = "stamped" /\ pc'[r] = "refused" /\ client[r] = Watched)
             => stamp[r] < grant + Cost]_vars
  BY RefusalIsEarned
<1> QED
  BY <1>1, BudgetHolds, PTL DEF Spec, PacedIsAllowed

-----------------------------------------------------------------------------
(***************************************************************************)
(* SessionReachesBrowser for any number of requests, any keys, and any     *)
(* limits: an inductive invariant that says of a request under way what    *)
(* its response would carry if it ended now.                               *)
(***************************************************************************)

\* What goes back is the session as the request has it.
Carried(r) == cookie[r] # NoCookie /\ cookie[r].keys = data[r]

\* A session that was changed in time and fits is in the response already, or can
\* still be put there: it was not yet, and the response has not begun.
InReach(r) ==
  change[r] = "open" /\ Fits(r) =>
    IF dirty[r] THEN ~persisted[r] /\ ~begun[r] /\ at[r] # "done" ELSE Carried(r)

\* A session that the wrapper has put into an open response is there.
PersistedIsThere(r) == persisted[r] /\ ~begun[r] => cookie[r] # NoCookie

\* A request that has not begun has changed nothing.
UnchangedAtFirst(r) == at[r] = "new" => change[r] = "none"

Held(r) == InReach(r) /\ PersistedIsThere(r) /\ UnchangedAtFirst(r)

SessionInv == SessionTypeOK /\ \A r \in SessionRequests : Held(r)

-----------------------------------------------------------------------------
(* Cookies.                                                                *)

\* The empty cookie is one, and within any limit.
LEMMA NoCookieIsSmall == NoCookie \in Cookies /\ Cardinality(NoCookie.keys) <= Capacity
  BY FS_EmptySet, SessionAssumption DEF NoCookie, Cookies, Sessions

\* A new cookie is one, holds the session, and is no larger than the limit.
LEMMA NewCookieHolds ==
  ASSUME SessionTypeOK, NEW r \in SessionRequests, Fits(r)
  PROVE  /\ NewCookie(r) \in Cookies
         /\ Cardinality(NewCookie(r).keys) <= Capacity
         /\ ~begun[r] => NewCookie(r) # NoCookie /\ NewCookie(r).keys = data[r]
         /\ begun[r] => NewCookie(r) = cookie[r]
  BY SessionAssumption DEF SessionTypeOK, NewCookie, Cookies, Sessions, Fits, NoCookie

-----------------------------------------------------------------------------
(* One lemma for every action.                                             *)

\* No request is under way at first.
LEMMA SessionStarts == SessionInit => SessionInv
<1>. SUFFICES ASSUME SessionInit PROVE SessionInv
  OBVIOUS
<1>1. SessionTypeOK
  BY NoCookieIsSmall, SessionAssumption DEF SessionInit, SessionTypeOK, Sessions
<1>2. \A r \in SessionRequests : Held(r)
  BY DEF SessionInit, Held, InReach, PersistedIsThere, UnchangedAtFirst
<1>. QED
  BY <1>1, <1>2 DEF SessionInv

\* Time ages cookies and leaves their keys.
LEMMA TickKeeps == SessionInv /\ SessionTick => SessionInv'
  BY SessionAssumption
  DEF SessionInv, SessionTick, SessionTypeOK, responseVars, Held, InReach, Carried, Fits,
      PersistedIsThere, UnchangedAtFirst

\* A loaded session is clean, whether its cookie was accepted or not.
LEMMA LoadKeeps ==
  ASSUME SessionInv, NEW r \in SessionRequests, LoadSession(r) PROVE SessionInv'
<1>1. SessionTypeOK'
  BY DEF SessionInv, LoadSession, SessionTypeOK, With, Decoded, Sessions, Cookies, responseVars
<1>2. ASSUME NEW q \in SessionRequests PROVE Held(q)'
  BY <1>2 DEF SessionInv, LoadSession, SessionTypeOK, With, responseVars, Held, InReach, Carried,
              Fits, PersistedIsThere, UnchangedAtFirst
<1>. QED
  BY <1>1, <1>2 DEF SessionInv

\* A change dirties the session; after the response has begun it is late.
LEMMA ChangeKeeps ==
  ASSUME SessionInv, NEW r \in SessionRequests, ChangeSession(r) PROVE SessionInv'
<1>1. SessionTypeOK'
  BY DEF SessionInv, ChangeSession, SessionTypeOK, With, Sessions, Cookies, responseVars
<1>2. ASSUME NEW q \in SessionRequests PROVE Held(q)'
  <2>1. CASE q = r
    BY <2>1 DEF SessionInv, ChangeSession, SessionTypeOK, With, responseVars, Held, InReach,
                PersistedIsThere, UnchangedAtFirst
  <2>2. CASE q # r
    BY <1>2, <2>2 DEF SessionInv, ChangeSession, SessionTypeOK, With, responseVars, Held, InReach,
                      Carried, Fits, PersistedIsThere, UnchangedAtFirst
  <2>. QED
    BY <2>1, <2>2
<1>. QED
  BY <1>1, <1>2 DEF SessionInv

\* An explicit Save, which is one too many or the only one.
LEMMA SaveKeeps ==
  ASSUME SessionInv, NEW r \in SessionRequests, SaveSession(r) PROVE SessionInv'
<1>1. SessionTypeOK'
  BY NewCookieHolds DEF SessionInv, SaveSession, SessionTypeOK, With
<1>2. ASSUME NEW q \in SessionRequests PROVE Held(q)'
  BY <1>2, NewCookieHolds
  DEF SessionInv, SaveSession, SessionTypeOK, With, Held, InReach, Carried, Fits,
      PersistedIsThere, UnchangedAtFirst
<1>. QED
  BY <1>1, <1>2 DEF SessionInv

\* What ensureSessionSaved leaves behind, whoever calls it.
LEMMA EnsureSaves ==
  ASSUME SessionInv, NEW r \in SessionRequests, at[r] = "handler", EnsureSessionSaved(r),
         UNCHANGED <<data, change>>
  PROVE  /\ dirty' \in [SessionRequests -> BOOLEAN]
         /\ persisted' \in [SessionRequests -> BOOLEAN]
         /\ cookie' \in [SessionRequests -> Cookies]
         /\ \A q \in SessionRequests : Cardinality(cookie'[q].keys) <= Capacity
         /\ \A q \in SessionRequests \ {r} :
              cookie'[q] = cookie[q] /\ dirty'[q] = dirty[q] /\ persisted'[q] = persisted[q]
         /\ change[r] = "open" /\ Fits(r) => ~dirty'[r] /\ Carried(r)'
         /\ persisted'[r] /\ ~begun[r] => cookie'[r] # NoCookie
<1>1. CASE persisted[r] \/ ~dirty[r] \/ ~Fits(r)
  BY <1>1 DEF SessionInv, SessionTypeOK, EnsureSessionSaved, Held, InReach, Carried,
              PersistedIsThere, UnchangedAtFirst
<1>2. CASE ~(persisted[r] \/ ~dirty[r] \/ ~Fits(r))
  <2>1. /\ dirty' = [dirty EXCEPT ![r] = FALSE]
        /\ cookie' = [cookie EXCEPT ![r] = NewCookie(r)]
        /\ persisted' = [persisted EXCEPT ![r] = TRUE]
    BY <1>2 DEF EnsureSessionSaved, With
  <2>. QED
    BY <1>2, <2>1, NewCookieHolds DEF SessionInv, SessionTypeOK, Held, InReach, Carried
<1>. QED
  BY <1>1, <1>2

\* WriteHeader saves before it passes the status on.
LEMMA StatusKeeps ==
  ASSUME SessionInv, NEW r \in SessionRequests, SetStatus(r) PROVE SessionInv'
<1>1. SessionTypeOK'
  BY EnsureSaves DEF SessionInv, SetStatus, SessionTypeOK
<1>2. ASSUME NEW q \in SessionRequests PROVE Held(q)'
  BY <1>2, EnsureSaves
  DEF SessionInv, SetStatus, SessionTypeOK, Held, InReach, Carried, Fits,
      PersistedIsThere, UnchangedAtFirst
<1>. QED
  BY <1>1, <1>2 DEF SessionInv

\* Write saves before the response begins.
LEMMA WriteKeeps ==
  ASSUME SessionInv, NEW r \in SessionRequests, WriteBody(r) PROVE SessionInv'
<1>1. SessionTypeOK'
  BY EnsureSaves DEF SessionInv, WriteBody, SessionTypeOK, With
<1>2. ASSUME NEW q \in SessionRequests PROVE Held(q)'
  BY <1>2, EnsureSaves
  DEF SessionInv, WriteBody, SessionTypeOK, With, Held, InReach, Carried, Fits,
      PersistedIsThere, UnchangedAtFirst
<1>. QED
  BY <1>1, <1>2 DEF SessionInv

\* Flush begins the response without saving.
LEMMA FlushKeeps ==
  ASSUME SessionInv, NEW r \in SessionRequests, FlushBody(r) PROVE SessionInv'
<1>1. SessionTypeOK'
  BY DEF SessionInv, FlushBody, SessionTypeOK, With
<1>2. ASSUME NEW q \in SessionRequests PROVE Held(q)'
  BY <1>2
  DEF SessionInv, FlushBody, SessionTypeOK, With, Held, InReach, Carried, Fits,
      PersistedIsThere, UnchangedAtFirst
<1>. QED
  BY <1>1, <1>2 DEF SessionInv

\* The middleware saves what is left when c.Next returns.
LEMMA FinishKeeps ==
  ASSUME SessionInv, NEW r \in SessionRequests, FinishSession(r) PROVE SessionInv'
<1>1. SessionTypeOK'
  BY EnsureSaves DEF SessionInv, FinishSession, SessionTypeOK, With
<1>2. ASSUME NEW q \in SessionRequests PROVE Held(q)'
  BY <1>2, EnsureSaves
  DEF SessionInv, FinishSession, SessionTypeOK, With, Held, InReach, Carried, Fits,
      PersistedIsThere, UnchangedAtFirst
<1>. QED
  BY <1>1, <1>2 DEF SessionInv

-----------------------------------------------------------------------------

\* The invariant holds in every reachable state.
THEOREM SessionInvHolds == SessionSpec => []SessionInv
<1>1. SessionInv /\ [SessionNext]_sessionVars => SessionInv'
  <2>. SUFFICES ASSUME SessionInv, [SessionNext]_sessionVars PROVE SessionInv'
    OBVIOUS
  <2>1. CASE SessionTick
    BY <2>1, TickKeeps
  <2>2. ASSUME NEW r \in SessionRequests,
               LoadSession(r) \/ ChangeSession(r) \/ SaveSession(r) \/ SetStatus(r)
                 \/ WriteBody(r) \/ FlushBody(r) \/ FinishSession(r)
        PROVE  SessionInv'
    BY <2>2, LoadKeeps, ChangeKeeps, SaveKeeps, StatusKeeps, WriteKeeps, FlushKeeps, FinishKeeps
  <2>3. CASE UNCHANGED sessionVars
    BY <2>3 DEF sessionVars, SessionInv, SessionTypeOK, Held, InReach, Carried, Fits,
                PersistedIsThere, UnchangedAtFirst
  <2>. QED
    BY <2>1, <2>2, <2>3 DEF SessionNext
<1>. QED
  BY <1>1, SessionStarts, PTL DEF SessionSpec

\* What a request changed in time reaches its browser, and no cookie is beyond the
\* limit (middleware/session.go 99-109, 206-240).
THEOREM SessionIsKept == SessionSpec => [](SessionTypeOK /\ SessionReachesBrowser)
<1>1. SessionInv => SessionTypeOK /\ SessionReachesBrowser
  BY DEF SessionInv, Held, InReach, Carried, SessionReachesBrowser
<1>. QED
  BY <1>1, SessionInvHolds, PTL

-----------------------------------------------------------------------------
(***************************************************************************)
(* OpenFormsWork for any number of requests, tokens and restarts: as long  *)
(* as nothing excuses a refusal, there is at most one token about, in the  *)
(* cookie, the pages and the requests, and the running server signed it.   *)
(***************************************************************************)

\* While the browser has no cookie, one request is on its way to bring it one.
BeforeTheCookie ==
  csrfJar = NoToken =>
    /\ pages = {}
    /\ \A v, w \in InFlight : v = w
    /\ \A v \in InFlight :
         /\ visit[v].submitted = NoToken
         /\ IF visit[v].stage = "sent" THEN visit[v].cookie = NoToken
            ELSE ValidSigned(visit[v].cookie) /\ visit[v].sets

\* From then on pages and requests have the token of the cookie.
WithTheCookie ==
  csrfJar # NoToken =>
    /\ ValidSigned(csrfJar)
    /\ pages \subseteq {csrfJar}
    /\ \A v \in InFlight :
         /\ visit[v].cookie = csrfJar /\ ~visit[v].sets
         /\ visit[v].submitted \in {NoToken, csrfJar}
         /\ visit[v].stage = "refused" => visit[v].submitted = NoToken

CsrfInv ==
  /\ CsrfTypeOK
  /\ ~excused => BeforeTheCookie /\ WithTheCookie

VisitType == [stage : Stages, safe : BOOLEAN, sets : BOOLEAN, cookie : Tokens, submitted : Tokens]

LEMMA TokenTypes ==
  /\ NoToken \in Tokens
  /\ Idle \in VisitType /\ Idle.stage = "new" /\ Idle.sets = FALSE
  BY CsrfAssumption DEF NoToken, Tokens, Idle, VisitType, Stages

\* No page is open at first and no token is issued.
LEMMA CsrfStarts == CsrfInit => CsrfInv
<1>. SUFFICES ASSUME CsrfInit PROVE CsrfInv
  OBVIOUS
<1>1. CsrfTypeOK
  <2>1. visit \in [Visits -> VisitType]
    BY TokenTypes DEF CsrfInit
  <2>2. secret \in 0..LastSecret
    BY CsrfAssumption DEF CsrfInit
  <2>3. csrfJar \in Tokens /\ pages \subseteq Tokens /\ excused \in BOOLEAN
    BY TokenTypes DEF CsrfInit
  <2>. QED
    BY <2>1, <2>2, <2>3 DEF CsrfTypeOK, VisitType
<1>2. InFlight = {}
  BY TokenTypes DEF CsrfInit, InFlight
<1>. QED
  BY <1>1, <1>2 DEF CsrfInit, CsrfInv, BeforeTheCookie, WithTheCookie

\* The browser attaches the cookie it has when it sends.
LEMMA SendKeeps ==
  ASSUME CsrfInv, NEW v \in Visits, NEW safe \in BOOLEAN, NEW token \in pages \cup {NoToken},
         Send(v, safe, token)
  PROVE  CsrfInv'
<1>1. /\ visit'[v] = [Idle EXCEPT !.stage = "sent", !.safe = safe, !.cookie = csrfJar,
                                  !.submitted = token]
      /\ \A w \in Visits \ {v} : visit'[w] = visit[w]
  BY DEF CsrfInv, CsrfTypeOK, Send
<1>2. /\ visit'[v].stage = "sent" /\ visit'[v].cookie = csrfJar /\ visit'[v].submitted = token
      /\ visit'[v].sets = FALSE /\ visit'[v].safe = safe
      /\ visit'[v] \in VisitType
  BY <1>1, TokenTypes DEF Idle, CsrfInv, CsrfTypeOK, VisitType, Stages
<1>3. CsrfTypeOK'
  BY <1>2, TokenTypes DEF CsrfInv, CsrfTypeOK, Send, VisitType
<1>4. InFlight' = InFlight \cup {v} /\ v \notin InFlight
  BY <1>1, <1>2 DEF InFlight, Send
<1>5. ASSUME ~excused' PROVE BeforeTheCookie' /\ WithTheCookie'
  <2>1. ~excused /\ csrfJar' = csrfJar /\ pages' = pages /\ secret' = secret
        /\ (csrfJar = NoToken => InFlight = {})
    BY <1>5 DEF Send, CsrfInv, CsrfTypeOK
  <2>2. CASE csrfJar = NoToken
    <3>1. token = NoToken /\ InFlight' = {v}
      BY <2>1, <2>2, <1>4 DEF CsrfInv, BeforeTheCookie
    <3>. QED
      BY <2>1, <2>2, <3>1, <1>2 DEF CsrfInv, BeforeTheCookie, WithTheCookie
  <2>3. CASE csrfJar # NoToken
    <3>1. token \in {NoToken, csrfJar}
      BY <2>1, <2>3 DEF CsrfInv, WithTheCookie
    <3>. QED
      <4>1. ASSUME NEW w \in InFlight'
            PROVE  /\ visit'[w].cookie = csrfJar /\ ~visit'[w].sets
                   /\ visit'[w].submitted \in {NoToken, csrfJar}
                   /\ visit'[w].stage = "refused" => visit'[w].submitted = NoToken
        <5>1. CASE w = v
          BY <5>1, <3>1, <1>2
        <5>2. CASE w # v
          BY <5>2, <4>1, <1>1, <1>4, <2>1, <2>3 DEF CsrfInv, WithTheCookie, InFlight
        <5>. QED
          BY <5>1, <5>2
      <4>. QED
        BY <2>1, <2>3, <4>1 DEF CsrfInv, BeforeTheCookie, WithTheCookie, ValidSigned
  <2>. QED
    BY <2>2, <2>3
<1>. QED
  BY <1>3, <1>5 DEF CsrfInv

\* What the middleware finds, keeps, or generates.
LEMMA CheckKeeps ==
  ASSUME CsrfInv, NEW v \in Visits, CheckToken(v) PROVE CsrfInv'
<1>1. PICK token \in [secret : {secret}, n : 1..LastToken] :
        /\ RequestToken(v, token)
        /\ visit' = [visit EXCEPT
             ![v].cookie = token,
             ![v].sets = token # visit[v].cookie,
             ![v].stage = IF visit[v].safe THEN "page"
                          ELSE IF TokensEqual(token, visit[v].submitted) THEN "passed" ELSE "refused"]
  BY DEF CheckToken
<1>2. token \in Tokens /\ token # NoToken /\ ValidSigned(token)
  BY CsrfAssumption DEF Tokens, NoToken, ValidSigned, CsrfInv, CsrfTypeOK
<1>3. /\ \A w \in Visits \ {v} : visit'[w] = visit[w]
      /\ visit'[v].cookie = token
      /\ visit'[v].sets = (token # visit[v].cookie)
      /\ visit'[v].submitted = visit[v].submitted
      /\ visit'[v].safe = visit[v].safe
      /\ visit'[v].stage = IF visit[v].safe THEN "page"
                           ELSE IF TokensEqual(token, visit[v].submitted) THEN "passed" ELSE "refused"
  BY <1>1 DEF CsrfInv, CsrfTypeOK
<1>4. visit'[v] \in VisitType
  <2>1. visit[v] \in VisitType /\ v \in DOMAIN visit
    BY DEF CsrfInv, CsrfTypeOK, VisitType
  <2>2. visit'[v] = [visit[v] EXCEPT !.cookie = token, !.sets = token # visit[v].cookie,
                       !.stage = IF visit[v].safe THEN "page"
                                 ELSE IF TokensEqual(token, visit[v].submitted) THEN "passed"
                                 ELSE "refused"]
    BY <1>1, <2>1
  <2>. QED
    BY <2>1, <2>2, <1>2 DEF VisitType, Stages
<1>5. CsrfTypeOK'
  <2>1. visit' \in [Visits -> VisitType]
    BY <1>1, <1>3, <1>4 DEF CsrfInv, CsrfTypeOK, VisitType
  <2>. QED
    BY <2>1 DEF CsrfInv, CsrfTypeOK, CheckToken, VisitType
<1>6. InFlight' = InFlight /\ v \in InFlight /\ visit[v].stage = "sent"
  BY <1>3 DEF InFlight, CheckToken
<1>7. ASSUME ~excused' PROVE BeforeTheCookie' /\ WithTheCookie'
  <2>1. ~excused /\ csrfJar' = csrfJar /\ pages' = pages /\ secret' = secret
    BY <1>7 DEF CheckToken
  <2>2. CASE csrfJar = NoToken
    <3>1. /\ pages = {} /\ \A w \in InFlight : w = v
          /\ visit[v].cookie = NoToken /\ visit[v].submitted = NoToken
      BY <2>1, <2>2, <1>6 DEF CsrfInv, BeforeTheCookie
    <3>2. visit'[v].stage # "sent" /\ visit'[v].sets
      BY <3>1, <1>2, <1>3
    <3>. QED
      BY <2>1, <2>2, <3>1, <3>2, <1>2, <1>3, <1>6
      DEF BeforeTheCookie, WithTheCookie, ValidSigned
  <2>3. CASE csrfJar # NoToken
    <3>1. token = csrfJar /\ visit[v].cookie = csrfJar
      BY <2>1, <2>3, <1>1, <1>6 DEF CsrfInv, WithTheCookie, RequestToken
    <3>. QED
      <4>1. ASSUME NEW w \in InFlight
            PROVE  /\ visit'[w].cookie = csrfJar /\ ~visit'[w].sets
                   /\ visit'[w].submitted \in {NoToken, csrfJar}
                   /\ visit'[w].stage = "refused" => visit'[w].submitted = NoToken
        <5>1. CASE w = v
          BY <5>1, <3>1, <1>3, <1>6, <2>1, <2>3 DEF CsrfInv, WithTheCookie, TokensEqual
        <5>2. CASE w # v
          BY <5>2, <4>1, <1>3, <2>1, <2>3 DEF CsrfInv, WithTheCookie, InFlight
        <5>. QED
          BY <5>1, <5>2
      <4>. QED
        BY <2>1, <2>3, <4>1, <1>6 DEF CsrfInv, BeforeTheCookie, WithTheCookie, ValidSigned
  <2>. QED
    BY <2>2, <2>3
<1>. QED
  BY <1>5, <1>7 DEF CsrfInv

\* A response replaces the cookie and opens or closes a form.
LEMMA ReceiveKeeps ==
  ASSUME CsrfInv, NEW v \in Visits, Receive(v) PROVE CsrfInv'
<1>1. CsrfTypeOK'
  BY TokenTypes DEF CsrfInv, CsrfTypeOK, Receive, Idle, Stages
<1>2. /\ \A w \in Visits \ {v} : visit'[w] = visit[w]
      /\ visit'[v].stage = "new"
      /\ v \in InFlight /\ visit[v].stage # "sent"
  BY DEF CsrfInv, CsrfTypeOK, Receive, Idle, InFlight
<1>3. InFlight' = InFlight \ {v}
  BY <1>2 DEF InFlight
<1>4. ASSUME ~excused' PROVE BeforeTheCookie' /\ WithTheCookie'
  BY <1>2, <1>3, <1>4
  DEF CsrfInv, BeforeTheCookie, WithTheCookie, Receive, ValidSigned
<1>. QED
  BY <1>1, <1>4 DEF CsrfInv

\* The steps of browser and server by themselves.
LEMMA OthersKeep ==
  CsrfInv /\ (ClosePage \/ LoseCookie \/ Restart \/ UNCHANGED csrfVars) => CsrfInv'
<1>. SUFFICES ASSUME CsrfInv, ClosePage \/ LoseCookie \/ Restart \/ UNCHANGED csrfVars
     PROVE  CsrfInv'
  OBVIOUS
<1>1. CASE ClosePage
  BY <1>1 DEF CsrfInv, CsrfTypeOK, ClosePage, BeforeTheCookie, WithTheCookie, InFlight, ValidSigned
<1>2. CASE LoseCookie
  BY <1>2, TokenTypes DEF CsrfInv, CsrfTypeOK, LoseCookie
<1>3. CASE Restart
  BY <1>3, CsrfAssumption DEF CsrfInv, CsrfTypeOK, Restart
<1>4. CASE UNCHANGED csrfVars
  BY <1>4
  DEF CsrfInv, CsrfTypeOK, csrfVars, BeforeTheCookie, WithTheCookie, InFlight, ValidSigned
<1>. QED
  BY <1>1, <1>2, <1>3, <1>4

\* The invariant holds in every reachable state.
THEOREM CsrfInvHolds == CsrfSpec => []CsrfInv
<1>1. CsrfInv /\ [CsrfNext]_csrfVars => CsrfInv'
  <2>. SUFFICES ASSUME CsrfInv, [CsrfNext]_csrfVars PROVE CsrfInv'
    OBVIOUS
  <2>1. ASSUME NEW v \in Visits, Send(v, TRUE, NoToken) PROVE CsrfInv'
    BY <2>1, SendKeeps
  <2>2. ASSUME NEW v \in Visits, NEW token \in pages \cup {NoToken}, Send(v, FALSE, token)
        PROVE  CsrfInv'
    BY <2>2, SendKeeps
  <2>3. ASSUME NEW v \in Visits, CheckToken(v) \/ Receive(v) PROVE CsrfInv'
    BY <2>3, CheckKeeps, ReceiveKeeps
  <2>4. CASE LoseCookie \/ ClosePage \/ Restart \/ UNCHANGED csrfVars
    BY <2>4, OthersKeep
  <2>. QED
    BY <2>1, <2>2, <2>3, <2>4 DEF CsrfNext
<1>. QED
  BY <1>1, CsrfStarts, PTL DEF CsrfSpec

\* A form that was handed out is accepted, however many pages and refusals there
\* were (middleware/csrf.go 117-171).
THEOREM FormsAreAccepted == CsrfSpec => []OpenFormsWork
<1>1. CsrfInv => OpenFormsWork
  BY DEF CsrfInv, BeforeTheCookie, WithTheCookie, OpenFormsWork, InFlight, CsrfTypeOK
<1>. QED
  BY <1>1, CsrfInvHolds, PTL

-----------------------------------------------------------------------------
(***************************************************************************)
(* AnsweredOnce for every list of middleware and mappers: where a request  *)
(* is on its way tells how often it has been answered.                     *)
(***************************************************************************)

\* What the steps need of the types.
ChainShape ==
  /\ chain \in Seq(Middleware) /\ next \in Nat \ {0}
  /\ operation \in Operations
  /\ way \in {"idle", "down", "up", "panic", "answered", "cut"}

\* No answer on the way down and in a panic, one on the way up.
OneAnswer ==
  /\ way \in {"idle", "down", "panic", "cut"} =>
       bodies = 0 /\ status = 0 /\ log = 0 /\ refusal = NoRefusal
  /\ way = "up" \/ (way = "answered" /\ ~captured) =>
       bodies = 1 /\ status # 0 /\ log \in {0, status}

\* A refused request has not reached the operation, and a captured one has.
RefusedOrHandled ==
  /\ refusal # NoRefusal => ~handled /\ bodies = 1 /\ status = refusal.status
  /\ captured => handled
  /\ handled => way \notin {"idle", "down"}

ChainInv == ChainShape /\ OneAnswer /\ RefusedOrHandled /\ HeadersArrive

-----------------------------------------------------------------------------
(* What middleware does.                                                   *)

\* No error is answered without a status.
LEMMA StatusIsSet == \A error : StatusOf(error) # 0
  BY DEF StatusOf

\* Nor does middleware refuse without one.
LEMMA RefusalsHaveStatus == \A mw \in Middleware : 0 \notin Does(mw).refuses
  BY StatusIsSet
  DEF Does, Middleware, Plain, RequestID, I18n, SecureHeaders, CORS, Deprecation, CSRF, UploadLimit,
      Typed, APIKeyAuth, HTTPBasicAuth, HTTPBearerAuth, OAuth2BearerAuth, JWTAuth

\* RequestID and Deprecation set their header whatever the request is.
LEMMA HeadersAreSet ==
  Does("requestID").heads = {{"requestID"}} /\ Does("deprecation").heads = {{"deprecation"}}
  BY DEF Does, Plain, RequestID, Deprecation

-----------------------------------------------------------------------------

\* Nothing has been written at first.
LEMMA ChainStarts == ChainInit => ChainInv
  BY ChainAssumption
  DEF ChainInit, ChainInv, ChainShape, OneAnswer, RefusedOrHandled, HeadersArrive, Operations

\* A request that begins finds nothing written.
LEMMA ServeKeeps == ChainInv /\ Serve => ChainInv'
  BY ChainAssumption
  DEF ChainInv, Serve, response, chainHistory, ChainShape, OneAnswer, RefusedOrHandled, HeadersArrive

\* Middleware that goes on adds headers and no answer.
LEMMA PassKeeps == ChainInv /\ Pass => ChainInv'
<1>. SUFFICES ASSUME ChainInv, Pass PROVE ChainInv'
  OBVIOUS
<1>1. ChainShape' /\ OneAnswer' /\ RefusedOrHandled'
  BY DEF ChainInv, Pass, setup, ChainShape, OneAnswer, RefusedOrHandled
<1>2. HeadersArrive'
  BY HeadersAreSet DEF ChainInv, Pass, setup, HeadersArrive
<1>. QED
  BY <1>1, <1>2 DEF ChainInv

\* A refusal answers and turns back.
LEMMA RefuseKeeps == ChainInv /\ Refuse => ChainInv'
<1>. SUFFICES ASSUME ChainInv, Refuse PROVE ChainInv'
  OBVIOUS
<1>1. chain[next] \in Middleware
  BY DEF ChainInv, ChainShape, Refuse
<1>2. PICK code \in Does(chain[next]).refuses :
        refusal' = [by |-> chain[next], status |-> code] /\ Answer(code)
  BY DEF Refuse
<1>3. code # 0
  BY <1>1, <1>2, RefusalsHaveStatus
<1>4. ChainShape' /\ OneAnswer' /\ RefusedOrHandled'
  BY <1>2, <1>3
  DEF ChainInv, Refuse, setup, Answer, ChainShape, OneAnswer, RefusedOrHandled
<1>5. HeadersArrive'
  BY DEF ChainInv, Refuse, setup, HeadersArrive
<1>. QED
  BY <1>4, <1>5 DEF ChainInv

\* The operation answers once, or panics without an answer.
LEMMA OperationKeeps ==
  ChainInv /\ (Operate \/ OperationTimesOut \/ OperationPanics) => ChainInv'
<1>. SUFFICES ASSUME ChainInv, Operate \/ OperationTimesOut \/ OperationPanics PROVE ChainInv'
  OBVIOUS
<1>1. CASE Operate
  BY <1>1, StatusIsSet
  DEF ChainInv, Operate, setup, Answer, ChainShape, OneAnswer, RefusedOrHandled, HeadersArrive
<1>2. CASE OperationTimesOut
  BY <1>2
  DEF ChainInv, OperationTimesOut, setup, Answer, ChainShape, OneAnswer, RefusedOrHandled,
      HeadersArrive
<1>3. CASE OperationPanics
  BY <1>3
  DEF ChainInv, OperationPanics, setup, response, ChainShape, OneAnswer, RefusedOrHandled,
      HeadersArrive
<1>. QED
  BY <1>1, <1>2, <1>3

\* On the way back only Recovery answers, and only a panic.
LEMMA ReturnKeeps == ChainInv /\ (Return \/ Unwind \/ Leave) => ChainInv'
<1>. SUFFICES ASSUME ChainInv, Return \/ Unwind \/ Leave PROVE ChainInv'
  OBVIOUS
<1>1. CASE Return
  BY <1>1
  DEF ChainInv, Return, setup, response, chainHistory, ChainShape, OneAnswer, RefusedOrHandled,
      HeadersArrive
<1>2. CASE Unwind
  BY <1>2, StatusIsSet
  DEF ChainInv, Unwind, setup, chainHistory, Answer, ChainShape, OneAnswer, RefusedOrHandled,
      HeadersArrive
<1>3. CASE Leave
  BY <1>3
  DEF ChainInv, Leave, setup, chainHistory, ChainShape, OneAnswer, RefusedOrHandled, HeadersArrive
<1>. QED
  BY <1>1, <1>2, <1>3

\* The invariant holds in every reachable state.
THEOREM ChainInvHolds == ChainSpec => []ChainInv
<1>1. ChainInv /\ UNCHANGED chainVars => ChainInv'
  BY DEF ChainInv, chainVars, ChainShape, OneAnswer, RefusedOrHandled, HeadersArrive
<1>2. ChainInv /\ [ChainNext]_chainVars => ChainInv'
  BY <1>1, ServeKeeps, PassKeeps, RefuseKeeps, OperationKeeps, ReturnKeeps DEF ChainNext
<1>. QED
  BY <1>2, ChainStarts, PTL DEF ChainSpec

\* Whatever middleware there is in whatever order, a request has one answer, as it is
\* logged, with the headers set before it but for those copyHeader drops.
THEOREM EveryRequestIsAnsweredOnce == ChainSpec => []AnsweredOnce
<1>1. ChainInv => AnsweredOnce
  BY DEF ChainInv, OneAnswer, RefusedOrHandled, AnsweredOnce, RefusalIsFinal, LoggedAsAnswered
<1>. QED
  BY <1>1, ChainInvHolds, PTL
================================================================================
