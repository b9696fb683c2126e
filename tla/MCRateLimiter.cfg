SPECIFICATION MCSpec
CONSTANTS
  Clients = {w, o}
  Watched = w
  Requests = {r1, r2}
  Cost = 2
  Burst = 3
  TTL = 5
  PruneInterval = 5
  MaxDelay = 1
  MaxTime = 7
  SessionRequests = {s1, s2}
  Keys = {k1, k2}
  Capacity = 1
  MaxAge = 1
  LastTick = 1
  Visits = {v1, v2}
  LastToken = 3
  LastSecret = 1
  Chains <- MCChains
  Mappers <- MCMappers
SYMMETRY Symmetry
INVARIANTS MCTypeOK WithinRate SessionReachesBrowser OpenFormsWork AnsweredOnce
PROPERTY PacedIsAllowed
