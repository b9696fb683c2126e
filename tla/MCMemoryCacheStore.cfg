SPECIFICATION MCSpec
CONSTANTS
  Keys = {k1, k2, k3}
  Goroutines = {g1, g2}
  MaxEntries = 2
  Lifetimes = {0, 1}
  MaxTime = 3
  MaxSets = 4
  NoKey = nokey
  NoResponse = noresponse
  Callers = {c1, c2}
  Users = {u1, u2}
  LastVersion = 1
INVARIANTS
  MCTypeOK
  StoreConsistent
  CachedAnswersHold
PROPERTY
  ImplementsCache
SYMMETRY Symmetry
