SPECIFICATION MCSpec
\* Every request is answered, and a client may stop reading.
CHECK_DEADLOCK FALSE
CONSTANTS
  ann = ann
  bob = bob
  admin = admin
  n1 = n1
  n2 = n2
  Ids = {1, 2}
  Owners = {ann, bob}
  Names = {n1, n2}
  Users = {bob, admin}
  ScopeOf <- MCScopeOf
  Payloads <- MCPayloads
  Requests = {r1, r2}
  Isolations = {"readCommitted", "snapshot"}
  NoRequest = nobody
  NoId = 0
  Resources <- MCResources
  MaxRegistered = 3
  SiteUsers = {"bob", "admin", "eve"}
  Verdicts <- MCVerdicts
  FieldRules <- MCFieldRules
  RowsShown <- MCRowsShown
  InitialRows <- MCInitialRows
  ReadRequests <- MCReadRequests
  TableRows <- MCTableRows
  Filters <- MCFilters
  Sorts <- MCSorts
  SortAliases <- MCAliases
  PageSizes = {0, 1}
  PageNumbers = {0, 2, 9}
  DefaultSize = 2
  MaxSize = 3
  MaxInt = 15
  MaxChanges = 2
SYMMETRY Symmetry
INVARIANTS MCTypeOK ReadsKeepTheRules ListsAreComplete
PROPERTIES ChangesStayInScope DeletionsCountedOnce PartialUpdateKeepsTheRest
