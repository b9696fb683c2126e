SPECIFICATION MCSpec
CONSTANTS
  r1 = r1
  r2 = r2
  r3 = r3
  v1 = v1
  v2 = v2
  Routers = {r1, r2, r3}
  Versions = {v1, v2}
  VersionOf <- MCVersionOf
  Unversioned = none
  Adders = {a1, a2}
  Readers = {g1, g2}
  Nodes = {n1, n2, n3}
  Routings <- MCRoutings
  Releases = {"v1", "v2"}
  Retired = {"v1"}
  ReleasePrefix <- MCReleasePrefix
  Endpoints <- MCEndpoints
  MaxCalls = 3
  Handlers <- MCHandlers
  MaxOptions = 3
  HandlerCodes = {0, 404}
  GuardCodes = {401}
  Structs <- MCStructs
  Alphabet <- MCAlphabet
  Asked <- MCAsked
  Bodies <- MCBodies
  Writers <- MCWriters
  Inputs <- MCInputs
  MediaTypes = {"none", "json", "form", "multipart"}
SYMMETRY Symmetry
INVARIANTS
  MCTypeOK
  VersionDocumentFresh
  MountedAsWritten
  
  DocumentsKeepTheirWord
  InputsAreRead
PROPERTY
  FrozenWhileAccepting
