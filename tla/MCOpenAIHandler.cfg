\* Construction ends, and one request is served.
CHECK_DEADLOCK FALSE
CONSTANTS
  Capabilities = {"responses", "chat"}
  Foreign = {"future"}
  Surfaces = {"realtime", "responses_websocket"}
  Impls = {i1, i2}
  Nil = nil
  BasePaths <- MCBasePaths
  BodyLimits = {0, 1}
  DefaultBodyLimit = 32
  OriginLists <- MCOriginLists
  Blank = "blank"
  Rejected = "rejected"
  Principals <- MCPrincipals
  Tables <- MCTables
  Requests <- MCRequests
  MaxSettings = 2
SYMMETRY MCSymmetry
SPECIFICATION OpenAISpec
INVARIANTS
  LookupsFollowOptions
  OnlyKnownCallersReachBackends
  OperationIsMostSpecific
  ServedByTheOneConfigured
