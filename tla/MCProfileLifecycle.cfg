\* The command ends, and every request is answered once.
CHECK_DEADLOCK FALSE
CONSTANTS
  Specs <- MCSpecs
  Inventories <- MCInventories
  FlagSets <- MCFlagSets
  PathCount = 2
  OperationCount = 3
  EventCount = 2
  Rank <- MCRank
  Lower <- MCLower
  PrefixOf <- MCPrefixOf
  Templated = {"/containers/{id}"}
  Variants = {}
  JSONMedia = {"application/json"}
  rawOnlyOperations = {"createVoice"}
  MaxRuns = 2
  Goroutines = {g1, g2, g3}
  Kinds = {"", "rate_limit_error"}
  Messages = {"", "slow down"}
  OperationKeys = {"listModels", "missing"}
  EventKeys <- MCEventKeys
SYMMETRY MCSymmetry
SPECIFICATION LifecycleSpec
INVARIANTS
  FilesAreCanonical
  FilesAgree
  LookupsMatchSpec
  ErrorAnswersAgree
