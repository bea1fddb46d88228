\* One request, then the run is over.
CHECK_DEADLOCK FALSE
CONSTANTS
  PathNames = {"id", "item"}
  QueryNames = {"id", "after"}
  RequestNames = {"Accept", "Authorization"}
  Texts = {"a", "b"}
  MaxValues = 2
  Names = {"X-Request-Id", "Content-Type", "Retry-After", "Cache-Control", "Connection"}
  Spellings = {1}
  MaxKeys = 0
  MediaTypes = {}
  JsonTypes = {}
SPECIFICATION EnvelopeSpec
INVARIANT PathValuesPreserved
