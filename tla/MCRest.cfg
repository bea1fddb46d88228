\* One request, then the run is over.
CHECK_DEADLOCK FALSE
CONSTANTS
  MaxInt = 7
  Limits = {1, 3, 6}
  BodySizes = {0, 1, 2, 3, 4, 6, 7}
  Validates = {TRUE, FALSE}
  Statuses = {0, 99, 150, 204, 404, 600}
  SuccessStatus = 200
  MaxEvents = 2
  PathNames = {"id", "item"}
  QueryNames = {"id", "after"}
  RequestNames = {"Accept", "Authorization"}
  Texts = {"a", "b"}
  MaxValues = 2
  Names = {"X-Request-Id", "Content-Type", "Retry-After", "Cache-Control", "Connection",
           "Set-Cookie", "Openai-Version"}
  Spellings = {1, 2}
  MaxKeys = 2
  MediaTypes = {"text/plain", "application/problem+json"}
  JsonTypes = {"application/problem+json"}
SPECIFICATION RestSpec
INVARIANTS
  BackendSeesWholeBody
  AnsweredOnceAsChosen
  ResultReleasedOnce
  NothingBufferedWhileWaiting
  BackendReadsTheRequest
  AnswerIsLabelled
  MetadataReachesClient
PROPERTY EndedRequestReturns
