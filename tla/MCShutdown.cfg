\* Every request and every Shutdown call runs once, construction may fail, and a
\* stopped server does nothing more.
CHECK_DEADLOCK FALSE
CONSTANTS
  Conns = {c1, c2, c3}
  Callers = {k1, k2}
  Patterns = {"/v1/", "/v2/", "/a/{y}", "/{x}/b", ""}
  Invalid = {""}
  Conflicts = {{"/a/{y}", "/{x}/b"}}
  Handlers = {h1, h2, plain}
  NilHandler = nil
  Lifecycle = {h1, h2}
  Reqs = {r1, r2}
  MaxOptions = 3
SPECIFICATION ShutdownSpec
INVARIANTS
  NilMeansQuiescent
  ReturnMeansCancelled
  RegIndInv
  TypeOK
  EveryHandlerStopped
PROPERTIES
  ImplementsContract
  ServerKeepsContract
  AggregateReturns
