\* Requests, frames and events are finite here, so behaviours may end.
CHECK_DEADLOCK FALSE
CONSTANTS
  Conns = {c1}
  Callers = {k1}
  Types <- MCTypes
  Ids = {"ev1"}
  ProfileEvents <- MCProfileEvents
  MantissaBits = 3
  Configured = {"realtime"}
  PeerCodes = {1001}
  ClientFrames <- MCGoodFrames
  BackendEvents <- MCGoodEvents
  MaxFrames = 1
  MaxEvents = 1
SPECIFICATION FairSpec
PROPERTIES ShutdownDrains ShutdownReturns NoGoroutineLeak
