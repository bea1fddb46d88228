\* One conversion, then the run is over.
CHECK_DEADLOCK FALSE
CONSTANTS
  Types <- MCTypes
  Ids = {"ev1"}
  ProfileEvents <- MCProfileEvents
  MantissaBits = 3
  MaxExtra = 24
SPECIFICATION CodecSpec
INVARIANT BadPayloadIsAnError
