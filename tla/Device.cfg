SPECIFICATION DSpec
CONSTANTS
  InsertRequests = {i1, i2}
  RemoveRequests = {}
  NoRequest = NoRequest
  ThreadCreationFails = FALSE
  SleepOutlastsHandler = TRUE
  Handler = Handler
  Nobody = Nobody
INVARIANTS
  DeviceTypeOK
  HeldWhileCalled
PROPERTIES
  ImplementsLedger
  DeviceLockComesBack
  RemovalEnds
  
CHECK_DEADLOCK FALSE
