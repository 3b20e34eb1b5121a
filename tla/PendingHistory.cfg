SPECIFICATION HSpec
CONSTANTS
  InsertRequests = {i1, i2}
  RemoveRequests = {}
  NoRequest = NoRequest
  ThreadCreationFails = FALSE
  SleepOutlastsHandler = TRUE
INVARIANT SuccessIsTrue
