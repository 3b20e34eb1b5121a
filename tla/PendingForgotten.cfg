SPECIFICATION Spec
CONSTANTS
  InsertRequests = {i1, i2, i3}
  RemoveRequests = {}
  NoRequest = NoRequest
  ThreadCreationFails = FALSE
  SleepOutlastsHandler = TRUE
SYMMETRY Symmetry
INVARIANT NothingForgottenUncancelled
