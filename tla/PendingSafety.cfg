SPECIFICATION Spec
CONSTANTS
  InsertRequests = {i1, i2}
  RemoveRequests = {r1}
  NoRequest = NoRequest
  ThreadCreationFails = FALSE
  SleepOutlastsHandler = TRUE
SYMMETRY Symmetry
INVARIANTS
  TypeOK
  OneCompleter
  AnsweredOnce
  NoDanglingPointer
  WaitersAreWatched
  OwnedHasCompleter
PROPERTIES
  CancelIsFinal
  ForgottenWithCause
  ImplementsLedger
