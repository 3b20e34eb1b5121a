SPECIFICATION Spec
CONSTANTS
  Threads = {t1, t2}
  Connections = {c1, c2}
  NoThread = NoThread
  NoSocket = NoSocket
  StartMayFail = TRUE
  MaxStarts = 2
  MaxStops = 1
  MaxExchanges = 2
SYMMETRY Symmetry
INVARIANTS
  TypeOK
  ReplyIsOwn
  InStep
  ExclusiveSocket
  MutexIsGivenBack
PROPERTY ImplementsExchanges
CHECK_DEADLOCK FALSE
