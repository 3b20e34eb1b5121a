SPECIFICATION Spec
CONSTANTS
  Threads = {t1}
  Connections = {c1}
  NoThread = NoThread
  NoSocket = NoSocket
  StartMayFail = FALSE
  MaxStarts = 2
  MaxStops = 1
  MaxExchanges = 1
SYMMETRY Symmetry
INVARIANT StartedServerListens
CHECK_DEADLOCK FALSE
