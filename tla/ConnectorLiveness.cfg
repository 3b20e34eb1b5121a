SPECIFICATION FairSpec
CONSTANTS
  Threads = {t1, t2}
  Connections = {c1, c2}
  NoThread = NoThread
  NoSocket = NoSocket
  StartMayFail = FALSE
  MaxStarts = 1
  MaxStops = 1
  MaxExchanges = 1
PROPERTIES
  ExchangeReturns
  SimulatorIsServed
CHECK_DEADLOCK FALSE
