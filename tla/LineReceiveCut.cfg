SPECIFICATION FairSpec
CONSTANTS
  AtrSizes = {0}
  RxLength = 4
  ApduSizes = {0, 2, 3}
  OutBufSizes = {18}
  ControlSizes = {}
  MaxCalls = 2
PROPERTY ReceiveReturns
CHECK_DEADLOCK FALSE
