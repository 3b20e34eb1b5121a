SPECIFICATION FairSpec
CONSTANTS
  AtrSizes = {0, 31}
  RxLength = 4
  ApduSizes = {0, 3, 4}
  OutBufSizes = {0, 10}
  ControlSizes = {0, 5}
  MaxCalls = 2
INVARIANTS
  TypeOK
  WholeReplyUnlessOverlong
  NothingLeftOver
  StaysInBuffer
PROPERTY ReceiveReturnsUnlessCut
CHECK_DEADLOCK FALSE
