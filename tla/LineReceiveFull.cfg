SPECIFICATION Spec
CONSTANTS
  AtrSizes = {0}
  RxLength = 4
  ApduSizes = {4}
  OutBufSizes = {18}
  ControlSizes = {}
  MaxCalls = 2
INVARIANT WholeReplyOrError
CHECK_DEADLOCK FALSE
