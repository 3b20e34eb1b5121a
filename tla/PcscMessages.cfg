SPECIFICATION Spec
CONSTANTS
  WordBytes = 2
  SampleBytes = {0, 9, 10, 16, 90, 127, 128, 175, 255}
  MaxBytes = 3
  SampleChars = {32, 48, 57, 65, 70, 71, 97, 102}
  MaxChars = 5
  SampleCodes = {0, 2, 615, 65535}
INVARIANTS
  ArrayRoundTrip
  IntRoundTrip
  OddLengthIsPadded
  IntAgreesWithArray
  ReplyIsUnderstood
  RequestFits
CHECK_DEADLOCK FALSE
