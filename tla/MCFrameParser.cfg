\* The stream ends, and the parser waits for good: no deadlock check.
SPECIFICATION Spec
CONSTANTS
  SOCKET_DATA_CONNECT_FLAG = 3
  LENGTH_FIELD = 2
  BASE_STRING_LEN_MAX = 4
  MaxLength = 9
  Frames = 7
  Start <- MCStart
INVARIANTS
  FramesInOrder
  OnlyBareHeaderWaits
  InBuffer
CHECK_DEADLOCK FALSE
