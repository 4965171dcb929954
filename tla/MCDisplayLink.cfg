SPECIFICATION FairSpec
CONSTANTS
  P1 = P1
  NONE = NONE
  Phone = {P1}
  MaxConn = 3
  MaxFaults = 2
  MaxFrames = 2
INVARIANTS
  QuietConfirmation
  CrashHasCause
  OncePerConnection
PROPERTIES
  ShownInOrder
  KeptIsRegistered
  Recovers
CHECK_DEADLOCK FALSE
