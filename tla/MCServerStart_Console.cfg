SPECIFICATION FairStartSpec
CONSTANTS
  R1 = R1
  R2 = R2
  D1 = D1
  Client = {R1, R2, D1}
  ServerOf <- TwoReadersOneDisplay
  MaxCommands = 3
INVARIANTS
  AcceptLoopSafe
  StartedIsWhole
  CleanFailure
PROPERTY
  EarlyMessageHandled
CHECK_DEADLOCK FALSE
