SPECIFICATION FairSpec
CONSTANTS
  T1 = T1
  T2 = T2
  R1 = R1
  R2 = R2
  D1 = D1
  D2 = D2
  NULL = NULL
  Conn = {1, 2, 3}
  Till = {T1}
  Reader = {R1}
  Display = {D1}
  Client = {C1}
  Tag = {}
  ReaderAt <- OneReaderAt
  DisplayAt <- OneDisplayAt
  Kinds <- PayKinds
  DbMayFail = FALSE
  MaxQueue = 2
PROPERTY
  PayReachesDisplay
