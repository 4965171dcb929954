SPECIFICATION Spec
CONSTANTS
  T1 = T1
  T2 = T2
  R1 = R1
  R2 = R2
  D1 = D1
  D2 = D2
  NULL = NULL
  Conn = {1, 2, 3}
  Till = {T1, T2}
  Reader = {R1, R2}
  Display = {D1, D2}
  Client = {C1}
  Tag = {G1}
  ReaderAt <- TwoReaderAt
  DisplayAt <- TwoDisplayAt
  Kinds <- AllKinds
  DbMayFail = TRUE
  MaxQueue = 1
INVARIANTS
  RightTill
  AnswerGoesBack
  ShownOnce
