SPECIFICATION FairSpec
CONSTANTS
  Producer = {p1, p2, p3}
  Consumer = c
  Cell = {n1, n2, n3, n4}
  NULL = NULL
INVARIANTS
  NoWildAccess
  ListIsBacklog
PROPERTIES
  ImplementsFifo
  QuietQueueDrains
