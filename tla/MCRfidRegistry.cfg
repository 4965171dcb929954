\* One of the device tables.  The server stops for good when it has used up its
\* descriptors and every device left: no deadlock check.
SPECIFICATION Spec
CONSTANTS
  Conn = {1, 2, 3}
  Device = {d1, d2}
  NULL = NULL
  MaxQueue = 2
SYMMETRY Symmetry
INVARIANTS
  NeverMisrouted
  UnracedRoute
PROPERTY
  ImplementsRouteTable
CHECK_DEADLOCK FALSE
