\* Three addresses; processes may start in one second; loads find any tree.
CONSTANTS
  Node = {a1, a2, a3}
  NULL = NULL
  MAX_CHILDREN = 2
  MAX_QUEUE_SIZE = 4
  SameSecond = TRUE
  LoadAnyTime = TRUE
  MaxIds = 3
  MaxSecond = 1
SPECIFICATION Spec
SYMMETRY Addresses
\* No address, id or second may be left.
CHECK_DEADLOCK FALSE
INVARIANTS
  TypeOK
  LoadRebuilds
PROPERTY SavedIsRestored
