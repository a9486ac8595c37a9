\* The orphans of a node deleted in the middle of the tree, as the tests expect to find them.
CONSTANTS
  Node = {a1, a2, a3, a4, a5}
  NULL = NULL
  MAX_CHILDREN = 2
  MAX_QUEUE_SIZE = 5
  MaxIds = 5
SPECIFICATION Spec
CHECK_DEADLOCK FALSE
PROPERTY OrphansCanBeFound
