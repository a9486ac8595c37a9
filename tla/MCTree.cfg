\* Five addresses, two children per node, a queue no level can outgrow.
CONSTANTS
  Node = {a1, a2, a3, a4, a5}
  NULL = NULL
  MAX_CHILDREN = 2
  MAX_QUEUE_SIZE = 5
  MaxIds = 6
SPECIFICATION Spec
SYMMETRY Addresses
\* The context is gone after tree_destroy.
CHECK_DEADLOCK FALSE
INVARIANTS
  TypeOK
  PointersAgree
  NoCycles
  BooksKept
  FindSeesLinked
  TraversalsAgree
PROPERTIES
  NoNodeLostWithRoom
  DetachedForGood
  SiblingsKeepOrder
  ImplementsForest
