\* As MCTreeHandlers: AlwaysFindsWhatIsThere.
CONSTANTS
  Thread = {t1, t2}
  Receiver = {t1}
  Node = {n1, n2, n3}
  NULL = NULL
  JUNK = JUNK
  MAX_CHILDREN = 2
  MAX_QUEUE_SIZE = 3
  MaxIds = 3
SPECIFICATION Spec
SYMMETRY Alike
\* Nothing moves once a handler has followed a null pointer.
CHECK_DEADLOCK FALSE
INVARIANT AlwaysFindsWhatIsThere
