\* Three slots, ids that come round after five, two kinds of messages.
CONSTANTS
  Content = {m1, m2}
  NoMessage = NoMessage
  queue_capacity = 3
  IdRange = 5
SPECIFICATION QueueSpec
INVARIANTS
  QueueTypeOK
  IdsDistinct
PROPERTY ImplementsFifo
