\* Two threads, three types for two entries, handlers one inside another.
CONSTANTS
  Type = {t1, t2, t3}
  Handler = {h1, h2}
  Thread = {p, q}
  NoHandler = NoHandler
  NoRequest = NoRequest
  NoThread = NoThread
  capacity = 2
  MaxDepth = 2
SPECIFICATION Spec
INVARIANTS
  TypeOK
  NoHandlerUnderLock
PROPERTY ImplementsBindings
