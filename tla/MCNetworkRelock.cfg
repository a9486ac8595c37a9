\* A client that hangs up.
CONSTANTS
  Client = {c1, c2}
  MAX_CONNECTIONS = 1
  MaxFd = 3
  MaxStarts = 1
  MaxFiles = 0
SPECIFICATION Spec
CHECK_DEADLOCK FALSE
INVARIANT NeverWaitsForItself
