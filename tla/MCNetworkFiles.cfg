\* A start that fails half-way, and a file opened after it.
CONSTANTS
  Client = {c1, c2}
  MAX_CONNECTIONS = 1
  MaxFd = 3
  MaxStarts = 1
  MaxFiles = 1
SPECIFICATION Spec
CHECK_DEADLOCK FALSE
INVARIANT FilesStayOpen
