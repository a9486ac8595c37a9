\* Starts that may fail half-way, room for both clients, another user of
\* descriptors; the behaviours followed are those in which no stop has yet
\* closed a file of that other user (network_files follows one that does).
CONSTANTS
  Client = {c1, c2}
  MAX_CONNECTIONS = 2
  MaxFd = 4
  MaxStarts = 2
  MaxFiles = 1
SPECIFICATION FairSpec
CONSTRAINT FilesStayOpen
\* Nothing moves once the poller waits for itself, the process has aborted or
\* the context is destroyed.
CHECK_DEADLOCK FALSE
INVARIANTS
  TypeOK
  SlotsHoldOwnSockets
  NoSocketLeaked
PROPERTIES
  
  PollEnds
