SPECIFICATION FairSpec
CONSTANTS
  t1 = t1
  t2 = t2
  Threads <- MCOneThread
  HostFDs = {3, 4}
  Errnos = {9}
  FirstVirtualFD = 4096
  Seeks <- MCSeeks
  MaxFiles = 3
  MaxRead = 2
  MaxOffset = 2

CHECK_DEADLOCK FALSE
INVARIANTS ExactOwnership NoDanglingFile
PROPERTIES  CallsAnswered
