SPECIFICATION FairSpec
CONSTANTS
  t1 = t1
  t2 = t2
  Threads <- MCTwoThreads
  HostFDs = {3, 4}
  Errnos = {9}
  FirstVirtualFD = 4096
  Seeks = {0}
  MaxFiles = 3
  MaxRead = 0
  MaxOffset = 1
VIEW WithoutReply
CHECK_DEADLOCK FALSE
INVARIANTS TypeOK NoHostLeak
PROPERTIES NumbersNeverReused StackUnwinds
