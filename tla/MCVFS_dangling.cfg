SPECIFICATION Spec
CONSTANTS
  t1 = t1
  t2 = t2
  Threads <- MCTwoThreads
  HostFDs = {3, 4}
  Errnos = {9}
  FirstVirtualFD = 4096
  Seeks = {1}
  MaxFiles = 3
  MaxRead = 1
  MaxOffset = 1
SYMMETRY ThreadSymmetry
CHECK_DEADLOCK FALSE
INVARIANT NoDanglingFile
