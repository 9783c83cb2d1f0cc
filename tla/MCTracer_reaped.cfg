SPECIFICATION Spec
CONSTANTS
  m = m
  k1 = k1
  k2 = k2
  Main = m
  NoTid = NoTid
  Kids <- NoKids
  Env <- ExitOnly
  MaxStops = 2
  MaxWrites = 1
INVARIANT ChildNeverReaped
CHECK_DEADLOCK FALSE
