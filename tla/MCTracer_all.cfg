SPECIFICATION FairSpec
CONSTANTS
  m = m
  k1 = k1
  k2 = k2
  Main = m
  NoTid = NoTid
  Kids <- TwoKids
  Env <- AllEvents
  MaxStops = 4
  MaxWrites = 1
INVARIANT TypeOK
INVARIANT StopsHeld
INVARIANT NoLostWakeup
PROPERTY AllStopsHandled
PROPERTY CallbackReturns
CHECK_DEADLOCK FALSE
