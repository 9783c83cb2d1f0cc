SPECIFICATION FairSpec
CONSTANTS
  m = m
  k1 = k1
  k2 = k2
  Main = m
  NoTid = NoTid
  Kids <- NoKids
  Env <- ProgramOnly
  MaxStops = 8
  MaxWrites = 1
INVARIANT ExitReported
INVARIANT RegistersReachable
INVARIANT ScratchFound
PROPERTY ImplementsTracedProgram
CHECK_DEADLOCK FALSE
