SPECIFICATION FairSpec
CONSTANTS
  s1 = s1
  s2 = s2
  Sandboxes <- MCSandboxes
  MaxNumber = 15
  MaxSpawns = 2
  MaxRequests = 2
VIEW WhileUp
CHECK_DEADLOCK FALSE
INVARIANTS TypeOK DescriptorsOwned RepliesHome
PROPERTIES SpawnReturns RequestsServed
