SPECIFICATION FairSpec
CONSTANTS
  c1 = c1
  Callers <- OneCaller
  Sizes = {1, 2}
  ReplySizes = {0, 1, 2}
  Capacity = 2
  Window = 2
  HostIds = {1}
  MaxId = 3
  Env = {"signal", "other_child"}
INVARIANT TypeOK
 
PROPERTY ImplementsRequestReply
PROPERTY QuietCallsReturn
CHECK_DEADLOCK FALSE
