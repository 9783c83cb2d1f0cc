SPECIFICATION FairSpec
CONSTANTS
  c1 = c1
  Callers <- OneCaller
  Sizes = {1}
  ReplySizes = {1}
  Capacity = 2
  Window = 1
  HostIds = {0}
  MaxId = 1
  Env = {"signal"}
PROPERTY CallsReturn
CHECK_DEADLOCK FALSE
