SPECIFICATION FairSpec
CONSTANTS
  Users = {u1}
  Nobody = nobody
  Addresses = {a1, a2}
  Sizes = {2}
  TotalMemory = 3
PROPERTY EveryIoctlReturns
CHECK_DEADLOCK FALSE
