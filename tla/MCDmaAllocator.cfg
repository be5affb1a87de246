SPECIFICATION FairSpec
CONSTANTS
  Clients = {c1, c2}
  Health = health
  Nobody = nobody
  Pages = {1, 2, 3}
  PageSize = 2
  Sizes = {1, 3}
  Powers = {2, 4}
  PoolSize = 6
  MaxBlocks = 3
INVARIANTS
  UsedNeverUnder
  OwnedIsUsed
  AccountsExact
PROPERTIES
  CallsReturn
  
CHECK_DEADLOCK FALSE
