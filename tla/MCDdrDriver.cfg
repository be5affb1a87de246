SPECIFICATION FairSpec
CONSTANTS
  Users = {u1, u2}
  Nobody = nobody
  Addresses = {a1, a2}
  Sizes = {2}
  TotalMemory = 3
INVARIANTS
  NothingLost
  AccountsExact
  QuietAfterRemove
PROPERTIES
  OperationsReturn
  RemoveEnds
CHECK_DEADLOCK FALSE
