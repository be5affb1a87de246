SPECIFICATION FairSpec
CONSTANTS
  Clients = {c1, c2}
  Monitor = mon
  Rmmod = rm
  Readers = {}
  NoThread = none
  Types = {"general"}
  Regions <- LiveRegions
  DefaultRegion <- MCDefault
  Requests <- LiveRequests
  Operations = {"alloc", "free", "walk", "create", "destroy", "monitor"}
  PageSize = 2
  MaxPools = 1
  MinCount = 1
  MaxCount = 3
  MaxStructs = 2
PROPERTIES
  CallsReturn
  ExitEnds
CHECK_DEADLOCK FALSE
