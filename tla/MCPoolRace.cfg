SYMMETRY Callers
SPECIFICATION DebugfsSpec
CONSTANTS
  Clients = {c1, c2}
  Monitor = mon
  Rmmod = rm
  Reader = reader
  Readers = {reader}
  NoThread = none
  Types = {"general"}
  Regions <- RaceRegions
  DefaultRegion <- RaceDefault
  Requests <- RaceRequests
  Operations = {"create", "destroy"}
  PageSize = 2
  MaxPools = 1
  MinCount = 1
  MaxCount = 3
  MaxStructs = 3
INVARIANTS
  PoolCountBound
  OnlyDestroyStopsReader
CHECK_DEADLOCK FALSE
