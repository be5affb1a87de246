SYMMETRY Callers
SPECIFICATION Spec
CONSTANTS
  Clients = {c1, c2}
  Monitor = mon
  Rmmod = rm
  Readers = {}
  NoThread = none
  Types = {"general", "dma"}
  Regions <- MCRegions
  DefaultRegion <- MCDefault
  Requests <- MCRequests
  Operations = {"alloc", "free", "walk", "create", "destroy", "monitor"}
  PageSize = 2
  MaxPools = 2
  MinCount = 1
  MaxCount = 3
  MaxStructs = 2
INVARIANT DestroyRefusesActive
CHECK_DEADLOCK FALSE
