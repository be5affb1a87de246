SYMMETRY Interchangeable
SPECIFICATION UbootSpec
CONSTANTS
  PartNames = {kernel, npu, user, gpu}
  Partitions <- MCPartitions
  MaxPartitions = 3
  SizeWrap = 3
  Values = {v1, v2}
  CallerTimings <- MCTimings
  NoTiming <- MCNoTiming
  Pack <- MCPack
INVARIANTS
  NamesUnique
  IdsFollowPositions
  IssuedIdsPresent
  BelievedSettings
PROPERTIES
  LookupsChangeOnlyByRemoval
