SYMMETRY Interchangeable
SPECIFICATION SystemSpec
CONSTANTS
  Direct = {u1, u2}
  Programs = {p1}
  Users = {u1, u2, p1}
  Nobody = nobody
  Addresses = {300, 1024, 1026}
  Sizes = {2, 4}
  TotalMemory = 2048
  Values = {1, 2}
  Configs <- MCConfigs
  DefaultTiming = 1
  Unlisted = {}
INVARIANTS
  AccountsExact
  FrequencyBelieved
  QuietAfterExit
  DeviceOnlyBehindLock
CHECK_DEADLOCK FALSE
