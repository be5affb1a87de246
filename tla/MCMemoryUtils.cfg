SYMMETRY Interchangeable
SPECIFICATION UtilsSpec
CONSTANTS
  Threads = {t1, t2}
  Nobody = nobody
  Addresses = {a}
  SizeOf <- MCSizeOf
  MaxTracked = 2
  MaxPools = 2
  Memories = {m1, m2, m3}
  Bases = {1}
  AddressSpace = 16
  PoolSize = 4
  Align = 2
  AlignedUp <- MCAlignedUp
  PieceSizes = {1, 13}
  Overlays <- MCOverlays
  Width = 4
  ByteBits = 4
INVARIANTS
  AccountsExact
  OverrunsOnlyOvertaken
  PiecesApart
CHECK_DEADLOCK FALSE
