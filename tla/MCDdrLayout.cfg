SYMMETRY Interchangeable
SPECIFICATION LayoutSpec
CONSTANTS
  Threads = {t1, t2}
  Nobody = nobody
  Objects = {o1, o2, o3}
  AddrSpace <- MCAddrSpace
  Candidates <- MCCandidates
  BlockSizes <- MCBlockSizes
INVARIANTS
  ReadersSafe
  NothingLost
  FoundBlocksApart
PROPERTIES
  LayoutIsRegister
