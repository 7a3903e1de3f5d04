SPECIFICATION Spec
CONSTANTS
  Name <- MCName
  Dot = "."
  DotDot = ".."
  NameLen <- MCNameLen
  BLOCK_SIZE = 52
  self = 2
  father = 1
  Child = {p, q, r, s, t}
  EXT2_DIRECT_BLOCKS = 3
INVARIANTS
  TypeOK
  BlocksTiled
  OneEntryEach
  ListingExact
PROPERTY ImplementsDirectory
CHECK_DEADLOCK FALSE
SYMMETRY MCSymmetry
