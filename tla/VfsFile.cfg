SPECIFICATION Spec
CONSTANTS
  full_group_count = 2
  blocks_per_group = 5
  reserved = 1
  inodes_per_group = 3
  s_first_ino = 4
  ROOT_INODE = 2
  EXT2_DIRECT_BLOCKS = 2
  BLOCK_SIZE = 2
  TwoTo32 = 16
  JunkWords = 2
  Name = {f, g}
  MaxFd = 3
  Flag = {"r", "w"}
  Seek <- MCSeek
  Count <- MCCount
INVARIANTS
  TypeOK
  EndBlockExists
  BlocksApart
  AbortsHaveCauses
PROPERTIES
  ImplementsFiles
CONSTRAINT BeforeDefects
CHECK_DEADLOCK FALSE
SYMMETRY MCSymmetry
