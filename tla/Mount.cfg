SPECIFICATION Spec
CONSTANTS
  full_group_count = 2
  blocks_per_group = 3
  reserved = 1
  inodes_per_group = 3
  s_first_ino = 4
  ROOT_INODE = 2
  EXT2_DIRECT_BLOCKS = 12
  ForeignBits <- MCForeignBits
  MaxCrashes = 2
INVARIANTS
  TypeOK
  MetadataProtected
  FormattedForGood
  HalfOnlyAfterCrash
PROPERTIES
  MountEnds
CHECK_DEADLOCK FALSE
