SPECIFICATION Spec
CONSTANTS
  full_group_count = 3
  blocks_per_group = 2
  reserved = 1
  inodes_per_group = 3
  s_first_ino = 5
  ROOT_INODE = 2
  EXT2_DIRECT_BLOCKS = 2
INVARIANT IfreeSparesOthers
CHECK_DEADLOCK FALSE
