SPECIFICATION ShellSpec
CONSTANTS
  full_group_count = 2
  blocks_per_group = 3
  reserved = 1
  inodes_per_group = 4
  s_first_ino = 6
  ROOT_INODE = 2
  EXT2_DIRECT_BLOCKS = 2
  Name = {"a", "b"}
  Dot = "."
  DotDot = ".."
  NameLen <- MCNameLen
  BLOCK_SIZE = 36
  Path <- MCPath
  NewPath <- MCNewPath
  Session = {s1}
  Slash = "/"
  NoDir = NoDir
  Arg <- MCArg
PROPERTIES
  CdOnlyLooks
  CdGoesThere
CONSTRAINT NoDefects
CHECK_DEADLOCK FALSE
