SPECIFICATION Spec
CONSTANTS
  Names = {a, b}
  NoName = NoName
  INODES = 3
  BLOCKS = 4
  DIRECT_BLOCKS = 1
  INDIRECT_POINTERS = 1
  CELLS = 2
  SLOTS = 2
  FIRST_SECTOR = 1
  Lengths = {0, 1, 3}
  MAX_CREATED = 3
  MAX_CUTS = 0
INVARIANT VolumeChecksOut
SYMMETRY SameNames
VIEW Disk
CHECK_DEADLOCK FALSE
