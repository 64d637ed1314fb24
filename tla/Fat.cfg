CONSTANTS
  ClusterCount = 5
  ClusterSize = 3
  RootCapacity = 3
  FatCount = 2
  FatSectors = 2
  Labels <- MCLabels
  FilePaths <- MCFilePaths
  DirPaths <- MCDirPaths
  Sizes = {3, 7}
  MissingParents = FALSE
  AfterKill = FALSE
  MaxCommands = 4
  MaxKills = 1
  Stage2Room = 6
  KernelRoom = 12
  SegmentSize = 6
  RETRY_COUNT = 2
SPECIFICATION BootSpec
INVARIANTS FilesIntact SpaceAccounted BootRunsWhatWasAdded
CHECK_DEADLOCK FALSE
