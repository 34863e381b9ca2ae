SPECIFICATION Spec
CONSTANTS
  Folders = {1, 2, 3, 4}
  Files = {11, 12}
  Root = 1
  Names = {"a", "A", "b"}
  Long = {"b"}
  Fold <- MCFold
  Paths <- MCPaths
  Threads = {t1}
  Disks <- MCDisks
  Changes = {"createFile", "createDir", "remove", "rename"}
  Overlap = {}
  Faults = {"crash", "unlink"}
  MaxChanges = 2
  None = None
INVARIANT OneFile
INVARIANT CachesTrue
INVARIANT PathTrue
PROPERTY DriveSpec
CHECK_DEADLOCK FALSE
