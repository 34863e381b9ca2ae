SPECIFICATION Spec
CONSTANTS
  Folders = {1, 2, 3, 4}
  Files = {11, 12}
  Root = 1
  Names = {"a", "A", "b"}
  Long = {"b"}
  Fold <- MCFold
  Paths <- MCPaths
  Threads = {t1}
  Disks <- MCDisks
  Changes = {"rename", "createDir"}
  Overlap = {"list"}
  Faults = {}
  MaxChanges = 2
  None = None
INVARIANT CachesTrue
CHECK_DEADLOCK FALSE
