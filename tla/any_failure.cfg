SPECIFICATION FairSpec
CONSTANTS
  a = a
  b = b
  c = c
  docs = docs
  Data = {a, b}
  Files = {b}
  Grown <- MCGrown
  NoData = NoData
  Names = {docs, docs2, docs3, docs4}
  Variants <- MCVariants
  NoName = NoName
  MaxOps = 3
  Style = "flk"
  Faults = {"crash", "rename", "write", "save", "delete", "remove"}
  MaxFaults = 2
  Acts = {}
  MaxActs = 0
INVARIANT NoDataLoss
PROPERTY FailedLockHarmless
PROPERTY EntriesResolved
