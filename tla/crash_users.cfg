SPECIFICATION FairSpec
CONSTANTS
  a = a
  b = b
  c = c
  docs = docs
  Data = {a, b}
  Files = {b}
  Grown <- MCGrown
  NoData = NoData
  Names = {docs, docs2, docs3}
  Variants <- MCVariants
  NoName = NoName
  MaxOps = 2
  Style = "flk"
  Faults = {"crash", "write", "save"}
  MaxFaults = 2
  Acts = {"item", "moveItem"}
  MaxActs = 2
INVARIANT NoDataLoss
INVARIANT OriginalDeletedLast
INVARIANT VaultDeletedLast
INVARIANT Tidy
PROPERTY LifeSteps
PROPERTY EntriesResolved
PROPERTY LifeSpec
