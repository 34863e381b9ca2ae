SPECIFICATION Spec
CONSTANTS
  a = a
  b = b
  c = c
  docs = docs
  Data = {a, b}
  Files = {}
  Grown <- MCGrown
  NoData = NoData
  Names = {docs, docs2}
  Variants <- MCVariants
  NoName = NoName
  MaxOps = 2
  Style = "flkd"
  Faults = {"crash", "write", "save", "delete", "remove"}
  MaxFaults = 2
  Acts = {}
  MaxActs = 0
INVARIANT NoDataLoss
INVARIANT VaultDeletedLast
