SPECIFICATION Spec
CONSTANTS
  a = a
  b = b
  c = c
  docs = docs
  Data = {a, b, c}
  Files = {b}
  Grown <- MCGrown
  NoData = NoData
  Names = {docs, docs2}
  Variants <- MCVariants
  NoName = NoName
  MaxOps = 2
  Style = "flk"
  Faults = {"crash", "rename", "write", "save", "delete", "remove"}
  MaxFaults = 2
  Acts = {"item", "vault", "moveItem", "moveVault", "edit"}
  MaxActs = 2
INVARIANT TypeOK
INVARIANT NoStrayPlaintext
