SPECIFICATION FairSpec
CONSTANTS
  plans = plans
  diary = diary
  NoItem = NoItem
  Items = {plans, diary}
  Own = {diary}
  MaxPasswords = 2
  MaxRecovery = 2
  Overlap = {}
  Faults = {"vault", "save"}
  MaxFaults = 2
PROPERTY RecoveryCatchesUp
