SPECIFICATION Spec
CONSTANTS
  plans = plans
  diary = diary
  NoItem = NoItem
  Items = {plans, diary}
  Own = {diary}
  MaxPasswords = 2
  MaxRecovery = 3
  Overlap = {"reseal-item"}
  Faults = {"vault", "save"}
  MaxFaults = 2
INVARIANT NewPasswordOpens
INVARIANT NewRecoveryOpens
INVARIANT OneVault
PROPERTY NeverBack
