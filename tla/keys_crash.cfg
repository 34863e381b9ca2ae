SPECIFICATION Spec
CONSTANTS
  plans = plans
  diary = diary
  NoItem = NoItem
  Items = {plans, diary}
  Own = {diary}
  MaxPasswords = 2
  MaxRecovery = 2
  Overlap = {"reseal-item", "change-item", "activate-item"}
  Faults = {"crash", "save"}
  MaxFaults = 2
INVARIANT TypeOK
INVARIANT KeystoreAgrees
INVARIANT SavedFirst
