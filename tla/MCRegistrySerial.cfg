CONSTANTS
  c1 = c1
  c2 = c2
  Null = Null
  Slots = {r1, r2}
  Ops = {"create", "update", "delete", "open", "test"}
  Configs = {c1, c2}
  KindOf <- MCKindOf
  Honours = {c1}
  Creds = {k1, k2}
  MaxWriters = 1
  MaxTime = 2
  CreateTimes = {1}
  MaxRegs = 2
SPECIFICATION Spec
SYMMETRY SlotCredsSymmetry
INVARIANTS
  TypeOK
  OpenServesRecord
  CacheCredsCurrent
  StoresAgree
  CreateOnlyIsProven
PROPERTIES EditsAdvanceUpdatedAt LeftoverSecretWindow
