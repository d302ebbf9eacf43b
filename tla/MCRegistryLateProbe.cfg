CONSTANTS
  c1 = c1
  c2 = c2
  Null = Null
  Slots = {r1, r2}
  Ops = {"create", "update", "test"}
  Configs = {c1, c2}
  KindOf <- MCKindOf
  Honours = {c1}
  Creds = {k1}
  MaxWriters = 2
  MaxTime = 3
  CreateTimes = {0,1,2,3}
  MaxRegs = 1
SPECIFICATION Spec
SYMMETRY SlotSymmetry
INVARIANT CreateOnlyIsProven
