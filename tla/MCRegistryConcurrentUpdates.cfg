CONSTANTS
  c1 = c1
  c2 = c2
  Null = Null
  Slots = {r1, r2, r3}
  Ops = {"create", "update", "open"}
  Configs = {c1, c2}
  KindOf <- MCKindOf
  Honours = {c1}
  Creds = {k1}
  MaxWriters = 2
  MaxTime = 2
  CreateTimes = {0,1,2}
  MaxRegs = 1
SPECIFICATION Spec
SYMMETRY SlotSymmetry
INVARIANT OpenServesRecord
