CONSTANTS
  Null = Null
  Slots = {r1, r2}
  Paths <- MCPaths
  Contents = {"w1", "w2"}
  CreateOnly = {"w2"}
  MaxRequests = 3
SPECIFICATION Spec
SYMMETRY SlotSymmetry
INVARIANTS
  TypeOK
  NoStrayTemp
PROPERTY ImplementsObjectStore
