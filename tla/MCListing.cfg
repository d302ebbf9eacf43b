CONSTANTS
  Null = Null
  Paths <- MCPaths
  TempNames = {0}
  Keys <- MCKeys
  FolderNames = {3}
  Stubs <- MCStubs
  Limit = 2
  MaxFolderObjects = 3
  MaxChanges = 2
SPECIFICATION Spec
INVARIANTS
  TypeOK
  ListsEverythingSteady
  ListsOnce
PROPERTY
  ListsOnlyEntries
