CONSTANTS
  Null = Null
  Keys <- MCKeys
  Placeholders <- MCPlaceholders
  Folders <- MCFolders
  Under <- MCUnder
  Dest <- MCDest
  Inside <- MCInside
  Movers = {m1}
  MaxFolderObjects = 2
  MaxRequests = 2
  ClientWrites = {w1}
  ClientDeletes = TRUE
SPECIFICATION Spec
INVARIANTS
  TypeOK
  NothingLost
  SourceUntouched
  MovedIsMoved
PROPERTY NoClobber
