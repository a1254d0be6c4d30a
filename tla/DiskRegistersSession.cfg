SPECIFICATION Spec

CONSTANTS
  D1 = D1
  D2 = D2
  D3 = D3
  D4 = D4
  NoName = NoName
  NoData = NoData
  Junk = Junk
  Name = {D1, D2, D3}
  Format <- WithStx
  Playlists <- PairOrStx
  Additions <- NoAddition
  OptionSets <- Saving
  FileSystems = {"ok", "denied", "full"}
  ReplaceAny = FALSE
  RestoreUncached = FALSE
  MaxDisks = 2
  MaxWrites = 1
  MaxLoads = 1
  MaxSessions = 1

PROPERTIES
  ImagesAreRegisters

INVARIANTS
  UnchangedDiskIsCached
