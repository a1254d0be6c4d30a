SPECIFICATION Spec

CONSTANTS
  D1 = D1
  D2 = D2
  D3 = D3
  D4 = D4
  NoName = NoName
  NoData = NoData
  Junk = Junk
  Name = {D1, D2}
  Format <- AllImages
  Playlists <- PairOrOne
  Additions <- Add2
  OptionSets <- Protection
  FileSystems = {"ok"}
  ReplaceAny = FALSE
  RestoreUncached = FALSE
  MaxDisks = 2
  MaxWrites = 2
  MaxLoads = 1
  MaxSessions = 2

PROPERTIES
  DisksAreRegisters

INVARIANTS
  UnchangedDiskIsCached
  NoDiskInBothDrives
