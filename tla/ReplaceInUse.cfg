SPECIFICATION Spec

CONSTANTS
  D1 = D1
  D2 = D2
  D3 = D3
  D4 = D4
  NoName = NoName
  NoData = NoData
  Junk = Junk
  Name = {D1, D2, D3}
  Format <- AllImages
  Playlists <- Pair
  Additions <- Add3
  OptionSets <- Defaults
  FileSystems = {"ok"}
  ReplaceAny = TRUE
  RestoreUncached = FALSE
  MaxDisks = 3
  MaxWrites = 2
  MaxLoads = 1
  MaxSessions = 1

PROPERTIES
  ReplacedDiskIsEjected
