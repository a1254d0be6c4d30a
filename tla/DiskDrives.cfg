SPECIFICATION Spec

CONSTANTS
  D1 = D1
  D2 = D2
  D3 = D3
  D4 = D4
  NoName = NoName
  NoData = NoData
  Junk = Junk
  Name = {D1, D2, D3, D4}
  Format <- WithBad
  Playlists <- AnyBoot
  Additions <- Add3
  OptionSets <- AnyOptions
  FileSystems = {"ok"}
  ReplaceAny = FALSE
  RestoreUncached = TRUE
  MaxDisks = 3
  MaxWrites = 1
  MaxLoads = 1
  MaxSessions = 1

INVARIANTS
  TypeOK
  InsertionAgreed
  DriveHoldsIndexedDisk
  DisksNeverMix

PROPERTIES
  BootDirectivesObeyed
