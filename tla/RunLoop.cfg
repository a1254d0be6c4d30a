SPECIFICATION Spec

CONSTANTS
  Fps = 2
  CrashTime = 1
  Held <- Hands
  MaxRestores = 1

INVARIANTS
  TypeOK
  PausedAsShown

PROPERTIES
  HaltNeedsColdReset
  HaltIsTimed
  HaltRecovers
