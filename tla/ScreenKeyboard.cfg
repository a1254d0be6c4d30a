SPECIFICATION Spec

CONSTANTS
  PressLen = 2
  RepeatDelay = 2
  RepeatRate = 1
  Held <- Hands
  Modifiers = {"ALT"}

INVARIANTS
  TypeOK
  CursorOnKey
  UpReturns
  EveryKeyReachable
  NoPressOnOpening
  KeysComeUp

PROPERTIES
  HeldKeyStays
