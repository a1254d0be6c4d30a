CONSTANTS
  Rates = {50}
  ResetRates = {50}
  Sizes = {"low"}
  BlankSize = "blank"
  OldShots <- Older

SPECIFICATION Spec
PROPERTY ReloadedPauseShown
