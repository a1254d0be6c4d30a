CONSTANTS
  Rates = {50, 60}
  ResetRates = {60}
  Sizes = {"low", "high"}
  BlankSize = "blank"
  OldShots <- Older

SPECIFICATION Spec
INVARIANT TypeOK
INVARIANT PictureRestored
INVARIANT BarRestored
INVARIANT FrontendIsTold
