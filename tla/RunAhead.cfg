SPECIFICATION RASpec

CONSTANTS
  Fps = 2
  CrashTime = 1
  Held = {}
  MaxRestores = 1
  Ahead = 2

PROPERTIES
  HaltRecoversAhead
