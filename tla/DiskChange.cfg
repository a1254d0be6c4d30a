SPECIFICATION Spec

CONSTANTS
  D1 = D1
  D2 = D2
  Disk = {D1, D2}
  NoDisk = NoDisk
  Unsure = Unsure
  Delay = 5
  Period = 4
  MaxVBL = 16

SYMMETRY Disks

INVARIANTS
  EveryChangeIsNoticed
  ProtectionEnds
