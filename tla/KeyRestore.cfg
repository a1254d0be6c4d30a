SPECIFICATION Spec

CONSTANTS
  LCtrl = LCtrl
  RCtrl = RCtrl
  Ctrl = Ctrl
  NoCode = NoCode
  Key = {LCtrl, RCtrl}
  Code = {Ctrl}
  Scan <- OneCode
  QueueSize = 2

SYMMETRY Ctrls

PROPERTIES
  QueueNotNeeded
