CONSTANTS
  a = a
  b = b
  l = l
  Root = Root
  Paths = {"d", "d/f", "d/f/g"}
  Parent <- ThreeLevels
  Sorted <- ThreeSorted
  Values = {a, b, l}
  DirLinks = {l}
  Reached = {"d/f/g"}
  MayHold <- FilesAndLinks
  MaxLayers = 3
  MaxMarked = 1
  MaxTime = 1
  MaxResets = 1
  Error = Error
  None = None
SPECIFICATION Spec
INVARIANTS DiffComplete KindsRight TarReplays ExportRight EffectsComplete
CHECK_DEADLOCK FALSE
