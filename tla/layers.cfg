CONSTANTS
  Procs = {p1, p2}
  Ids = {c1, c2, c3}
  v = v
  d0 = d0
  d1 = d1
  d2 = d2
  Values = {v}
  Digest <- Hash
  MaxChain = 3
  Torn = Torn
  None = None
SYMMETRY Symmetry
SPECIFICATION Spec
INVARIANTS CheckpointResolves FailsOnlyInRace FailedImportHarmless
PROPERTIES StoreOnlyGrows
CHECK_DEADLOCK FALSE
