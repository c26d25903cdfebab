CONSTANTS
  Plans <- AllPlans
  Faults = {"crash", "kill"}
  None = None
SPECIFICATION Spec
INVARIANTS SetupMapped RecordedIsInit NoneLeft
PROPERTIES SpawnReturns NoChildWaits
CHECK_DEADLOCK FALSE
