SPECIFICATION Spec
CONSTANTS
  Versions = {1, 2, 3}
  First = 1
  Broken = {2}
  None = 0
  Targets <- DeployTargets
  Keep = 2
  Faults = {"aside", "place", "check", "spawn"}
  MaxFaults = 2
  MaxUploads = 2
  MaxCrashes = 1
CHECK_DEADLOCK FALSE
INVARIANTS StaysUp RollbackReady
PROPERTIES NoMixture CancelledStaysOut
