SPECIFICATION Spec
CONSTANTS
  Puns = {p1}
  NApps = 2
  NWorkers = 2
  Actors = {super}
  Level <- MCLevel
  Mods <- MCMods
  Configs <- MCConfigs
  Matches <- MCMatches
  MaxStarts = 4
  MaxRestarts = 1
CHECK_DEADLOCK FALSE
INVARIANTS OnePending 
PROPERTIES OutcomeStands DutyReachesLast
