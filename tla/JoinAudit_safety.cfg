SPECIFICATION Spec
CONSTANTS
  r1 = r1
  r2 = r2
  g1 = g1
  g2 = g2
  d1 = d1
  d2 = d2
  s1 = s1
  Requests = {r1}
  Groups = {g1}
  GroupOf <- OneGroup
  Configs <- MCConfigs
  AnswerOf <- MCAnswerOf
  Deciders = {d1, d2}
  Syncers = {s1}
  PendingTtl = 1
  ReconcileMinAge = 1
  RetentionAge = 2
  ListLag = 0
  ListCap = 1
  MaxTime = 3
  MaxCrashes = 1
  MaxFailures = 1
  MaxQueue = 3

INVARIANTS DecisionsAreReal WriteThrough DecidedOnce
PROPERTIES ImplementsJoinDecision
