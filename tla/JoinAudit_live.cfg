SPECIFICATION FairSpec
CONSTANTS
  r1 = r1
  r2 = r2
  g1 = g1
  g2 = g2
  d1 = d1
  d2 = d2
  s1 = s1
  Requests = {r1}
  Groups = {g1}
  GroupOf <- OneGroup
  Configs <- MCConfigs
  AnswerOf <- MCAnswerOf
  Deciders = {d1}
  Syncers = {s1}
  PendingTtl = 0
  ReconcileMinAge = 2
  RetentionAge = 9
  ListLag = 1
  ListCap = 1
  MaxTime = 3
  MaxCrashes = 1
  MaxFailures = 0
  MaxQueue = 2
PROPERTY ListCatchesUp
PROPERTY LiveRequestsStay
