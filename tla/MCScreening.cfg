SPECIFICATION FairSpec
CONSTANTS
  w1 = w1  w2 = w2  run = run  a = a  b = b
  Workers = {w1, w2}
  Ids = {run}
  Codes = {a, b}
  BadItem = BadItem
  Lists <- MCLists
INVARIANTS
  TypeOK
  AckedTruth
  NoWaitCycle
PROPERTIES
  PublishWhole
  LifecycleSpec
  CompleteEnds
