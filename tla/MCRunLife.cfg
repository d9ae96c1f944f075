SPECIFICATION Spec
CONSTANTS
  w1 = w1  w2 = w2  id1 = id1  id2 = id2
  k1 = k1  k2 = k2  i1 = i1  i2 = i2
  Kind = "sync"
  Workers = {w1, w2}
  Ids = {id1, id2}
  Keys = {k1}
  Inputs = {i1}
  Outcomes = {"SUCCESS", "FAILED", "BLOCKED"}
  KeyOf <- MCKeyOf1
  NoRun = NoRun
SYMMETRY Symmetry
INVARIANTS
  TypeOK
  StartedOnce
  AckedTruth
  AttemptsExact
PROPERTIES
  RefusalNotOlder
  LifecycleSpec
