SPECIFICATION Spec
CONSTANTS
  w1 = w1  w2 = w2  w3 = w3  k1 = k1  k2 = k2  a = a  b = b
  Workers = {w1, w2, w3}
  Keys = {k1, k2}
  Contents = {a, b}
  Stamps = {1, 2, 3, 4}
  NoRow = NoRow
  Batches <- MCBatches
  MaxRevision = 5
INVARIANTS
  TypeOK
  RevisionNames
PROPERTY
  VersionedSpec
