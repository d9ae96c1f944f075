SPECIFICATION Spec
CONSTANTS
  w1 = w1  w2 = w2  id1 = id1  id2 = id2
  k1 = k1  k2 = k2  i1 = i1  i2 = i2
  Kind = "screening"
  Workers = {w1, w2}
  Ids = {id1, id2}
  Keys = {k1, k2}
  Inputs = {i1, i2}
  Outcomes = {"SUCCESS"}
  KeyOf <- MCKeyOf2
  NoRun = NoRun
SYMMETRY Symmetry
INVARIANT
  InputsMatch
