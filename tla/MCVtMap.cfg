CONSTANTS
  k1 = k1
  k2 = k2
  k3 = k3
  NoValue = NoValue
  Keys = {k1, k2, k3}
  Values = {v1, v2}
  Hash <- MCHash
SYMMETRY MCSymmetry
SPECIFICATION Spec
INVARIANTS SearchEnds EntriesFound LenExact
PROPERTY RefinesOrderedMap
