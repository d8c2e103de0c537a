SPECIFICATION LiveSpec
CONSTANTS
  Keys = {k1, k2}
  Contents = {c1}
  Labels = {l1}
  Annotations = {a1}
  Weights = {w1}
  Profiles = {p1}
  Identities = {i1}
  Workers = {b1, b2}
  NonExistence = NonExistence
  Nobody = Nobody
  NoRow = NoRow
INVARIANT AppliedIsExact
PROPERTIES EventuallyConverged UsesDatasetLock
