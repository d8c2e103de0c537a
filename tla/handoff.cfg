SPECIFICATION Spec
CONSTANTS
  Keys = {k1}
  Contents = {c1, c2}
  Labels = {l1}
  Annotations = {a1}
  Weights = {w1}
  Profiles = {p1}
  Identities = {i1}
  Workers = {b1}
  DatasetIds = {d1}
  MaxRecords = 2
  NonExistence = NonExistence
  NoRow = NoRow
  NoDataset = NoDataset
  Nothing = Nothing
SYMMETRY Symmetry
INVARIANT RemountConverges
