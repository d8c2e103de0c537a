SPECIFICATION Spec
CONSTANTS
  Keys = {k1}
  Contents = {c1, c2}
  Labels = {l1, l2}
  Annotations = {a1}
  Weights = {w1, w2}
  Profiles = {p1, p2}
  Identities = {i1, i2}
  Workers = {b1}
  NonExistence = NonExistence
  Nobody = Nobody
  NoRow = NoRow
SYMMETRY Symmetry
CONSTRAINT FewPossibleStates
INVARIANTS CommittedIsExact MetadataUpdateKeepsDerivatives RowsAreTracked FixedPointIsConverged IInv
