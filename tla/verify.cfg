SPECIFICATION Spec
CONSTANTS
  Keys = {k1, k2}
  Labels = {l1, l2}
  Generations = {n1, n2}
  NoDataset = NoDataset
  NoRow = NoRow
  Nobody = Nobody
SYMMETRY Symmetry
INVARIANTS TypeOK ReportIsExact
PROPERTY SharesDatasetLock
