SPECIFICATION LiveSpec
CONSTANTS
  Keys = {k1}
  Contents = {c1}
  Labels = {l1}
  Annotations = {a1}
  Weights = {w1}
  Profiles = {p1}
  Identities = {i1}
  Workers = {b1}
  DatasetIds = {d1}
  MaxRecords = 2
  NonExistence = NonExistence
  NoRow = NoRow
  NoDataset = NoDataset
  Nothing = Nothing
INVARIANTS TypeOK TeardownSparesUser RowsKeepTheirDataset FixedPointIsConverged
PROPERTIES BatchReturnsDone SharesDatasetLock EventuallySettled
