SPECIFICATION Spec
CONSTANTS
  Runtimes = {r1, r2}
  Tasks = {t1, t2}
  Roots = {d1, d2}
  Users = {u1, u2}
  Tenants = {n1, n2}
  OwnProviders = {p1, p2}
  GivenProviders = {}
  None = None
  ChangesMidOperation = FALSE
SYMMETRY Symmetry
INVARIANTS TypeOK ActsForHandle LandsInOwnStorage
PROPERTIES MutationDetected OneLockPerScope
