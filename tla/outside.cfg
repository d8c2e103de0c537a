SPECIFICATION Spec
CONSTANTS
  Runtimes = {r1, r2}
  Tasks = {t1, t2}
  Roots = {d1, d2}
  Users = {u1}
  Tenants = {n1}
  OwnProviders = {p1, p2}
  GivenProviders = {}
  None = None
  ChangesMidOperation = TRUE
INVARIANT StaysLocal
