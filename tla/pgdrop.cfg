SPECIFICATION Spec
CONSTANTS
  Tasks = {t1, t2}
  Sessions = {s1, s2}
  NoSession = NoSession
  SessionsMayDrop = TRUE
SYMMETRY Symmetry
INVARIANT OneInside
