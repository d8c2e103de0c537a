SPECIFICATION LiveSpec
CONSTANTS
  Tasks = {t1, t2}
  Sessions = {s1, s2, s3}
  NoSession = NoSession
  SessionsMayDrop = TRUE
INVARIANTS TypeOK HeldThroughout
PROPERTIES ImplementsContract NothingStranded
