SPECIFICATION LiveSpec
CONSTANTS
  Tasks = {t1, t2, t3, t4, t5}
  Entries = {e1, e2, e3, e4, e5}
  NoEntry = NoEntry
INVARIANTS TypeOK OneEntry NoLostWakeup
PROPERTIES ImplementsContract InOrder WaitersServed
