SPECIFICATION BridgeFairSpec
CONSTANTS
  t1 = t1
  u1 = u1
  u2 = u2
  Calls = {t1, u1, u2}
  Timed = {t1}
  MaxWorkers = 3
  Nobody = Nobody
INVARIANTS
  OneProcess
PROPERTIES
  NoCallHangs
