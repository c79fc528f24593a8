SPECIFICATION FairSpec
CONSTANTS
  a1 = a1
  b1 = b1
  o1 = o1
  k1 = k1
  m1 = m1
  None = None
  Runs = {a1, b1}
  Scope <- AtomicAndBulk
  Conn <- OneConnection
  Message <- BulkHasNone
  Others = {o1}
  OtherKind <- CreateKinds
  MaxLog = 2
  MaxStops = 1
  MaxRestarts = 1
  MaxFailures = 1
INVARIANTS
  LockHolds
  HonestLog
PROPERTIES
  UnknownBlocks
  EitherMessageEndsRun
