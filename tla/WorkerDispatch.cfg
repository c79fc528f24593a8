SPECIFICATION WorkerSpec
CONSTANTS
  r1 = r1
  r2 = r2
  r3 = r3
  c1 = c1
  i1 = i1
  i2 = i2
  NoRun = NoRun
  Runs = {r1, r2, r3}
  Plain = {p1}
  Cancels = {c1}
  RunId <- Ids
  Target <- OneTarget
  Structured = {r1, r2}
  Scans = {r1, r2}
  Slots = 2
INVARIANTS
  AnsweredOnce
  StopIsReported
PROPERTIES
  FailedCancelMeansOver
  NobodyStuck
