SPECIFICATION Spec
CONSTANTS
  m1 = m1
  m2 = m2
  m3 = m3
  d1 = d1
  w1 = w1
  w2 = w2
  Msgs = {m1, m2, m3, d1}
  Home <- BothHome
  DeadForm <- OneDies
  Affinity <- BothAffinities
  Sources = {"normal", "dlq"}
  Workers = {w1, w2}
  BatchSize = 2
  Transfer = TRUE
SYMMETRY WorkerSymmetry
INVARIANTS
  NoMessageLost
  StopEndsIntake
  ReportHolds
  NoSilentDuplicate
