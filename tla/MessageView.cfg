SPECIFICATION Spec
CONSTANTS
  a = a
  b = b
  q = q
  r = r
  None = None
  Conns = {a, b}
  Names = {q, r}
  Modes = {"both"}
  Content <- Few
  LastSeq = 2
  Page = 1
  Cap = 3
  MaxSeq = 4
  MaxSwitches = 2
  MaxPeeks = 2
  MaxRuns = 1
INVARIANTS
  ListOfSelection
  NothingPassedOver
  ReturnSeen
PROPERTIES
  RemovedWereDone
CHECK_DEADLOCK FALSE
