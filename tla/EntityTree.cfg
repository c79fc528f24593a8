SPECIFICATION FairSpec
CONSTANTS
  a = a
  b = b
  q = q
  t = t
  s = s
  None = None
  Conns = {a, b}
  Queues = {q}
  Topics = {t}
  Subs = {s}
  TopicOf <- OneTopic
  Content <- TwoNamespaces
  MaxSwitches = 2
  MaxActions = 2
INVARIANTS
  TreeOfConnection
  PollingGoesOn
  StaleIsMarked
PROPERTIES
  LatestWins
  LoadingEnds
CHECK_DEADLOCK FALSE
