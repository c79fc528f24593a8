SPECIFICATION Spec
CONSTANTS
  None = None
  q = q
  r = r
  Queues = {q, r}
  Subscriptions = {s}
  Requires <- Sessions
  RuleNames = {default, x}
  Default = default
  FirstRules = {default, x}
  MaxIds = 2
  MaxRequests = 4
INVARIANTS
  SessionNamed
  PropertiesOfSelection
  RulesOfSelection
  DraftOfRule
CHECK_DEADLOCK FALSE
