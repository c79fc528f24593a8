SPECIFICATION ConnectionSpec
CONSTANTS
  Nothing = Nothing
  prod = prod
  k1 = k1
  Labels = {prod, dev}
  Credentials = {k1}
  Kept <- OneConnection
  MaxIds = 3
  MaxAsked = 4
  MaxCalls = 2
INVARIANTS
  ListFollowsStore
PROPERTIES
  ImplementsView
CHECK_DEADLOCK FALSE
