SPECIFICATION Spec
CONSTANTS
  o1 = o1
  o2 = o2
  a = a
  b = b
  c = c
  v1 = v1
  v2 = v2
  zero = zero
  Voters = {v1}
  Owners = {o1, o2}
  Targets = {a}
  ZeroAccount = zero
  ChainIds = {0, 1, 2}
  MAX_EVM_CHAIN_ID = 1
  WEEK = 2
  MAXTIME = 5
  Amounts = {5}
  MaxAmount = 10
  StartTime = 4
  MaxTime = 8
  WEIGHT_VOTE_DELAY = 3
  MAX_NUM_WEEKS = 4
  MAX_WEIGHT = 2
  WeekHorizon = 8
SYMMETRY OwnerSymmetry
INVARIANTS
  TypeOK
  RegistryConsistent
  PowerIsVotes
  SumIsVotes
  RelativeWeightsAtMostOne
  VotesBackedByLock
PROPERTIES
  RemovalIsFinal
  HistoryIsFinal
CHECK_DEADLOCK FALSE
