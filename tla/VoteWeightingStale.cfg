SPECIFICATION Spec
CONSTANTS
  o1 = o1
  o2 = o2
  a = a
  b = b
  c = c
  v1 = v1
  v2 = v2
  zero = zero
  Voters = {v1}
  Owners = {o1}
  Targets = {a}
  ZeroAccount = zero
  ChainIds = {1}
  MAX_EVM_CHAIN_ID = 1
  WEEK = 2
  MAXTIME = 3
  Amounts = {3}
  MaxAmount = 3
  StartTime = 4
  MaxTime = 11
  WEIGHT_VOTE_DELAY = 3
  MAX_NUM_WEEKS = 2
  MAX_WEIGHT = 1
  WeekHorizon = 8
SYMMETRY VoteSymmetry
PROPERTIES
  OneVoteIsEnough
CHECK_DEADLOCK FALSE
