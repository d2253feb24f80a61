SPECIFICATION Spec
CONSTANTS
  o1 = o1
  o2 = o2
  a = a
  b = b
  c = c
  v1 = v1
  v2 = v2
  zero = zero
  Voters = {v1, v2}
  Owners = {o1}
  Targets = {a}
  ZeroAccount = zero
  ChainIds = {1}
  MAX_EVM_CHAIN_ID = 1
  WEEK = 2
  MAXTIME = 5
  Amounts = {5}
  MaxAmount = 5
  StartTime = 3
  MaxTime = 8
  WEIGHT_VOTE_DELAY = 3
  MAX_NUM_WEEKS = 4
  MAX_WEIGHT = 1
  WeekHorizon = 8
SYMMETRY VoteSymmetry
INVARIANTS
  WeightIsVotes
  VoteNeverUnderflows
CHECK_DEADLOCK FALSE
