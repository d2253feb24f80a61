SPECIFICATION Spec
CONSTANTS
  v1 = v1
  v2 = v2
  Voters = {v1, v2}
  WEEK = 2
  MAXTIME = 5
  Amounts = {5}
  MaxAmount = 10
  StartTime = 3
  MaxTime = 8
  BlockTimes = {1}
  StartBlock = 1
  MAX_STEPS = 12
  MaxPoints = 5
SYMMETRY VoterSymmetry
PROPERTIES
  PastVotesAreFinal
CHECK_DEADLOCK FALSE
