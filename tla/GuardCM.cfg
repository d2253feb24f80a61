SPECIFICATION FairSpec
CONSTANTS
  t1 = t1
  t2 = t2
  v1 = v1
  v2 = v2
  p = p
  q = q
  c = c
  zero = zero
  Timelocks = {t1, t2}
  Operations = {p, q, c}
  InitialMinDelay = 1
  StartTime = 2
  MaxTime = 7
  Proposals = {p, q}
  Voters = {v1, v2}
  VoteTypes = {"For", "Against"}
  ZeroAddress = zero
  Power <- MCPower
  LockEnd <- MCLockEnd
  votingDelay = 0
  votingPeriod = 1
  proposalThreshold = 1
  quorumNumerator = 50
  InitialTimelock = t1
  InitialGovernorDelay = 2
  CallMaps <- MCCallMaps
  CmOperations <- MCCmOperations
  Delays = {1}
  InitialAllowed = {"updateDelay", "payload"}
  CheckProposal = q
  InactivePeriod = 2
INVARIANTS
  TypeOK
  ExecutedOnceIfApproved
  StateIsTrue
  NothingLeftPending
  CmIsGuarded
PROPERTIES
  DelayIsKept
  ApprovedIsServed
CHECK_DEADLOCK FALSE
