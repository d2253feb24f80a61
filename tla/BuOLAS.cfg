SPECIFICATION FairSpec
CONSTANTS
  h1 = h1
  h2 = h2
  m1 = m1
  m2 = m2
  bu = bu
  burner = burner
  zero = zero
  Escrows = {bu}
  BurnerAddress = burner
  BuAddress = bu
  ZeroAddress = zero
  Holders = {h1, h2}
  Managers = {m1}
  BuManagers = {m1}
  Amounts = {3, 5}
  oneYear = 1
  StartTime = 1
  MaxTime = 4
  tenYearSupplyCap = 8
  LastCapYear = 1
  maxMintCapFraction = 13
  MAX_NUM_STEPS = 3
  MAX_UINT32 = 4
  UINT96 = 1000
  RevokeAgain = FALSE
INVARIANTS
  TypeOK
  LocksAreBacked
  GrantsAreHonoured
  SupplyWithinSchedule
PROPERTIES
  LastWithdrawalPaysAll
  VestingEnds
CHECK_DEADLOCK FALSE
