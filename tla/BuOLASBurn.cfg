SPECIFICATION FairSpec
CONSTANTS
  h1 = h1
  h2 = h2
  m1 = m1
  m2 = m2
  bu = bu
  burner = burner
  zero = zero
  Escrows = {bu}
  BurnerAddress = burner
  BuAddress = bu
  ZeroAddress = zero
  Holders = {h1}
  Managers = {m1}
  BuManagers = {m1, m2}
  Amounts = {3, 5}
  oneYear = 1
  StartTime = 1
  MaxTime = 6
  tenYearSupplyCap = 8
  LastCapYear = 9
  maxMintCapFraction = 2
  MAX_NUM_STEPS = 3
  MAX_UINT32 = 6
  UINT96 = 1000
  RevokeAgain = FALSE
PROPERTIES
  RevokedAreBurned
CHECK_DEADLOCK FALSE
