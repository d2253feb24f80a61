SPECIFICATION Spec
CONSTANTS
  Deployer = Deployer
  DEAD = DEAD
  NoAddress = NoAddress
  treasuryAddress = treasuryAddress
  SupplyCap = 20
  timelockSupply = 2
  saleSupply = 4
  valorySupply = 5
  initSupply = 11
  MaxFailures = 1
  Patient = TRUE
CHECK_DEADLOCK FALSE
INVARIANT
  InitialSupplyMintedOnce
