SPECIFICATION Spec
CONSTANTS
  Deployer = Deployer
  DEAD = DEAD
  NoAddress = NoAddress
  treasuryAddress = treasuryAddress
  SupplyCap = 20
  timelockSupply = 2
  saleSupply = 4
  valorySupply = 5
  initSupply = 11
  MaxFailures = 2
  Patient = FALSE
CHECK_DEADLOCK FALSE
INVARIANTS
  TimelockStaysGovernable
  DeployerGivesUpEverything
  AuditFindsWhatIsMissing
PROPERTY
  CeremonyCompletes
