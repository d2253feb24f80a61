SPECIFICATION Spec
CONSTANTS
  Bridges <- MCBridges
  Wormhole <- MCWormhole
  MaxMessages = 2
  Timelock = 1
  RelayerTimelock = 2
  Deployer = 3
  Self = 4
  App = 5
  TargetCells = 2
  ValueCells = 2
  LengthCells = 1
  MaxFunding = 1
  MaxCost = 1
  Holders = {alice, bob}
  ChildSupply = 1
CHECK_DEADLOCK FALSE
INVARIANTS
  ExecutedOnce
  ExecutedAsPacked
  ChainOfGovernors
  LockedBacksBridged
PROPERTIES
  MessagesArrive
  WithdrawalsSurvive
