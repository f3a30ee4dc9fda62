CONSTANTS
  MaxPush = 2
  MaxLoss = 1
  NoSnapshot = NoSnapshot
SPECIFICATION HSpec
INVARIANTS TypeOK StaleIsOwed ReloadEventSeesPush PageIsOwed PostTxEnvIsHit
PROPERTIES NotifyInvalidates ImplementsServed
