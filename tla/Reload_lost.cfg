CONSTANTS
  MaxPush = 2
  MaxLoss = 1
  NoSnapshot = NoSnapshot
SPECIFICATION FairSpec
PROPERTY EventuallyConsistent
