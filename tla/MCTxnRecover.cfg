CONSTANTS
  MaxRetries = 1
  MaxCoins = 1
  HopperStock = 2
  Prices = {100}
  Deposits = {110, 150}
  MaxQuarters = 1
  MaxTxns = 1
  MaxCrashes = 2
  Storage = {"torn"}
SPECIFICATION FairSpec
PROPERTIES AlwaysRecovers
