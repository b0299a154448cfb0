CONSTANTS
  MaxRetries = 0
  MaxCoins = 1
  HopperStock = 2
  Prices = {100}
  Deposits = {125}
  MaxQuarters = 1
  MaxTxns = 2
  MaxCrashes = 1
  Storage = {"full", "torn"}
SPECIFICATION FairSpec
INVARIANTS
  DoneMeansPaid
  CreditWasPaid
PROPERTIES
  Recovers
