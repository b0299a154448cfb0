CONSTANTS
  MaxRetries = 1
  MaxCoins = 2
  HopperStock = 5
  Prices = {100}
  Deposits = {110, 200}
  MaxQuarters = 2
  MaxTxns = 2
  MaxCrashes = 2
  Storage = {}
SPECIFICATION Spec
INVARIANTS NoOverpay IdleIsSettled
PROPERTIES ImplementsContract
