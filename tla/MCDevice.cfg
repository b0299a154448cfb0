CONSTANTS
  MaxRetries = 2
  MaxCoins = 3
  HopperStock = 8
  s1 = s1
  s2 = s2
  Submitters = {s1, s2}
  Flusher = Flusher
  MaxRevision = 3
  MaxDepth = 2
  Tokens = {"t1", "bad"}
  Malformed = {"bad"}
  Drawers = {"d1", "d2"}
  Expiries = {0, 1}
  MaxTime = 2
  MaxIssued = 2
  Certs = {"c1", "c2", "c3"}
  Ladder <- MCLadder
  Coins = {5, 25}
  Rates = {0, 1, 2}
  HopperFull = 30
  Travel = 5
  MaxSteps = 6
  Distances = {0, 2, 5, 6, 7}
  DebounceReads = 3
  WaitTicks = 7
  MaxMoves = 3
  Denoms = {5, 10, 25}
  Stocks = {2, 5}
  Threshold = 2
  Bills <- MCBills
  MaxSales = 2
  TestCoins = 2
  CoinRaw = 10
  TolRaw = 1
  Messages = {"m1", "m2", "m3"}
  MaxBytes = 2
  Width = 8
  MaxCrashes = 1
  MaxUnheard = 1
  Versions = {1, 2}
  Channel = "stable"
  Catalogue <- MCCatalogue
  Bucket = 50
  MaxReleases = 2
  MaxLosses = 1
  Starts <- MCStarts
  Unreadable <- MCUnreadable
SPECIFICATION MCSpec
INVARIANTS
  DeviceTypeOK
  OverpayBound
  
  TokenIsOneTime
  
  
  
  ShortPayIsCaught
  
  
  
PROPERTIES
  BlockingCallsReturn
  WearNeverHelps
  LineIsNoticed
  
  PendingSettles
CHECK_DEADLOCK FALSE
