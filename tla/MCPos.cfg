CONSTANTS
  w1 = w1
  w2 = w2
  k1 = k1
  p1 = p1
  p2 = p2
  Threads <- TwoWorkers
  Keys <- OneKey
  Payloads <- TwoPayloads
  MaxOwed = 1
  MaxGiven = 1
  MaxRequests = 3
  MaxFails = 1
  Storage = {"full", "torn", "power", "ttl"}
SPECIFICATION RFairSpec
INVARIANTS RetriesPayOnce
PROPERTIES RequestsEnd
CHECK_DEADLOCK FALSE
