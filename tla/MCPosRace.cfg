CONSTANTS
  w1 = w1
  w2 = w2
  k1 = k1
  p1 = p1
  p2 = p2
  Threads <- TwoWorkers
  Keys <- OneKey
  Payloads <- OnePayload
  MaxOwed = 1
  MaxGiven = 1
  MaxRequests = 3
  MaxFails = 0
  Storage = {}
SPECIFICATION RFairSpec
INVARIANTS KeyPaysOnce
CHECK_DEADLOCK FALSE
