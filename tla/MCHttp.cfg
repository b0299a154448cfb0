SPECIFICATION HFairSpec
CONSTANTS
  w1 = w1
  w2 = w2
  Workers <- TwoWorkers
  Requests <- SmallRequests
  Capacity = 1
  MaxPosts = 2
  MaxFallen = 3
CHECK_DEADLOCK FALSE
INVARIANTS OkMeansPaid
PROPERTY RequestsAnswered
