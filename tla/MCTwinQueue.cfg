CONSTANTS
  Flusher = "flusher"
  Submitters = {"s1"}
  MaxRevision = 3
  MaxDepth = 2
SPECIFICATION TwFairSpec
PROPERTY QueueDrains
CHECK_DEADLOCK FALSE
