CONSTANTS
  Msgs = {m1}
  Consumers = {c1, c2}
  Workers = {w1, w2}
  Batch = 2
  MaxAttempts = 2
  MaxStalls = 1
  MaxFaults = 2
  Faults = {"redis", "db", "status", "ack", "provider", "crash", "stall"}
SPECIFICATION FairSpec
CHECK_DEADLOCK FALSE
INVARIANT TypeOK
INVARIANT SentOnce
INVARIANT NothingLost
INVARIANT StatusIsTrue
 
PROPERTY MessagesSettle
