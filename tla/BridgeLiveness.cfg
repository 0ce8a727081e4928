\* Two messages, one worker, a database error and a restart, under fairness.
SPECIFICATION FairSpec
CONSTANTS
  m1 = m1
  m2 = m2
  w1 = w1
  w2 = w2
  h1 = h1
  h2 = h2
  NoMsg = NoMsg
  Msgs = {m1, m2}
  Workers = {w1}
  Handlers = {h1}
  DirOf <- OneWayDir
  PoolOf <- OneWorkerPool
  BufferLimit = 1
  MaxAttempts = 2
  AttemptsMax = 2
  MaxBoots = 2
  MaxRetries = 0
  MaxFaults = 1
CHECK_DEADLOCK FALSE
PROPERTIES
  EveryRowSettles
  JobsEnd
