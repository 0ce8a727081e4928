\* More pending messages than a channel holds at boot.
SPECIFICATION Spec
CONSTANTS
  m1 = m1
  m2 = m2
  w1 = w1
  w2 = w2
  h1 = h1
  h2 = h2
  NoMsg = NoMsg
  Msgs <- OneWayMsgs
  Workers = {w1, w2}
  Handlers = {h1, h2}
  DirOf <- OneWayDir
  PoolOf <- OneWayPool
  BufferLimit = 1
  MaxAttempts = 2
  AttemptsMax = 3
  MaxBoots = 2
  MaxRetries = 1
  MaxFaults = 1
SYMMETRY AllSymmetry
CHECK_DEADLOCK FALSE
PROPERTIES
  RecoveryDrainsPending
