\* Two messages of one direction compete for a channel of one slot, two workers and
\* two requests, with a database error, a retry and a restart: any two of them.
SPECIFICATION Spec
CONSTANTS
  m1 = m1
  m2 = m2
  w1 = w1
  w2 = w2
  h1 = h1
  h2 = h2
  NoMsg = NoMsg
  Msgs <- OneWayMsgs
  Workers = {w1, w2}
  Handlers = {h1, h2}
  DirOf <- OneWayDir
  PoolOf <- OneWayPool
  BufferLimit = 1
  MaxAttempts = 2
  AttemptsMax = 3
  MaxBoots = 2
  MaxRetries = 1
  MaxFaults = 1
SYMMETRY AllSymmetry
CONSTRAINT TwoTroubles
CHECK_DEADLOCK FALSE
INVARIANTS
  TypeOK
  DoneMeansDelivered
  NoJobBehindSettledRow
  SingleJob
  DeliveriesAccounted
  AttemptsCoverTries
PROPERTIES
  ImplementsLedger
  DoneIsFinal
  StrandedForCause
  RecoveryDrainsWhatFits
