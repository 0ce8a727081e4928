\* Two workers, three messages of two numbers, two attempts each, two faults.
SPECIFICATION FairSpec
CONSTANTS
  j1 = j1
  j2 = j2
  m1 = m1
  m2 = m2
  m3 = m3
  w1 = w1
  w2 = w2
  None = None
  Jids = {j1, j2}
  Msgs = {m1, m2, m3}
  JidOf <- BurstJid
  Resembles <- PrefixResembles
  Workers = {w1, w2}
  MaxAttempts = 2
  MaxFaults = 2
CHECK_DEADLOCK FALSE
INVARIANTS
  TypeOK
  OwnConversation
  BurstNeverFails
  SplitsBounded
PROPERTIES
  ImplementsThreads
  EveryMessageEnds
