\* The page stops asking once it has shown a connection, while its link is still good.
SPECIFICATION FairSpec
CONSTANTS
  p1 = p1
  Pages = {p1}
  SessionTTL = 1
  LinkTTL = 1
  MaxTime = 3
  MaxCodes = 3
  MaxFaults = 1
CHECK_DEADLOCK FALSE
PROPERTIES
  StatusInRealTime
