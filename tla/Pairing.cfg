\* One holder of a link, two numbers, and a clock that outlives a session and a link.
SPECIFICATION FairSpec
CONSTANTS
  p1 = p1
  Pages = {p1}
  SessionTTL = 1
  LinkTTL = 1
  MaxTime = 3
  MaxCodes = 3
  MaxFaults = 1
CHECK_DEADLOCK FALSE
INVARIANTS
  TypeOK
  PanelErrsForCause
  ConnectedWasSeen
PROPERTIES
  DelegationEnds
  ConnectionShows
  QRCurrent
