\* The contact search of a number that is part of another.
SPECIFICATION Spec
CONSTANTS
  j1 = j1
  j2 = j2
  m1 = m1
  m2 = m2
  m3 = m3
  w1 = w1
  w2 = w2
  None = None
  Jids = {j1, j2}
  Msgs = {m1, m2, m3}
  JidOf <- BurstJid
  Resembles <- PrefixResembles
  Workers = {w1, w2}
  MaxAttempts = 2
  MaxFaults = 0
CHECK_DEADLOCK FALSE
INVARIANT ShownUnderOwnContact
