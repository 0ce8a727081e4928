\* Two bridges and a CLI on one Postgres, with the five migrations of the repository.
SPECIFICATION FairSpec
CONSTANTS
  s1 = s1
  s2 = s2
  c1 = c1
  Servers = {s1, s2}
  Clis = {c1}
  Files = 5
  Creating = {1, 3}
  MaxFaults = 1
CHECK_DEADLOCK FALSE
INVARIANTS
  TypeOK
  SchemaInOrder
  ServesMigrated
PROPERTIES
  ExitsForCause
  LostRacesRunOut
  EveryServerServes
