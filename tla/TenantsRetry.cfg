\* The same instance: no attempt to create a tenant may break one that works.
SPECIFICATION Spec
CONSTANTS
  s1 = s1
  w1 = w1
  w2 = w2
  Slugs <- OneSlug
  Wizards <- TwoBrowsers
  Gateways = {"megaapi", "wablast"}
  MaxSecrets = 7
  MaxFaults = 2
CHECK_DEADLOCK FALSE
PROPERTIES
  RetryingIsSafe
