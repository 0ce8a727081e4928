\* Two wizards, one slug, both gateways, two lost calls, every credential fresh.
SPECIFICATION Spec
CONSTANTS
  s1 = s1
  w1 = w1
  w2 = w2
  Slugs <- OneSlug
  Wizards <- TwoBrowsers
  Gateways = {"megaapi", "wablast"}
  MaxSecrets = 7
  MaxFaults = 2
CHECK_DEADLOCK FALSE
INVARIANTS
  TypeOK
  OneEndpointUnlessRaced
PROPERTIES
  CreatedMeansWired
  WiredStays
  StoredSecretVerifies
