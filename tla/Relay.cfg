\* A draft and a customer message of any content, three attempts, three faults.
SPECIFICATION Spec
CONSTANTS
  d1 = d1
  t1 = t1
  note = note
  Drafts = {d1}
  Texts = {t1}
  Note = note
  OutContents <- AgentContents
  InContents <- CustomerContents
  MaxAttempts = 3
  MaxFaults = 3
CHECK_DEADLOCK FALSE
INVARIANTS
  TypeOK
  NoEcho
  NoteExplainsRefusal
  HealthyRelays
PROPERTIES
  ImplementsConversation
