SPECIFICATION Spec
CONSTANTS
  Sdk = "python"
  Threads = {t1, t2}
  MaxIds = 3
INVARIANTS
  TypeOK
  ClaimedByTheCallRunning
  UsableSignatures
PROPERTIES
  CancelHitsTheCallMeant
