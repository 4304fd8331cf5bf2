SPECIFICATION Spec
CONSTANTS
  Sdk = "typescript"
  Threads = {t1}
  MaxIds = 2
INVARIANTS
  UsableSignatures
