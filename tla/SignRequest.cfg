SPECIFICATION FairSpec
CONSTANT Sdks = {"go", "python", "typescript"}
CHECK_DEADLOCK FALSE
INVARIANTS
  TypeOK
  CancelOnlyIfLapsed
  TimeoutCancelsOnce
  SpuriousOnlyInGo
  NoOrphanApproval
PROPERTIES
  EveryCallReturns
  ImplementsSignCall
