SPECIFICATION Spec
CONSTANTS
  Sdks = {"go", "python", "typescript"}
  MaxGroup = 3
  Groups <- MCGroups
  PlanAnswers <- MCPlanAnswers
  Auth <- MCAuth
  Cosigners = {c1, c2}
  MaxFee = 1
CHECK_DEADLOCK FALSE
INVARIANTS
  TypeOK
  CosignerLast
  FrozenPermitted
  HonestPlanAccepted
  OwnRequestsValid
  ReleaseComplete
