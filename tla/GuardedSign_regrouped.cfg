SPECIFICATION Spec
CONSTANTS
  Sdks = {"go"}
  MaxGroup = 3
  Groups <- MCGroups
  PlanAnswers <- MCPlanAnswers
  Auth <- MCAuth
  Cosigners = {c1, c2}
  MaxFee = 1
CHECK_DEADLOCK FALSE
INVARIANTS
  NoGratuitousRegrouping
