SPECIFICATION Spec
CONSTANTS
  Sdks = {"go", "python", "typescript"}
  Callers = {c1, c2}
  Waits = {3, 4}
  MaxDiscoveredWait = 3
  Refresh = 1
  Slack = 1
  DefaultTimeout = 2
  ComponentTimeout = 1
  StatusTimeout = 1
  Explicit = 0
  MaxTime = 4
SYMMETRY Symmetry
INVARIANTS
  TypeOK
  UsedWasRecent
  FullWaitUnlessStraddled
