SPECIFICATION Spec
CONSTANTS
  Sdks = {"python"}
  Callers = {c1, c2}
  Waits = {0, 3}
  MaxDiscoveredWait = 3
  Refresh = 1
  Slack = 1
  DefaultTimeout = 2
  ComponentTimeout = 1
  StatusTimeout = 1
  Explicit = 0
  MaxTime = 4
SYMMETRY Symmetry
INVARIANTS
  DiscoveryNeverFailsSign
