CONSTANTS
  Procs = {p1, p2}
  p1 = p1
  p2 = p2
  Calls <- MCCalls
  Hosts = {h1, h2}
  HostKeys = {k1, k2}
  k1 = k1
  k2 = k2
  Offers <- MCOffers
  Known <- MCKnown
  Aliases = {s1, c1, c2}
  NoAlias = NoAlias
  SchemaVersion = 2
  MaxCosigners = 1
  s1 = s1
  c1 = c1
  c2 = c2
  h1 = h1
  h2 = h2
  Files <- MCFiles
  HostOf <- MCHostOf
SPECIFICATION FairSpec
INVARIANTS
  TypeOK
  DeadlineDetached
  TimeoutIsReal
  LeakOnlyKnown
  OneKeyPerHost
  PinsSurvive
  DefaultIsSigner
PROPERTIES
  SetupEnds
  StopDrains
CHECK_DEADLOCK FALSE
