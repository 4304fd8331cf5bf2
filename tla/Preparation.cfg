CONSTANTS
  a = a
  b = b
  c = c
  Accounts = {a, b, c}
  Requests <- MCRequests
  Ledgers <- MCLedgers
  KeySets <- MCKeySets
  Moves <- MCMoves
  NoFee = NoFee
  MinFee = 1
  MaxMoves = 1
SPECIFICATION Spec
INVARIANTS
  TypeOK
  FundsCovered
  HoldingsCovered
  AuthorityCurrent
  RekeyTargetUsable
  SentComplete
CHECK_DEADLOCK FALSE
