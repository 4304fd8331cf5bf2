SPECIFICATION Spec
CONSTANTS
  Sdks = {"python"}
  Callers = {c1}
  Addr = {a1, a2}
  Spendable = {a1}
  MaxVersion = 2

INVARIANTS
  WholeInventory
