SPECIFICATION Spec
CONSTANTS
  Sdks = {"go", "python", "typescript"}
  Callers = {c1, c2}
  Addr = {a1}
  Spendable = {a1}
  MaxVersion = 2
SYMMETRY Symmetry
INVARIANTS
  TypeOK
  FreshUnlessRaced
  ReadYourWrites
