SPECIFICATION ApprovalSpec
CONSTANTS
  c1 = c1
  c2 = c2
  c3 = c3
  c4 = c4
  a = a
  b = b
  Calls = {c1, c2, c3, c4}
  Ops = {a, b}
  Ids = {i1, i2, i3, i4, i5}
  NoOp = NoOp
  Gates <- Mixed
  Denied = {c4}
  OutOfHome = {c3}
  MaxSetbacks = 2
SYMMETRY Symmetry
INVARIANTS Backed SpentOnce
PROPERTIES LedgerSpec
