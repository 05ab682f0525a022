SPECIFICATION ApprovalFairSpec
CONSTANTS
  c1 = c1
  c2 = c2
  c3 = c3
  c4 = c4
  a = a
  b = b
  Calls = {c1}
  Ops = {a, b}
  Ids = {i1, i2, i3}
  NoOp = NoOp
  Gates <- SameTwice
  Denied = {}
  OutOfHome = {}
  MaxSetbacks = 0
PROPERTIES ApprovedCommandRuns
