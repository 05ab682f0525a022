SPECIFICATION SearchSpec
CONSTANTS
  Calls = {k1, k2, k3}
  Names <- MCNames
  Present <- MCPresent
  Lines <- MCLines
  Match <- MCMatch
  MaxDepth = 2
  MaxCursors = 1
  MaxResults = 3
  MaxPending = 2
  MaxWork = 2
  MaxAtOnce = 2
  MaxEdits = 1
  MaxChanges = 1
  MaxDenials = 1
  Nil = Nil
INVARIANTS CursorsAreSpentOnce CompleteSearchIsExact
SYMMETRY Alike
CHECK_DEADLOCK FALSE
