SPECIFICATION Spec
CONSTANTS
  Procs = {p1, p2}
  Tasks = {t1, t2}
  Repos = {r1, r2}
  NoTask = NoTask
  NoRepo = NoRepo
  MaxTokens = 2
SYMMETRY Symmetry
INVARIANTS RowBackedByFile ExclusiveLease
PROPERTIES OnlyCreatorUnlinks MutexSpec
