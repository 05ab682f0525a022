SPECIFICATION CodingFairSpec
CONSTANTS
  Tasks = {t1, t2}
  NoTask = NoTask
  Patches = 2
  MaxFaults = 2
  MaxStoreFaults = 1
INVARIANTS NoOrphan AnswersInOrder LateWriteIsLast
PROPERTIES RequestSettles
CHECK_DEADLOCK FALSE
