SPECIFICATION FairSpec
CONSTANTS
  t1 = t1
  t2 = t2
  r1 = r1
  r2 = r2
  Agent = agent
  Procs = {agent}
  Tasks = {t1, t2}
  Repos = {r1}
  RepoOf <- SameRepo
  NoTask = NoTask
  NoRepo = NoRepo
  MaxTokens = 4
  PerStatusLimit = 2
  MaxFaults = 2
INVARIANTS WorkUnderLease CompletedEvidence
PROPERTIES FreedOnlyAfterConfirmation RecoveryIsSticky ShutdownCompletes
