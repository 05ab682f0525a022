SPECIFICATION FairSpec
CONSTANTS
  t1 = t1
  t2 = t2
  r1 = r1
  r2 = r2
  Agent = agent
  Procs = {agent}
  Tasks = {t1, t2}
  Repos = {r1, r2}
  RepoOf <- TwoRepos
  NoTask = NoTask
  NoRepo = NoRepo
  MaxTokens = 4
  PerStatusLimit = 1
  MaxFaults = 1
PROPERTIES IndependentRepos
