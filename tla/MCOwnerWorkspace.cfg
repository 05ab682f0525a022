SPECIFICATION FairSpec
CONSTANTS
  o1 = o1  o2 = o2  t1 = t1
  p1 = p1  p2 = p2  w1 = w1
  plain = plain  other = other  secret = secret
  Ops = {o1, o2}
  Tasks = {t1}
  Paths = {p1, p2, w1}
  WindowsPaths = {w1}
  Contents = {secret}
  Dir = Dir  Outside = Outside  None = None
  InitialDisk <- MCDisk
  Scope <- MCScope
  Requests <- MCRequests
  Sensitive = {secret}
  Unattended = {w1}
  MaxGrants = 1
  MaxOutside = 1
  MaxFaults = 1
INVARIANTS DeniedLeftNoTrace AppliedIsExact NothingLost OwnerConsented LeaseExcludesWriters
PROPERTIES EffectsAreFenced CloseCompletes
CHECK_DEADLOCK FALSE
