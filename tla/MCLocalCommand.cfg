SPECIFICATION LocalSpec
CONSTANTS
  r1 = r1
  Calls = {c1, c2}
  Repos = {r1}
  RepoOf <- OneRepo
  Files = {f, g}
  MaxHead = 3
  MaxEdits = 2
  MaxFaults = 1
  None = None
  Branches = {"chore", "main"}
  TaskBranches = {"chore"}
  Shas = {"S"}
  RepoFiles = {}
  SafePaths = {}
  Messages = {}
  ShortMessages = {}
  Dirs = {"base", "worktree"}
  Base = "base"
  Worktree = "worktree"
  Upstream = "origin/main"
  Parsed <- NoRefspecs
INVARIANTS CompletedOnCleanHead ProcessesUnderLock WorktreesAreKnown CallIsCarriedOut
PROPERTIES CallsEnd
CHECK_DEADLOCK FALSE
