SPECIFICATION PubFairSpec
CONSTANTS
  Paths = {a, b}
  Contents = {original, changed}
  Original = original
  None = None
  Checked = Checked
  Commands = 2
  MaxWrites = 2
  MaxDrift = 1
  MaxOffers = 2
  Branches = {"fix", "main"}
  TaskBranches = {"fix"}
  Shas = {"S", "T"}
  Names = {"file", "other", "odd"}
  Ordinary = {"file", "other"}
  Namings <- MCNamings
  RepoFiles = {"file", "other", "odd"}
  SafePaths = {"file", "other"}
  Messages = {"short", "long"}
  ShortMessages = {"short"}
  Dirs = {"base", "worktree"}
  Base = "base"
  Worktree = "worktree"
  Upstream = "origin/main"
  Parsed <- MCParsed
INVARIANTS SealedProof CommandsSawSnapshot PublishedIsReviewed PublishingIsCarriedOut
PROPERTIES DecidedOnce ExecutionSettles
