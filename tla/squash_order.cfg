SPECIFICATION RepoSpec
INVARIANTS
  DependenciesPrecedeInGroup
CONSTANTS
  N = 2
  LateReferences = TRUE
  MaxEdits = 0
  MaxCrashes = 0
