SPECIFICATION RepoSpec
INVARIANTS
  RepositoryTypeOK
  StatementsRemain
  RecordedFilesExist
  DependenciesPrecede
PROPERTIES
  SquashSettles
CONSTANTS
  N = 4
  LateReferences = FALSE
  MaxEdits = 1
  MaxCrashes = 1
