SPECIFICATION CheckoutSpec
PROPERTIES
  BaselineThenRemaining
CONSTANTS
  Clients = {maintainer}
  Maintainer = maintainer
  Dialect = "mysql"
  Jobs = {}
  MayFail = {}
  MaxRuns = 5
  MaxCrashes = 0
  A = A
  B = B
  C = C
  v1 = v1
  None = None
  NoSum = NoSum
  FileOrder <- Chain
  GroupOf <- NoGroup
  PhaseOf <- NoGroup
  Sums = {v1}
  Groups = {}
  Dag = TRUE
  DependsOn <- Dependencies
  VersionOf <- OneVersion
  KeepSince <- KeepLeaves
  ApplyOptions <- AllOptions
  DumpsLedger = FALSE
