SPECIFICATION CheckoutSpec
INVARIANTS
  CheckoutTypeOK
  NothingIsLost
  CleanRunIsComplete
  AppliedWasRun
CONSTANTS
  Clients = {maintainer, other}
  Maintainer = maintainer
  Dialect = "mysql"
  Jobs <- OldCheckout
  MayFail = {v1}
  MaxRuns = 5
  MaxCrashes = 1
  A = A
  B = B
  C = C
  v1 = v1
  None = None
  NoSum = NoSum
  FileOrder <- Chain
  GroupOf <- NoGroup
  PhaseOf <- NoGroup
  Sums = {v1}
  Groups = {}
  Dag = TRUE
  DependsOn <- Dependencies
  VersionOf <- OneVersion
  KeepSince <- Cuts
  ApplyOptions <- AllOptions
  DumpsLedger = FALSE
