SPECIFICATION Spec
INVARIANTS
  PendingContractIsForbidden
CONSTANTS
  Clients = {c1}
  Dialect = "postgresql"
  Jobs <- GroupJobs
  MayFail = {}
  MaxRuns = 1
  MaxCrashes = 0
  Rename = Rename
  Short = Short
  ShortName <- ShortNames
  E = E
  B = B
  W = W
  C = C
  S = S
  v1 = v1
  None = None
  NoSum = NoSum
  FileOrder <- GroupOrder
  GroupOf <- InGroup
  PhaseOf <- Phase
  Sums = {v1}
  Groups = {Rename}
  Dag = FALSE
  DependsOn = {}
