SPECIFICATION Spec
PROPERTIES
  FailureBlocks
  IndependentFilesProceed
  DependentsOfOpenGroupsWait
  ContractAfterSwitch
SYMMETRY
  Symmetry
CONSTANTS
  Clients = {c1, c2}
  Dialect = "postgresql"
  Jobs <- DagJobs
  MayFail = {v1, v2}
  MaxRuns = 3
  MaxCrashes = 1
  Rename = Rename
  A = A
  E = E
  K = K
  W = W
  S = S
  T = T
  C = C
  v1 = v1
  v2 = v2
  None = None
  NoSum = NoSum
  FileOrder <- DagOrder
  GroupOf <- InGroup
  PhaseOf <- Phase
  Sums = {v1, v2}
  Groups = {Rename}
  Dag = TRUE
  DependsOn <- Dependencies
