SPECIFICATION Spec
PROPERTIES
  RevertsAreRefused
CONSTANTS
  Clients = {c1}
  Dialect = "postgresql"
  Jobs <- LinearJobs
  MayFail = {a2}
  MaxRuns = 3
  MaxCrashes = 0
  S1 = S1
  S2 = S2
  a1 = a1
  a2 = a2
  b1 = b1
  None = None
  NoSum = NoSum
  FileOrder <- LinearOrder
  GroupOf <- Safe
  PhaseOf <- Safe
  Sums = {a1, a2, b1}
  Groups = {}
  Dag = FALSE
  DependsOn = {}
