SPECIFICATION FairSpec
INVARIANTS
  TypeOK
  MutualExclusion
  FreshView
PROPERTIES
  StatusForetells
  NoRevertOfApplied
  FailureBlocks
  CommandsEnd
  KeepsLedger
CONSTANTS
  Clients = {c1, c2}
  Dialect = "postgresql"
  Jobs <- LinearJobs
  MayFail = {a1, a2, b1}
  MaxRuns = 4
  MaxCrashes = 1
  S1 = S1
  S2 = S2
  a1 = a1
  a2 = a2
  b1 = b1
  None = None
  NoSum = NoSum
  FileOrder <- LinearOrder
  GroupOf <- Safe
  PhaseOf <- Safe
  Sums = {a1, a2, b1}
  Groups = {}
  Dag = FALSE
  DependsOn = {}
