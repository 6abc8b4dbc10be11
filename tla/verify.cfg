SPECIFICATION VerifySpec
INVARIANTS
  PassedNeverDrifts
PROPERTIES
  GreenMeansGo
  AlarmsAreTrue
  FirstRunsAreRehearsed
CONSTANTS
  Clients = {c1, c2}
  Dialect = "postgresql"
  Jobs <- VerifiedJobs
  MayFail = {a1, a2, b1}
  MaxRuns = 3
  MaxCrashes = 1
  MaxVerifies = 1
  Uses <- Needs
  Again <- Repeated
  VerifyTrees <- VerifiedTrees
  S1 = S1
  S2 = S2
  a1 = a1
  a2 = a2
  b1 = b1
  None = None
  NoSum = NoSum
  FileOrder <- LinearOrder
  GroupOf <- Safe
  PhaseOf <- Safe
  Sums = {a1, a2, b1}
  Groups = {}
  Dag = FALSE
  DependsOn = {}
