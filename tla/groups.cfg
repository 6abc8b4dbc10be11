SPECIFICATION Spec
INVARIANTS
  ForbiddenIsSeen
PROPERTIES
  PhasePrerequisites
  ContractAfterSwitch
  RequirementsStay
SYMMETRY
  Symmetry
CONSTANTS
  Clients = {c1, c2}
  Dialect = "postgresql"
  Jobs <- GroupJobs
  MayFail = {v1}
  MaxRuns = 4
  MaxCrashes = 1
  Rename = Rename
  Short = Short
  ShortName <- ShortNames
  E = E
  B = B
  W = W
  C = C
  S = S
  v1 = v1
  None = None
  NoSum = NoSum
  FileOrder <- GroupOrder
  GroupOf <- InGroup
  PhaseOf <- Phase
  Sums = {v1}
  Groups = {Rename}
  Dag = FALSE
  DependsOn = {}
