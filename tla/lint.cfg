SPECIFICATION LintSpec
INVARIANTS
  
  
  ConcurrentBuildsSucceed
  
  
CONSTANTS
  Words <- AllWords
  DialectOf <- AllDialects
  FilePhases = {"safe", "backfill", "contract"}
  Directives <- SomeDirectives
  Off = {"require_statement_timeout"}
  Existing <- InUse
  PartOf <- Parts
CHECK_DEADLOCK FALSE
