\* Tracked and untracked reports that block, fail and resolve: all three rules.
SPECIFICATION Spec
CONSTANTS
  Entities = {t1}
  Subjects = {t1, NoEntity}
  StatedStatuses = {"blocked", "failed", "resolved"}
  StatedDues = {NoDue, 0}
  MaxReports = 3
  MaxTime = 2
  EscalateAfter = 1
  Window = 1
  FailureThreshold = 2
  EscalationCount = 3
  MaxRecent = 1
  MaxEvidence = 2
  NoEntity = NoEntity
  NoStatus = NoStatus
  NoDue = NoDue
  NoReport = NoReport
INVARIANTS TypeOK RankedAndTraceable SourcesAccounted DeclarationsCarryTheirRisk
PROPERTIES ResolvedClearsEveryRule
CHECK_DEADLOCK FALSE
