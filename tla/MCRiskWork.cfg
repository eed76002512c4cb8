\* One work entity, every status a projection tells apart.
SPECIFICATION Spec
CONSTANTS
  Entities = {t1}
  Subjects = {t1}
  StatedStatuses = {"open", "blocked", "resolved", NoStatus}
  StatedDues = {NoDue, 0}
  MaxReports = 3
  MaxTime = 2
  EscalateAfter = 1
  Window = 1
  FailureThreshold = 2
  EscalationCount = 3
  MaxRecent = 1
  MaxEvidence = 2
  NoEntity = NoEntity
  NoStatus = NoStatus
  NoDue = NoDue
  NoReport = NoReport
INVARIANTS ProjectionMatchesHistory OneLiveRiskPerWork
PROPERTIES LateReportsNeverOverrule RisksOnlyEscalate
CHECK_DEADLOCK FALSE
