\* One worker, long histories of one incident: four instants, a note, the
\* evidence limit reached.
SPECIFICATION Spec
CONSTANTS
  Workers = {w1}
  Incidents = {i1}
  EventIds = {e1, e2, e3}
  Notes = {n1}
  MaxEvidence = 2
  MaxTime = 3
  ClockMayStepBack = TRUE
  NoRow = NoRow
  NoCall = NoCall
  NoAnswer = NoAnswer
  NoWorker = NoWorker
  NoTime = NoTime
  NoNote = NoNote
SYMMETRY Interchangeable
INVARIANTS RevalidationNeverRefuses
PROPERTIES HistoryForward
