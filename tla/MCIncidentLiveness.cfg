\* Liveness of two contending workers (no symmetry).
SPECIFICATION FairSpec
CONSTANTS
  Workers = {w1, w2}
  Incidents = {i1}
  EventIds = {e1}
  Notes = {}
  MaxEvidence = 1
  MaxTime = 1
  ClockMayStepBack = FALSE
  NoRow = NoRow
  NoCall = NoCall
  NoAnswer = NoAnswer
  NoWorker = NoWorker
  NoTime = NoTime
  NoNote = NoNote
PROPERTIES CallsKeepBeingAnswered
