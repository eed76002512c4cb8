\* Two workers contending for one incident; the clock may be set back.
SPECIFICATION Spec
CONSTANTS
  Workers = {w1, w2}
  Incidents = {i1}
  EventIds = {e1, e2}
  Notes = {}
  MaxEvidence = 2
  MaxTime = 1
  ClockMayStepBack = TRUE
  NoRow = NoRow
  NoCall = NoCall
  NoAnswer = NoAnswer
  NoWorker = NoWorker
  NoTime = NoTime
  NoNote = NoNote
SYMMETRY Interchangeable
INVARIANTS TypeOK LockProtectsRow EvidenceTraceable
PROPERTIES ClosedIsFinal ImplementsRegister
