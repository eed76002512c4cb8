\* Demo starts that are cut short.
SPECIFICATION Spec
CONSTANTS
  d1 = d1
  d2 = d2
  e1 = e1
  e2 = e2
  demo1 = demo1
  i1 = i1
  DemoEvents = {d1, d2}
  LiveEvents = {e1, e2}
  DemoIncident = demo1
  DemoEvidence = d1
  LiveIncidents = {i1}
  SettingsChoices <- AllSettings
  Requests <- SomeRequests
  MaxStops = 2
  Limit = 1
  MaxChunk = 2
  Tolerance = 1
  MaxTime = 2
  NoRow = NoRow
  NoSettings = NoSettings
  NoLength = NoLength
  NoStamp = NoStamp
  NoSignature = NoSignature
  NoRequest = NoRequest
  NoView = NoView
  EventOrder <- EventsByTime
  IncidentOrder <- IncidentsByTime
  Selections <- SomeSelections
  PageSize = 1
  NoWalk = NoWalk
INVARIANTS DemoIsPopulated
CONSTRAINT PagesMeetWrites
