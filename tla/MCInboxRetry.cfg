SPECIFICATION Spec
CONSTANTS
  ch1 = ch1
  ch2 = ch2
  p1 = p1
  worker = worker
  enrich = enrich
  NoPid = NoPid
  NoId = 0
  Channel <- MCChannel
  Page <- MCPage
  Owner <- MCOwner
  CandidateId <- ThreeIds
  Writer <- OneWriter
  Observation <- OnePage
  BatchSize = 1
  Attempts = 2
  GridStep = 2
  GridLimit = 6
  CuratorWaits = FALSE
  CuratorFillsId = FALSE
  MaxClock = 0
  MaxFaults = 1
  MaxLosses = 0
PROPERTIES ReviewColumnsKept
