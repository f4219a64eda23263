SPECIFICATION Spec
CONSTANTS
  ch1 = ch1
  ch2 = ch2
  p1 = p1
  worker = worker
  enrich = enrich
  NoPid = NoPid
  NoId = 0
  Channel <- MCChannel
  Page <- MCPage
  Owner <- MCOwner
  CandidateId <- TwoIds
  Writer <- OneWriter
  Observation <- Upgrading
  BatchSize = 1
  Attempts = 2
  GridStep = 2
  GridLimit = 6
  CuratorWaits = TRUE
  CuratorFillsId = TRUE
  MaxClock = 0
  MaxFaults = 2
  MaxLosses = 1
INVARIANTS TypeOK InboxAccepted WritesFitGrid
PROPERTIES ReviewColumnsKept RowIdentityFixed ImplementsReviewQueue
