SPECIFICATION EnrichSpec
CONSTANTS
  roster = roster
  ch1 = ch1
  ch2 = ch2
  p1 = p1
  w1 = w1
  enricher = enricher
  b1 = b1
  NoPid = NoPid
  Channel <- MCChannel
  Page <- MCPage
  Worker <- MCWorker
  Process <- MCProcess
  Enricher = enricher
  Lead <- PageAndChannel
  Reported <- OnlyPage
  Legacy <- NoLegacy
  Source <- MCSource
  Limit = 1
  Profile <- MCProfile
  Bio <- MCBio
  Canonical <- MCCanonical
  Queued <- MCQueued
  CandidateId <- MCCandidateId
  MaxClock = 1
  MaxMoves = 1
  MaxBatches = 1
INVARIANTS EnrichTypeOK OneCandidatePerKey ProposalBacked
PROPERTIES StableIdentity UpgradeLeavesNoTwin
