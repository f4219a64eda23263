SPECIFICATION Spec
CONSTANTS
  ch1 = ch1
  ch2 = ch2
  p1 = p1
  p2 = p2
  w1 = w1
  w2 = w2
  NoPid = NoPid
  Channel <- MCChannel
  Page <- MCPage
  Worker <- MCWorker
  Process <- MCProcess
  Lead <- PagesOnly
  Legacy <- SecondIsLegacy
  Source <- MCSource
  CandidateId <- MCCandidateId
  MaxClock = 1
  MaxMoves = 0
SYMMETRY WorkerSymmetry
PROPERTIES KnownUrlNotAppended

