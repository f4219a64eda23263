SPECIFICATION Spec
CONSTANTS
  ch1 = ch1
  p1 = p1
  p2 = p2
  NoPid = NoPid
  NoId = 0
  Channel <- MCChannel
  Page <- MCPage
  Owner <- MCOwner
  CandidateId <- ThreeIds
  Listed <- MCListed
  Decision <- MCDecision
  NotReviewed <- New
  Personas = {"persona"}
  Attempts = 2
  LostAnswers = {"update"}
  MaxRows = 3
  MaxFirst = 1
  MaxFaults = 2
SYMMETRY Pages
INVARIANTS TypeOK CleanedInOnePass
PROPERTIES FirstSeenKept VerifiedReviewKept ProposalsOfVerified
