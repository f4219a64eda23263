SPECIFICATION FairSpec
CONSTANTS
  c1 = c1
  c2 = c2
  c3 = c3
  worker = worker
  enrich = enrich
  Nobody = Nobody
  Caller <- MCCaller
  Process <- MCProcess
  ProcessOf <- MCProcessOf
  Cost <- MCCost
  Budget = 2
  Attempts = 2
  LastDay = 1
  MaxCrashes = 1
INVARIANTS TypeOK WithinBudget SentIsCharged OvershootBounded
PROPERTIES ChargesKept CallsEnd
