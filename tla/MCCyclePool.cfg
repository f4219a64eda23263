SPECIFICATION FairSpec
CONSTANTS
  w1 = w1
  w2 = w2
  Worker <- MCWorker
  Source <- MCSource
  Config <- MCConfig
  Enabled <- MCEnabled
  Leads <- MCLeads
  SheetSync = TRUE
INVARIANTS TypeOK NoErrorMeansComplete FailuresIsolated OneResultPerSource NoGoroutineLeft
PROPERTIES CycleEnds
