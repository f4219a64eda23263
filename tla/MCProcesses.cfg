SPECIFICATION FairSpec
CONSTANTS
  p1 = p1
  p2 = p2
  p3 = p3
  Nobody = Nobody
  Proc <- MCProc
  Command <- MCCommand
  MaxCrashes = 1
INVARIANTS TypeOK OneOwner NoStaleLock ServerFailureReported
PROPERTIES SignalStops
