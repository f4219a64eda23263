SPECIFICATION FairSpec
CONSTANTS
  a1 = a1
  a2 = a2
  a3 = a3
  c1 = c1
  c2 = c2
  c3 = c3
  Bad = Bad
  NoCursor = NoCursor
  Account <- MCAccount
  Cursor <- MCCursor
  Limit = 2
  MaxPages = 3
  MaxFeeds = 4
  PageSize = 2
INVARIANTS TypeOK NoErrorMeansAll LimitKept
PROPERTIES ListingEnds
\* A listing ends.
CHECK_DEADLOCK FALSE
