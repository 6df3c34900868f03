\* What a request meets before its handler, the pages, and the terminal interface.
\* Requests, tokens and keys are bounded: when they are used up nothing need happen.
SPECIFICATION Spec
CONSTANTS
  Minute = 2
  Buckets = 2
  PerWindow = 1
  WriteWindow = 5
  Burst = 1
  Threshold = 3
  BlockFor = 4
  Lifetime = 4
  MaxArrivals = 5
  Tabs = {"t1", "t2"}
  MaxTokens = 4
  MaxSegments = 3
  Slugs = {"a", "b", "c", "d"}
  Listed = {"a", "b", "c"}
  Hits = {"a"}
  PageSize = 2
  Wires = {1, 2}
  MaxSent = 2
  MaxIssues = 2
  MaxOpens = 2
  Visitors = {"v1", "v2"}
  MaxDays = 4
  MaxRequests = 2
INVARIANTS
  FloodersBlocked
  CountsKept
  
  
  ListCurrent
  CountriesDecide
  OriginDecides
  ReportsHandled
PROPERTIES
  DeletionsConfirmed
CHECK_DEADLOCK FALSE
