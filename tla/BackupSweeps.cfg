\* Jobs end and nobody has to begin another: the directory may stay as it is.
CONSTANTS
  Procs = {p1, p2}
  NewYears <- Starts
  MonthStarts <- Starts
  Sundays <- Starts
  Policies <- AllPolicies
  Sizes = {1}
  DayLength = 2
  MaxTime = 2
  MaxJobs = 3
  NoName = NoName
SPECIFICATION Spec
SYMMETRY Symmetric
INVARIANTS
  BadArchiveAttended
  SweepsLeaveGood
  SweepSettles
CHECK_DEADLOCK FALSE
