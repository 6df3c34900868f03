\* what the restore of a database does to its log, through the code as it is
SPECIFICATION Spec
CONSTANTS
  MaxEdits = 3
  MaxJobs = 2
INVARIANTS
  RestoredDatabaseWhole
CHECK_DEADLOCK FALSE
