\* Runs that overlap each other and the end of the server, and what the next
\* server catches up.
SPECIFICATION Spec
CONSTANTS
  Tasks = {t1}
  Configs <- FastConfig
  Window = 2
  FireLanes = {f1, f2}
  Commands = {"disable"}
  Container = FALSE
  ReadsFail = FALSE
  MaxRuns = 2
  MaxTime = 4
  NoTime = NoTime
  NoRow = NoRow
INVARIANTS
  RepeatedOnlyAfterOlderRun
PROPERTIES
  OverdueRunExecuted
