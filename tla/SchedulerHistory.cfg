\* Runs of the server and of commands beside it, and edits of the configuration.
SPECIFICATION Safety
CONSTANTS
  Tasks = {t1}
  Configs <- Edited
  Window = 1
  FireLanes = {f1}
  Commands = {"run", "enable", "disable"}
  Container = TRUE
  ReadsFail = TRUE
  MaxRuns = 2
  MaxTime = 3
  NoTime = NoTime
  NoRow = NoRow
INVARIANTS
  RowSummarizesHistory
