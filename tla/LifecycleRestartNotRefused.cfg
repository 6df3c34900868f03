\* The comment of updater.Restart on the new image.
SPECIFICATION Safety
CONSTANTS
  Procs = {p1}
  Kinds = {"server"}
  AutoInstall = TRUE
  NoFile = NoFile
  Empty = Empty
INVARIANTS
  RestartNotRefused
