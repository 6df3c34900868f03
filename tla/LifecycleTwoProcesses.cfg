\* Two processes of any kind, started, signalled, killed and re-executed.
SPECIFICATION Spec
CONSTANTS
  Procs = {p1, p2}
  Kinds = {"server", "command", "status"}
  AutoInstall = TRUE
  NoFile = NoFile
  Empty = Empty
INVARIANTS
  CleanExitRemovesPidFile
  PidFileNamesServer
PROPERTIES
  ShutdownEnds
