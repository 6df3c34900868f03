\* What keeps an installation and its client running, each component on its own.
\* The bounds are on what may happen: when it is used up nothing need happen.
SPECIFICATION Spec
CONSTANTS
  MaxEdits = 2
  MaxJobs = 4
  Defer = 1
  MaxTime = 3
  MaxRuns = 2
  KeyNames = {"k1", "k2"}
  ServiceIds = {"i1", "i2"}
  KeyCommands = TRUE
  Operators = {o1, o2}
  Keyservers = {"s"}
  MaxKeys = 3
  MaxCommands = 3
  MaxHours = 2
  Booters = {p1, p2}
  Followed = {"port", "compression_level", "read_timeout", "cache_type", "disk_threshold", "defer_days", "max_circuits", "inbound_length"}
  MaxBoots = 2
  MaxHands = 2
  MaxMade = 2
  Lanes = {"l"}
  MaxTaskRuns = 1
  MaxTurns = 1
  MaxVerbs = 4
  Addresses = {"s", "r"}
  AtFirst = {"s"}
  Tokens = {"t"}
  Retry = 1
  TTL = 1
  MaxVersion = 2
  MaxTests = 1
  MaxGiven = 1
  MaxStarts = 2
INVARIANTS
  AcceptedIsSnapshot
  RestoreExact
  AnnouncedOnce
  NoProviderLost
  PublishedIsKey
  KeysHeld
  RecordsTrue
  SealedReadable
  ChoicesKept
  ToldOnce
  UninstallSound
  ChangedOnce
  SavedKept
  GateHolds
PROPERTIES
  InstallationsSound
CHECK_DEADLOCK FALSE
