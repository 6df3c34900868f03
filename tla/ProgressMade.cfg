\* Liveness of the overlay managers and of the terminal interface.
\* Requests are bounded: when they are used up nothing need happen.
SPECIFICATION Spec
CONSTANTS
  KeyNames = {"k1", "k2"}
  ServiceIds = {"i1", "i2"}
  KeyCommands = FALSE
  Slugs = {"a", "b"}
  Listed = {"a"}
  Hits = {"a"}
  PageSize = 1
  Wires = {1, 2}
  MaxSent = 2
PROPERTIES
  Recovers
  LoadingPasses
CHECK_DEADLOCK FALSE
