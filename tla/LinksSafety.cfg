\* Two requests at a time create, edit, delete, follow and count links on one
\* contested slug.
SPECIFICATION Safety
CONSTANTS
  Requests = {r1, r2}
  Slugs = {a}
  Reserved = {}
  AutoCodes = {a}
  URLs = {u, v}
  Expiries = {}
  Formats = {"json"}
  Agents = {"human"}
  Kinds = {"form", "update", "delete", "resolve", "stats"}
  MaxShortCodeAttempts = 1
  StatsMaxRows = 1
  MaxLinks = 2
  MaxClicks = 2
  MaxTime = 0
  Never = Never
  Keep = Keep
  Generated = Generated
  NoRow = NoRow
  Anonymous = Anonymous
  Operator = Operator
SYMMETRY Symmetry
INVARIANTS
  OwnersSettled
  StatisticsAgree
PROPERTIES
  WritesAuthorized
  RefinesRegistry
