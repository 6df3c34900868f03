\* Every request is answered; the generator draws from one code, so that a
\* create can collide until its attempts are used up.
SPECIFICATION Spec
CONSTANTS
  Requests = {r1, r2}
  Slugs = {a, b}
  Reserved = {b}
  AutoCodes = {a}
  URLs = {u}
  Expiries = {0}
  Formats = {"json", "text"}
  Agents = {"human", "bot"}
  Kinds = {"create", "delete", "resolve"}
  MaxShortCodeAttempts = 2
  StatsMaxRows = 2
  MaxLinks = 2
  MaxClicks = 1
  MaxTime = 1
  Never = Never
  Keep = Keep
  Generated = Generated
  NoRow = NoRow
  Anonymous = Anonymous
  Operator = Operator
PROPERTIES
  RequestsAnswered
