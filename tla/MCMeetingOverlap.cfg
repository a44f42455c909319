\* One client and two requests that overlap.
SPECIFICATION Spec
CONSTANTS
  Conns = {c1}
  Handlers = {h1, h2}
  MaxSessions = 2
  MaxChanges = 2
INVARIANTS
  OffMeansOff
CHECK_DEADLOCK FALSE
