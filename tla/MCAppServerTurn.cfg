\* Two turns on up to two connections, of which one speaks; an approval, its two
\* decisions and a fault.
SPECIFICATION FairSpec
CONSTANTS
  Turns = {t1, t2}
  Requests = {r1}
  Clients = {k1}
  Decisions = {"accept", "decline"}
  Talkers = {t1}
  MaxTexts = 1
  MaxWire = 1
  MaxConns = 2
  MaxFaults = 1
  NoRequest = NoRequest
INVARIANTS
  DecisionIsGiven
  PendingHasReader
PROPERTIES
  CancelledTurnsReturn
  CompletedTurnsReturn
CHECK_DEADLOCK FALSE
