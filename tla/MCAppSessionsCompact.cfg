SPECIFICATION Spec
CONSTANTS
  Sessions = {s1, s2}
  Clients = {k1}
  Configs = {plain}
  Commands = {"focus", "compact"}
  Focusable = {s2}
  NoFocus = NoFocus
  MaxConns = 3
ACTION_CONSTRAINT OneAtATime
INVARIANTS
  StaysForgotten
CHECK_DEADLOCK FALSE
