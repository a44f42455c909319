SPECIFICATION Spec
CONSTANTS
  Sessions = {s1}
  Clients = {k1}
  Configs = {plain}
  Commands = {"clear"}
  Focusable = {}
  NoFocus = NoFocus
  MaxConns = 3
ACTION_CONSTRAINT OneAtATime
INVARIANTS
  ResumedThreadKnowsChat
CHECK_DEADLOCK FALSE
