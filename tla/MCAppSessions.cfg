SPECIFICATION MCSpec
CONSTANTS
  Sessions = {s1, s2}
  Clients = {k1}
  Configs = {plain, plan}
  Commands = {"focus", "clear", "compact", "shutdown"}
  Focusable = {s2}
  NoFocus = NoFocus
  MaxConns = 2
ACTION_CONSTRAINT InInstance
INVARIANTS
  TypeOK
  NoLeak
  QuietShutdown
  ThreadsKeepWorkspace
  ForgottenInOrder
  TurnRunsAsBound
VIEW MCView
CHECK_DEADLOCK FALSE
