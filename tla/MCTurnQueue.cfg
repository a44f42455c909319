SPECIFICATION Spec

CONSTANTS
  s1 = s1
  s2 = s2
  m1 = m1
  m2 = m2
  m3 = m3
  voice = voice
  silent = silent
  Sessions = {s1}
  Turns = {m1, m2, m3}
  Clients = {c1}
  SessionOf <- MCSessionOf
  Modes = {voice, silent}
  ModeOf <- MCModeOf
  DefaultMode = voice
  NoTurn = NoTurn

INVARIANTS
  TypeOK
  OneWorkerPerSession
  NoStrandedQueue
  OptionsStayPaired
  ActiveIsRunning
  QuietClose
PROPERTIES
  ImplementsChatTurns

CHECK_DEADLOCK FALSE
