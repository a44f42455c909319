\* Four segments and an interruption; one session with two messages and one command.
SPECIFICATION MCSpec
CONSTANTS
  MaxSegments = 4
  MaxYields = 1
  Profiles = {"balanced", "assertive"}
  Sessions = {s1}
  Messages = {m1, m2}
  Cancellers = {c1}
  Modes = {voice}
  DefaultMode = voice
  NoTurn = NoTurn
INVARIANTS
  TypeOK
  PendingIsTimed
  NoOrphanTimer
  EverySegmentOnce
PROPERTIES
  ResetSeparates
  NothingAfterClose
  EverySegmentSettles
  YieldIsEarned
  QueueIsServed
  CancelReleasesSession
  CommandsReturn
CHECK_DEADLOCK FALSE
