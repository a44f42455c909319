\* Two clients and one request at a time; the watch of
\* one item, two commands and a crash.
SPECIFICATION MCSpec
CONSTANTS
  Conns = {c1, c2}
  Handlers = {h1}
  MaxSessions = 3
  MaxChanges = 3
  Items = {i1}
  Commands = {a1}
  MaxCommands = 2
  MaxBatches = 8
  MaxCrashes = 1
  NoItem = NoItem
INVARIANTS
  TypesOK
  OffMeansOff
  CaptureIsOpen
  OpenHasOwner
PROPERTIES
  OffEndsSessions
  CompletedOnce
  StopEnds
  EnabledIsWatched
CHECK_DEADLOCK FALSE
