\* Two turns on up to two connections, an approval and a fault; three segments in one
\* room and a turn of the user; two windows and two requests on an item from any source,
\* and their undos.
SPECIFICATION MCSpec
CONSTANTS
  Turns = {t1, t2}
  Requests = {r1}
  Clients = {k1}
  Decisions = {"accept"}
  Talkers = {t1, t2}
  MaxTexts = 1
  MaxWire = 1
  MaxConns = 2
  MaxFaults = 1
  NoRequest = NoRequest
  Rooms = {1}
  MaxSegments = 3
  MaxUserTurns = 1
  Sources = {"local", "markdown", "email", "todoist"}
  Windows = {w1, w2}
  Targets = {"inbox", "done"}
  Actors = {a1}
  MaxRequests = 2
  NoActor = NoActor
  Keep = Keep
SYMMETRY WindowSymmetry
INVARIANTS
  TypesOK
  AnswerIsOwn
  AddressIsAnswered
PROPERTIES
  UndoRestores
CHECK_DEADLOCK FALSE
