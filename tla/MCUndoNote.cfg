\* One window, an item of a note.
SPECIFICATION Spec
CONSTANTS
  Sources = {"markdown"}
  Windows = {w1}
  Targets = {"inbox", "next", "done"}
  Actors = {a1}
  MaxRequests = 2
  NoActor = NoActor
  Keep = Keep
PROPERTIES
  UndoReverses
CHECK_DEADLOCK FALSE
