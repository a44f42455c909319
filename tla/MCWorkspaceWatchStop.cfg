\* The watch of one item, two commands and no crash.
SPECIFICATION Spec
CONSTANTS
  Items = {i1}
  Handlers = {h1}
  MaxCommands = 2
  MaxBatches = 8
  MaxCrashes = 0
  NoItem = NoItem
PROPERTIES StopIsHeeded
CHECK_DEADLOCK FALSE
