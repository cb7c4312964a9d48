SPECIFICATION Spec
CONSTANTS
  Slots = 2
  Paths = {p1, bad}
  Unreadable = {bad}
  NoPath = NoPath
  MaxEdits = 2
INVARIANTS
  RackIsTheProjects
PROPERTIES
  StartsCatchUp
CHECK_DEADLOCK FALSE
