SPECIFICATION Spec
CONSTANTS
  a = a
  b = b
  c = c
  NoScene = none
  Scenes = {a, b, c}
  Entry = b
  Goals = {a, c}
  Next_Scene <- ThreeScenes
  Limit = 8
  MaxTurns = 2
  MaxAtOnce = 1
  MaxFaults = 0
INVARIANT ReturnNeverRefires
CHECK_DEADLOCK FALSE
