SPECIFICATION Spec
CONSTANTS
  a = a
  b = b
  c = c
  NoScene = none
  Scenes = {a, b, c}
  Entry = b
  Goals = {a, c}
  Next_Scene <- ThreeScenes
  Limit = 4
  MaxTurns = 2
  MaxAtOnce = 2
  MaxFaults = 1
INVARIANTS TypeOK Earned UnlockOnce AdvanceTaken LogFollowsParty
CHECK_DEADLOCK FALSE
