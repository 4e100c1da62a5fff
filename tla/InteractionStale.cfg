SPECIFICATION Spec
CONSTANTS
    r1 = r1
    r2 = r2
    Callers = {r1}
    MaxRows = 2
    MaxFrames = 1
    MaxCalls = 5
    MaxFaults = 0
PROPERTIES ClosedNeverRolled
CHECK_DEADLOCK FALSE
