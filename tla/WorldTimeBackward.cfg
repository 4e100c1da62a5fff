SPECIFICATION Spec
CONSTANTS
    Callers = {c1, c2}
    Scheds = {s1}
    NoSched = nosched
    Deltas <- MCOneDelta
    Limit = 9
    Ops = {"record", "advance"}
    MaxOps = 2
    MaxFaults = 0
PROPERTIES TickMonotone
CHECK_DEADLOCK FALSE
