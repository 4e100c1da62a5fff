SPECIFICATION Spec
CONSTANTS
    Callers = {c1}
    Scheds = {s1, s2}
    NoSched = nosched
    Deltas <- MCDeltas
    Limit = 9
    Ops = {"record", "advance", "flashback", "schedule", "compile"}
    MaxOps = 5
    MaxFaults = 1
INVARIANTS TypeOK FiresOnce NothingOverdue ContextComplete NoEarlyFire
PROPERTIES TimelineSpec
CHECK_DEADLOCK FALSE
