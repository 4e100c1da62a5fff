SPECIFICATION Spec
CONSTANTS
    r1 = r1
    r2 = r2
    Callers = {r1, r2}
    MaxRows = 3
    MaxFrames = 1
    MaxCalls = 4
    MaxFaults = 1
SYMMETRY Sym
INVARIANTS TypeOK OneAnswerable SettledOnce CleanBeforeInput ClosedFrameChildless
PROPERTIES StaleNeverAnswers
CHECK_DEADLOCK FALSE
