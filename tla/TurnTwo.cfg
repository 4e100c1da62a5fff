SPECIFICATION Spec
CONSTANTS
    Turns = {t1, t2}
    Policies = {"cancel_before"}
    Signals = {"narration"}
    Modules = {TRUE}
    MaxRounds = 0
    MaxDeltas = 0
    Cap = 1
    MaxHangUps = 0
    MaxFaults = 0
SYMMETRY TurnSymmetry
INVARIANTS NarrationRemembered
CHECK_DEADLOCK FALSE
