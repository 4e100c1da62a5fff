SPECIFICATION Spec
CONSTANTS
    Turns = {t1}
    Policies = {"cancel_before", "continue_after", "always_continue"}
    Signals = {"narration", "roll"}
    Modules = {TRUE, FALSE}
    MaxRounds = 1
    MaxDeltas = 1
    Cap = 1
    MaxHangUps = 2
    MaxFaults = 2
PROPERTIES LifecycleMonotone CancelInTime DriverEnds
CHECK_DEADLOCK FALSE
