SPECIFICATION Spec
CONSTANTS
    Turns = {t1}
    Policies = {"cancel_before", "continue_after", "always_continue"}
    Signals = {"narration", "roll"}
    Modules = {TRUE, FALSE}
    MaxRounds = 2
    MaxDeltas = 2
    Cap = 1
    MaxHangUps = 2
    MaxFaults = 0
INVARIANTS TypeOK
PROPERTIES ContractSpec
CHECK_DEADLOCK FALSE
