SPECIFICATION Spec
CONSTANTS
    daily = daily
    begin = begin
    enter = enter
    rest = rest
    fear = fear
    Hooks = {daily, begin, enter}
    Key <- DueKeys
    Mech <- Mechanics
    Event <- Waiting
    Crossing = Crossing
    Check = Check
    Cluster = Cluster
    Retro = Retro
    Tight = TRUE
    MaxTurns = 2
    MaxRounds = 2
    MaxTools = 2
    MaxFaults = 1
INVARIANTS TypeOK EarlierDuesHandled OneOpenPerHook CarriedOver
CHECK_DEADLOCK FALSE
PROPERTIES SettledStays NotCalledAgain
