--------------------------- MODULE MCObligations ---------------------------
\* Values for the configuration of Obligations: a mechanic that the start of a turn and the calendar
\* call for, and one that the entry to a scene calls for.
EXTENDS Obligations, TLC
CONSTANTS daily, begin, enter, rest, fear
Chosen(f) == [h \in Hooks |-> f[h]]
Mechanics == Chosen(daily :> rest @@ begin :> rest @@ enter :> fear)
Waiting   == Chosen(daily :> "time_advance" @@ begin :> "turn_start" @@ enter :> "scene_enter")
DueKeys   == Chosen(daily :> "calendar" @@ begin :> "turn_start" @@ enter :> "scene_enter")
=============================================================================
