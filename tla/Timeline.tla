------------------------------ MODULE Timeline -------------------------------
(***************************************************************************)
(* What docs/design/world_time_spine_v1_4.md promises of the world time    *)
(* spine: one timeline that only moves forward, and a log ordered by       *)
(* (world_tick, event_seq) to which entries are only ever appended, at the *)
(* current tick.                                                           *)
(***************************************************************************)
EXTENDS Integers

VARIABLES tick, log

Later(a, b) == \/ a.tick > b.tick
               \/ a.tick = b.tick /\ a.seq > b.seq

Init == tick = 0 /\ log = {}

Advance == tick' > tick /\ log' = log

Append ==
    /\ tick' = tick
    /\ \E s \in log' \ log :
         /\ s.tick = tick
         /\ \A e \in log : Later(s, e)
         /\ log' = log \cup {s}

Next == Advance \/ Append

Spec == Init /\ [][Next]_<<tick, log>>
=============================================================================
