---------------------------- MODULE TurnContract ----------------------------
(***************************************************************************)
(* What a session promises about its turns: a turn that was opened is kept *)
(* (its row is there), failed (so recorded) or abandoned, and never one    *)
(* after another; a kept turn gets its heavy tail; and the client hears    *)
(* only what is already durable.                                           *)
(***************************************************************************)
CONSTANT Turns

VARIABLES
    status,  \* what has become of a turn
    told     \* the verdicts the client has heard of it

Verdicts == {"roll", "done", "error"}

\* What may be said of a turn of that status.
Sayable(s) == CASE s = "open"                 -> {"roll"}
                [] s \in {"kept", "finished"} -> {"roll", "done"}
                [] s = "failed"               -> {"error"}
                [] s = "abandoned"            -> {"roll"}
                [] OTHER                      -> {}

Init ==
    /\ status = [t \in Turns |-> "idle"]
    /\ told = [t \in Turns |-> {}]

Becomes(t, from, to) ==
    /\ status[t] = from
    /\ status' = [status EXCEPT ![t] = to]
    /\ UNCHANGED told

Tell(t) ==
    /\ \E v \in Sayable(status[t]) : told' = [told EXCEPT ![t] = @ \cup {v}]
    /\ UNCHANGED status

Next ==
    \E t \in Turns :
        \/ Becomes(t, "idle", "open")
        \/ \E s \in {"kept", "failed", "abandoned"} : Becomes(t, "open", s)
        \/ Becomes(t, "kept", "finished")
        \/ Tell(t)

\* Every opened turn is settled, every kept one is finished.
Settles  == \A t \in Turns : (status[t] = "open") ~> (status[t] # "open")
Finishes == \A t \in Turns : (status[t] = "kept") ~> (status[t] = "finished")

Safe == Init /\ [][Next]_<<status, told>>
Spec == Safe /\ Settles /\ Finishes
=============================================================================
