---------------------------- MODULE MCWorldTime -----------------------------
(* Constants of the small instances of WorldTime. *)
EXTENDS WorldTime

\* A request that names no time (or a negative one) still takes a tick.
MCDeltas == {-1, 2}
\* Two amounts of the same effect are left out where amounts do not matter.
MCOneDelta == {1}
=============================================================================
