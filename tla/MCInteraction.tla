--------------------------- MODULE MCInteraction ---------------------------
\* Model values for the configurations of InteractionLifecycle.
EXTENDS InteractionLifecycle, TLC
CONSTANTS r1, r2
Sym == Permutations({r1, r2})
=============================================================================
