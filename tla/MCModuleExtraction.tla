------------------------- MODULE MCModuleExtraction -------------------------
\* Values for the configurations of ModuleExtraction: e leads to a, a to b and d, b back to e.
\* The parse found e, a and b; d is only in the contents. The
\* stub of b and the text of d refer to one entity, here b itself.
EXTENDS ModuleExtraction, TLC
CONSTANTS a, b, d, e, x1, x2, s1, t1
FourExits  == e :> {a} @@ a :> {b, d} @@ b :> {e} @@ d :> {}
StubNames == a :> {} @@ b :> {b} @@ d :> {} @@ e :> {}
TextTells == a :> {} @@ b :> {b} @@ d :> {b} @@ e :> {}
\* One task of each sort, or one job asked for twice
EachOnceOrTwice == {{x1, s1, t1}, {x1, x2}}
=============================================================================
