SPECIFICATION FairSpec
CONSTANTS
  p1 = p1
  p2 = p2
  None = None
  Parses = {p1, p2}
  Short = {p2}
  MaxFaults = 1
INVARIANTS TypeOK SheetServed IdentityServed VerdictTrue
PROPERTIES StreamEnds
CHECK_DEADLOCK FALSE
