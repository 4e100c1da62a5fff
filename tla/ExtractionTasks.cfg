SPECIFICATION FairSpec
CONSTANTS
  a = a
  b = b
  d = d
  e = e
  x1 = x1
  x2 = x2
  s1 = s1
  t1 = t1
  Scenes = {a, b, d, e}
  Parsed = {a, b, e}
  Entry = e
  Exits <- FourExits
  Named <- StubNames
  Told <- TextTells
  Extractors = {x1, x2}
  Completers = {s1}
  Turns = {t1}
  Casts <- EachOnceOrTwice
  MaxPrefetch = 1
  MaxFaults = 1
INVARIANTS TypeOK LinksClosed RunningHasRunner ReadyAround
PROPERTIES WorkKept JobAnswered
CHECK_DEADLOCK FALSE
