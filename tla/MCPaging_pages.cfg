SPECIFICATION FairSpec

CONSTANTS
  Cursors = {k1, k2, k3}
  NoCursor = NoCursor
  MaxItems = 2

CHECK_DEADLOCK FALSE

INVARIANTS
  TypeOK
  NoRefetch
  CancelStops
  QuietEnd

PROPERTY IterationEnds
