SPECIFICATION Spec

CONSTANTS
  Callers = {c1, c2}
  Threshold = 2
  Cooldown = 1
  Timeout = 2
  Backoffs <- JitteredBackoff
  LongestBackoff = 1
  MaxRetryAfter = 3
  Second = 3
  Span = 5
  Headers <- GoHeaders
  TypeScript = FALSE
  NoDelay = NoDelay
  Faulty = TRUE
  Cancels = TRUE

SYMMETRY Symmetry

INVARIANTS
  TypeOK
  SafeRepeats
  BoundedTime
  Shielded
  WhenAsked

PROPERTY OpensJustly
