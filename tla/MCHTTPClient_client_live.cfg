SPECIFICATION FairSpec

CONSTANTS
  Callers = {c1, c2}
  Threshold = 1
  Cooldown = 1
  Timeout = 1
  Backoffs <- OneBackoff
  LongestBackoff = 1
  MaxRetryAfter = 3
  Second = 3
  Span = 5
  Headers <- TypeScriptHeaders
  TypeScript = TRUE
  NoDelay = NoDelay
  Faulty = TRUE
  Cancels = FALSE

PROPERTIES
  CallsEnd
  Recovers

INVARIANT WhenAsked
