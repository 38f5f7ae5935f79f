SPECIFICATION Spec

CONSTANTS
  Nonces = {n1, n2}
  Tokens = {t1, t2}
  Details = {NoDetail}
  NoDetail = NoDetail
  RequestTTL = 0
  RetainAfterDecision = 1
  Clients = {c1, c2}
  None = None
  PublishTimeout = 1
  FreshNonces = TRUE

SYMMETRY Symmetry

INVARIANTS
  TypeOK
  ClaimHeld
  PublishedWasHeard
  AckedOnce
