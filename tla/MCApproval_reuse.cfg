SPECIFICATION Spec

CONSTANTS
  Nonces = {n1}
  Tokens = {t1, t2}
  Details = {NoDetail}
  NoDetail = NoDetail
  RequestTTL = 1
  RetainAfterDecision = 2
  Clients = {c1, c2}
  None = None
  PublishTimeout = 1
  FreshNonces = FALSE

SYMMETRY Symmetry

INVARIANTS
  OneVerdict
  HeardIsVerdict
  ShownIsVerdict
  ExpiredIsFinal
  SentWasHeard

PROPERTIES
  ImplementsOneTap
