SPECIFICATION Spec

CONSTANTS
  Nonces = {n1}
  Tokens = {t1, t2}
  Details = {NoDetail}
  NoDetail = NoDetail
  RequestTTL = 1
  RetainAfterDecision = 0
  Pods = {p1, p2}
  Callers = {c1, c2}
  None = None
  HeaderTimeout = 1
  ReadTimeout = 3
  PublishTimeout = 2
  DrainTimeout = 4
  GracePeriod = 6

SYMMETRY Symmetry

INVARIANTS
  TypeOK
  NoneCut
  NotStranded

PROPERTIES
  ImplementsOneTap
