SPECIFICATION FairSpec

CONSTANTS
  Nonces = {n1}
  Tokens = {t1}
  Details = {NoDetail, d1}
  NoDetail = NoDetail
  RequestTTL = 1
  RetainAfterDecision = 1
  Clients = {c1, c2}
  None = None
  PublishTimeout = 1
  FreshNonces = TRUE

PROPERTIES
  Answered
  NonceFreed
