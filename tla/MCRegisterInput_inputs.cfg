SPECIFICATION Spec

CONSTANTS
  MaxNonceLen = 2
  MaxDetailLen = 4
  MaxNonceRunes = 3
  MaxDetailRunes = 5
  LongestNonce = 4
  LongestDetail = 6
  Forms <- AllForms

CHECK_DEADLOCK FALSE

INVARIANTS
  TypeOK
  DetailSendable
  DetailKept
  DetailBounded
  LinksOpen
