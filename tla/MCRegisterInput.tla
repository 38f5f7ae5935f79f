--------------------------- MODULE MCRegisterInput ---------------------------
(***************************************************************************)
(* A small instance of RegisterInput for TLC: every nonce with one detail, *)
(* and every detail with one nonce.                                        *)
(***************************************************************************)
EXTENDS RegisterInput, SequencesExt

CONSTANTS
  LongestNonce,     \* runes of the longest nonce that is sent
  LongestDetail     \* bytes of the longest detail that is sent

AllForms ==
  [nonce : BoundedSeq(Rune, LongestNonce), detail : {<<>>}]
    \cup [nonce : {<<"space", "safe">>}, detail : BoundedSeq(Byte, LongestDetail)]
=============================================================================
