---------------------------- MODULE RegisterInput ----------------------------
(***************************************************************************)
(* What POST /register makes of its two fields, from the decoded form to   *)
(* the record in the store: the generated length checks, the trimming and  *)
(* the alphabet of the nonce, the cut of the detail at a byte and its      *)
(* rune-by-rune mapping (server.register of approval.go).                  *)
(*                                                                         *)
(* A nonce is a sequence of runes and a detail one of bytes, each down to  *)
(* what the code tells apart.                                              *)
(***************************************************************************)
EXTENDS Integers, Sequences, FiniteSetsExt

CONSTANTS
  MaxNonceLen,      \* bytes of a trimmed nonce
  MaxDetailLen,     \* bytes of a detail before it is mapped
  MaxNonceRunes,    \* maxLength of a nonce in openapi.yml
  MaxDetailRunes,   \* maxLength of a detail in openapi.yml
  Forms             \* the forms that are sent

(***************************************************************************)
(* "safe" is the alphabet of isSafeNonce, "wide" a rune of several bytes,  *)
(* "unsafe" any other that is neither white space nor a dot.               *)
(***************************************************************************)
Rune == {"safe", "space", "dot", "unsafe", "wide"}

(***************************************************************************)
(* "control" is below 0x20 or 0x7f, "bad" a byte that no encoding of a     *)
(* rune can begin with or that begins none here.                           *)
(***************************************************************************)
Byte == {"control", "plain", "lead2", "lead3", "lead4", "cont", "bad"}

Leads == {"lead2", "lead3", "lead4"}

ASSUME RegisterInputAssumption ==
  /\ MaxNonceLen \in Nat /\ MaxDetailLen \in Nat
  /\ MaxNonceRunes \in Nat /\ MaxDetailRunes \in Nat
  /\ MaxNonceLen <= MaxNonceRunes
  /\ \A form \in Forms : form.nonce \in Seq(Rune) /\ form.detail \in Seq(Byte)

VARIABLES
  form,             \* what was sent
  stage,            \* how far it has come
  nonce,            \* the trimmed nonce
  rest,             \* bytes of the detail still to be mapped
  detail            \* the mapped bytes

vars == <<form, stage, nonce, rest, detail>>

Stages == {"decoding", "checking", "minting", "mapping", "registered",
           "undecodable", "badNonce", "duplicate", "failed"}

Init ==
  /\ form \in Forms
  /\ stage = "decoding"
  /\ nonce = <<>> /\ rest = <<>> /\ detail = <<>>

-----------------------------------------------------------------------------
(***************************************************************************)
(* UTF-8, as range, utf8.RuneCountInString and strings.Map read it: where  *)
(* no whole rune begins, one byte is read as U+FFFD.                       *)
(***************************************************************************)
Size(b) ==
  CASE b = "lead2" -> 2 [] b = "lead3" -> 3 [] b = "lead4" -> 4 [] OTHER -> 1

\* A whole rune of several bytes begins at i.
IsWide(s, i) ==
  /\ s[i] \in Leads
  /\ i + Size(s[i]) - 1 <= Len(s)
  /\ \A j \in i + 1 .. i + Size(s[i]) - 1 : s[j] = "cont"

\* Byte i is one after the first of a whole rune.
Continues(s, i) ==
  \E j \in 1 .. i - 1 : IsWide(s, j) /\ i < j + Size(s[j])

RuneCount(s) == Cardinality({i \in DOMAIN s : ~ Continues(s, i)})

\* Mutant: written as if it were a byte.
MutantReplacementIsRune == <<"U+FFFD">>

\* U+FFFD takes three bytes.
Replacement == <<"lead3", "cont", "cont">>

-----------------------------------------------------------------------------
\* The validators count runes, of the fields as they were sent.
Decode ==
  /\ stage = "decoding"
  /\ stage' = IF /\ Len(form.nonce) <= MaxNonceRunes
                 /\ RuneCount(form.detail) <= MaxDetailRunes
              THEN "checking" ELSE "undecodable"
  /\ UNCHANGED <<form, nonce, rest, detail>>

\* strings.TrimSpace
Trimmed(s) ==
  LET text == {i \in DOMAIN s : s[i] # "space"} IN
  IF text = {} THEN <<>> ELSE SubSeq(s, Min(text), Max(text))

\* Mutant: dots are allowed, as in a host name.
MutantIsSafeNonceWithDots(s) == \A i \in DOMAIN s : s[i] \in {"safe", "dot"}

IsSafeNonce(s) == \A i \in DOMAIN s : s[i] = "safe"

\* A safe nonce is ASCII, so its length in runes is its length in bytes.
Check ==
  LET trimmed == Trimmed(form.nonce) IN
  /\ stage = "checking"
  /\ IF trimmed # <<>> /\ Len(trimmed) <= MaxNonceLen /\ IsSafeNonce(trimmed)
     THEN stage' = "minting" /\ nonce' = trimmed
     ELSE stage' = "badNonce" /\ nonce' = nonce
  /\ UNCHANGED <<form, rest, detail>>

\* randHex fails.
MintFails ==
  /\ stage = "minting"
  /\ stage' = "failed"
  /\ UNCHANGED <<form, nonce, rest, detail>>

\* Mutant: the bound is left to the validator.
MutantCutNothing(s) == s

\* Mutant: one byte too many is cut off.
MutantCutOneTooShort(s) ==
  IF Len(s) > MaxDetailLen THEN SubSeq(s, 1, MaxDetailLen - 1) ELSE s

Cut(s) == IF Len(s) > MaxDetailLen THEN SubSeq(s, 1, MaxDetailLen) ELSE s

Mint ==
  /\ stage = "minting"
  /\ stage' = "mapping"
  /\ rest' = Cut(form.detail)
  /\ UNCHANGED <<form, nonce, detail>>

\* The bytes of the rune that s begins with.
RuneLen(s) == IF IsWide(s, 1) THEN Size(Head(s)) ELSE 1

\* Mutant: only what is no text is replaced, as strings.ToValidUTF8 does.
MutantMappedToValid(s) ==
  CASE Head(s) \in {"control", "plain"} -> <<Head(s)>>
    [] IsWide(s, 1) -> SubSeq(s, 1, RuneLen(s))
    [] OTHER        -> Replacement

\* What strings.Map writes for it.
Mapped(s) ==
  CASE Head(s) = "control" -> <<>>
    [] Head(s) = "plain"   -> <<"plain">>
    [] IsWide(s, 1)        -> SubSeq(s, 1, RuneLen(s))
    [] OTHER               -> Replacement

MapRune ==
  /\ stage = "mapping"
  /\ rest # <<>>
  /\ detail' = detail \o Mapped(rest)
  /\ rest' = SubSeq(rest, RuneLen(rest) + 1, Len(rest))
  /\ UNCHANGED <<form, stage, nonce>>

\* store.register: the nonce is free or taken.
Register ==
  /\ stage = "mapping"
  /\ rest = <<>>
  /\ stage' \in {"registered", "duplicate"}
  /\ UNCHANGED <<form, nonce, rest, detail>>

Next == Decode \/ Check \/ MintFails \/ Mint \/ MapRune \/ Register

Spec == Init /\ [][Next]_vars

-----------------------------------------------------------------------------
(***************************************************************************)
(* What becomes of the record: external, net/http on both sides.           *)
(***************************************************************************)

\* ServeMux redirects a path with an empty, "." or ".." segment to a cleaned
\* one; url.PathEscape leaves dots alone and escapes what ends a segment.
Routed(segment) ==
  /\ segment # <<>>
  /\ ~ (Len(segment) <= 2 /\ \A i \in DOMAIN segment : segment[i] = "dot")

\* The client refuses to send a header with a control character other than a
\* tab, which approvald drops too; bytes above 0x7f it sends as they are.
Sendable(s) == \A i \in DOMAIN s : s[i] # "control"

\* Nothing in s is read as U+FFFD for want of a whole rune.
IsText(s) ==
  \A i \in DOMAIN s :
    s[i] \in {"control", "plain"} \/ IsWide(s, i) \/ Continues(s, i)

\* How many of the first n bytes of s are in its whole runes up to there.
WholeBytes(s, n) ==
  CHOOSE k \in 0 .. n :
    /\ ~ Continues(s, k + 1)
    /\ \A m \in k + 2 .. n + 1 : Continues(s, m)

\* The places of the first n bytes of s that no control character is at.
Printed(s, n) == {i \in 1 .. n : s[i] # "control"}

\* d is what the first n bytes of s become, if s is cut after cut bytes: those
\* of its whole runes but for the control characters, each once and in their
\* order, and then one U+FFFD for each byte of the rune that is split.
KeepsBytes(d, s, cut, n) ==
  LET whole == WholeBytes(s, cut)
      kept == IF n < whole THEN n ELSE whole
      printed == Cardinality(Printed(s, kept))
  IN /\ Len(d) = printed + 3 * (n - kept)
     /\ \A i \in Printed(s, kept) : d[Cardinality(Printed(s, i))] = s[i]
     /\ \A k \in 0 .. n - kept - 1 : \A b \in 1 .. 3 :
          d[printed + 3 * k + b] = Replacement[b]

-----------------------------------------------------------------------------
TypeOK ==
  /\ form.nonce \in Seq(Rune) /\ form.detail \in Seq(Byte)
  /\ stage \in Stages
  /\ nonce \in Seq(Rune)
  /\ rest \in Seq(Byte) /\ detail \in Seq(Byte)

\* Whatever detail was sent and wherever it was cut, what is registered has no
\* control character and is text.  With a control character the X-Detail header
\* would be invalid: every publish of the decision would fail before it is
\* sent, every retry too, and the machine would never hear of it.  What is no
\* text, half a rune at the cut for instance, would be sent and reach it.
DetailSendable ==
  stage = "registered" => Sendable(detail) /\ IsText(detail)

\* The cut, although it is made before the mapping and in the middle of a
\* rune, changes nothing before it: a detail that was text is registered as
\* its whole runes up to the cut without the control characters, followed by
\* one U+FFFD for each byte that was left of the rune it split.
DetailKept ==
  (stage = "registered" /\ IsText(form.detail)) =>
    LET cut == IF Len(form.detail) < MaxDetailLen
               THEN Len(form.detail) ELSE MaxDetailLen
    IN KeepsBytes(detail, form.detail, cut, cut)

\* The detail outgrows its bound by no more than the bytes of one split rune
\* can, if it was text, and never more than threefold.
DetailBounded ==
  stage = "registered" =>
    /\ Len(detail) <= 3 * MaxDetailLen
    /\ IsText(form.detail) => Len(detail) <= MaxDetailLen + 6

\* The links of every nonce that is accepted lead back to it: they reach the
\* tap operation, and its parameters decode.
LinksOpen ==
  stage = "registered" => Routed(nonce) /\ Len(nonce) <= MaxNonceRunes
=============================================================================
