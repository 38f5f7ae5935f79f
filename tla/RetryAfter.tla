----------------------------- MODULE RetryAfter -----------------------------
(***************************************************************************)
(* What the two clients make of a Retry-After header: retryAfter of        *)
(* api/client.go, in the arithmetic of a time.Duration, and retryAfterMs   *)
(* of clients/ts/index.js, in floating point and with more lenient parsers.*)
(*                                                                         *)
(* A header is what it says, not its text: a decimal number of seconds, an *)
(* HTTP-date so many ticks from now, a text that only the TypeScript       *)
(* client's Number or Date.parse accepts ("0x10", "1.5") with the ticks it *)
(* takes it for, or nothing either client can use.                         *)
(***************************************************************************)
EXTENDS Integers

CONSTANTS
  Second,           \* ticks in a second
  Span,             \* a Duration is at least -Span and less than Span
  MaxRetryAfter,    \* the longest Retry-After the client obeys
  Headers,          \* what servers may send
  NoDelay,          \* nothing to obey
  TypeScript        \* TRUE: the TypeScript client, FALSE: the Go client

Header ==
  [syntax : {"seconds", "date", "none"}, value : Int]
    \cup [syntax : {"lenient"}, value : Nat]

ASSUME RetryAfterAssumption ==
  /\ Second \in Nat \ {0}
  /\ Span \in Nat \ {0}
  /\ MaxRetryAfter \in 0 .. Span - 1
  /\ Headers \subseteq Header
  /\ NoDelay \notin Int
  /\ TypeScript \in BOOLEAN

NotPast(d) == IF d < 0 THEN 0 ELSE d

\* A product of two Durations wraps; a difference of two Times does not.
Wrapped(d) == ((d + Span) % (2 * Span)) - Span

Saturated(d) == IF d < Span THEN d ELSE Span - 1

\* Mutant: the seconds are not multiplied by time.Second.
MutantGoDelayOfNanoseconds(h) ==
  CASE h.syntax = "seconds" /\ h.value \in 0 .. Span - 1 -> h.value
    [] h.syntax = "date" -> NotPast(Saturated(h.value))
    [] OTHER -> NoDelay

\* strconv.Atoi fails for what is no int64, and what then is no date either.
GoDelay(h) ==
  CASE h.syntax = "seconds" /\ h.value \in 0 .. Span - 1 ->
         Wrapped(h.value * Second)
    [] h.syntax = "date" -> NotPast(Saturated(h.value))
    [] OTHER -> NoDelay

\* Mutant: a number is taken for ticks.
MutantTypeScriptDelayOfMilliseconds(h) ==
  CASE h.syntax = "seconds" /\ h.value >= 0 -> h.value
    [] h.syntax = "date" -> NotPast(h.value)
    [] h.syntax = "lenient" -> h.value
    [] OTHER -> NoDelay

TypeScriptDelay(h) ==
  CASE h.syntax = "seconds" /\ h.value >= 0 -> h.value * Second
    [] h.syntax = "date" -> NotPast(h.value)
    [] h.syntax = "lenient" -> h.value
    [] OTHER -> NoDelay

Delay(h) == IF TypeScript THEN TypeScriptDelay(h) ELSE GoDelay(h)

\* Mutant: no cap.
MutantObeyedWithoutCap(h) == Delay(h) # NoDelay

\* retryAfter returns ok, retryAfterMs not undefined.
Obeyed(h) == Delay(h) # NoDelay /\ Delay(h) <= MaxRetryAfter

-----------------------------------------------------------------------------
(***************************************************************************)
(* The rule the comments of both functions state: the delay the server     *)
(* named, unless the header is absent, unparseable or further away than    *)
(* the maximum.                                                            *)
(***************************************************************************)
Stated(h) ==
  CASE h.syntax = "seconds" /\ h.value >= 0 -> h.value * Second
    [] h.syntax = "date" -> NotPast(h.value)
    [] OTHER -> NoDelay

\* The headers the rule speaks of are RFC 9110's.  Not for the Go client: a
\* delay that no Duration holds.
Regular(h) ==
  /\ h.syntax # "lenient"
  /\ (Stated(h) # NoDelay /\ ~ TypeScript) => Stated(h) < Span

Due(h) == Stated(h) # NoDelay /\ Stated(h) <= MaxRetryAfter
=============================================================================
