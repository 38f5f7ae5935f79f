-------------------------- MODULE HTTPClientProofs --------------------------
(***************************************************************************)
(* The safety of Do and of the breaker for every number of callers, every  *)
(* policy, timeout, threshold and cooldown, and every Retry-After.         *)
(***************************************************************************)
EXTENDS HTTPClient, FiniteSetTheorems, TLAPS

-----------------------------------------------------------------------------
(***************************************************************************)
(* Arithmetic.  Used(n) is the longest that n attempts and the waits after *)
(* them take; it stays folded outside this section.                        *)
(***************************************************************************)
Used(n) == n * (Timeout + LongestWait)

LEMMA Constants ==
  /\ IsFiniteSet(Callers) /\ Cardinality(Callers) \in Nat
  /\ Threshold \in Nat /\ Cooldown \in Nat
  /\ Timeout \in Nat /\ LongestBackoff \in Nat /\ MaxRetryAfter \in Nat
  /\ Backoffs \in Seq(SUBSET (0 .. LongestBackoff)) /\ Len(Backoffs) \in Nat
  /\ Second \in Nat \ {0} /\ Span \in Nat \ {0}
  /\ Headers \subseteq Header /\ NoDelay \notin Int /\ TypeScript \in BOOLEAN
  /\ Faulty \in BOOLEAN /\ Cancels \in BOOLEAN
BY ClientAssumption, BreakerAssumption, RetryAfterAssumption,
   FS_CardinalityType
   DEF ClientAssumption, BreakerAssumption, RetryAfterAssumption

LEMMA LongestWaitIsLongest ==
  /\ LongestWait \in Nat
  /\ LongestBackoff <= LongestWait /\ MaxRetryAfter <= LongestWait
BY Constants DEF LongestWait

LEMMA UsedGrows ==
  ASSUME NEW n \in Nat
  PROVE  /\ Used(n) \in Nat
         /\ Used(n + 1) = Used(n) + Timeout + LongestWait
<1> DEFINE K == Timeout + LongestWait
<1>1. K \in Nat
  BY Constants, LongestWaitIsLongest
<1> HIDE DEF K
<1>2. n * K \in Nat /\ (n + 1) * K = n * K + K
  BY <1>1
<1> QED
  BY <1>2, Constants, LongestWaitIsLongest DEF Used, K

LEMMA UsedMonotone ==
  ASSUME NEW n \in Nat, NEW m \in Nat, n <= m
  PROVE  Used(n) <= Used(m)
<1> DEFINE K == Timeout + LongestWait
<1>1. K \in Nat
  BY Constants, LongestWaitIsLongest
<1> HIDE DEF K
<1>2. m - n \in Nat /\ m = n + (m - n)
  OBVIOUS
<1>3. (m - n) * K \in Nat
  BY <1>1, <1>2
<1>4. m * K = n * K + (m - n) * K
  BY <1>1, <1>2
<1>5. n * K \in Nat /\ m * K \in Nat
  BY <1>1
<1> QED
  BY <1>3, <1>4, <1>5 DEF Used, K

LEMMA LongestCallIsUsed ==
  /\ LongestCall \in Nat
  /\ LongestCall = Used(Len(Backoffs)) + Timeout
<1>1. Used(Len(Backoffs)) \in Nat
  BY Constants, UsedGrows
<1> QED
  BY <1>1, Constants DEF LongestCall, Used

-----------------------------------------------------------------------------
(***************************************************************************)
(* Retry-After.                                                            *)
(***************************************************************************)
LEMMA HeaderTyped ==
  ASSUME NEW h \in Headers \cup {NoHeader}
  PROVE  /\ h \in Header /\ h.value \in Int
         /\ h.syntax \in {"seconds", "date", "lenient", "none"}
         /\ h.syntax = "lenient" => h.value \in Nat
BY Constants DEF Header, NoHeader

\* A product that a Duration holds is not changed by the wrap.
LEMMA WrapsNot ==
  ASSUME NEW x \in Nat, x < Span
  PROVE  Wrapped(x) = x
<1> DEFINE a == x + Span
           m == 2 * Span
<1>1. a \in Nat /\ m \in Nat /\ a < m /\ 0 < m
  BY Constants
<1> HIDE DEF a, m
<1>2. a % m = a
  BY <1>1
<1> QED
  BY <1>2, Constants DEF a, m, Wrapped

LEMMA SecondsGrow ==
  ASSUME NEW n \in Nat
  PROVE  n * Second \in Nat /\ n <= n * Second
<1>1. n * (Second - 1) \in Nat
  BY Constants
<1>2. n * Second = n * (Second - 1) + n
  BY Constants
<1> QED
  BY <1>1, <1>2

LEMMA DelayTyped ==
  ASSUME NEW h \in Headers \cup {NoHeader}
  PROVE  Delay(h) \in Int \cup {NoDelay}
<1>1. h.value \in Int /\ (h.syntax = "lenient" => h.value \in Nat)
  BY HeaderTyped
<1>2. \A d \in Int : /\ NotPast(d) \in Int /\ NotPast(Saturated(d)) \in Int
  BY Constants DEF NotPast, Saturated
<1>3. h.value * Second \in Int
  BY <1>1, Constants
<1> DEFINE p == h.value * Second
<1>4. Wrapped(p) \in Int
  <2> HIDE DEF p
  <2> DEFINE m == 2 * Span
             a == p + Span
  <2>1. a \in Int /\ m \in Nat \ {0}
    BY <1>3, Constants DEF p
  <2> HIDE DEF a, m
  <2>2. a % m \in Int
    BY <2>1
  <2> QED
    BY <2>2, Constants DEF Wrapped, a, m
<1> HIDE DEF p
<1>5. GoDelay(h) \in Int \cup {NoDelay}
  BY <1>1, <1>2, <1>4 DEF GoDelay, p
<1>6. TypeScriptDelay(h) \in Int \cup {NoDelay}
  BY <1>1, <1>2, <1>3 DEF TypeScriptDelay
<1> QED
  BY <1>5, <1>6 DEF Delay

\* Both clients do what the rule says with a Regular header.  With others they
\* need not: a number of seconds whose product wraps, a lenient text.
LEMMA RegularIsExact ==
  ASSUME NEW h \in Headers \cup {NoHeader}, Regular(h)
  PROVE  /\ Obeyed(h) <=> Due(h)
         /\ Due(h) => NotPast(Delay(h)) = Stated(h)
<1>1. h.value \in Int /\ h.syntax \in {"seconds", "date", "none"}
  BY HeaderTyped DEF Regular
<1>2. CASE h.syntax = "seconds"
  <2>1. CASE h.value < 0
    BY <1>1, <1>2, <2>1 DEF Obeyed, Due, Stated, Delay, GoDelay,
       TypeScriptDelay
  <2>2. CASE h.value >= 0
    <3>1. h.value * Second \in Nat /\ h.value <= h.value * Second
      BY <1>1, <2>2, SecondsGrow
    <3>2. Stated(h) = h.value * Second /\ Stated(h) # NoDelay
      BY <1>2, <2>2, <3>1, Constants DEF Stated
    <3>3. TypeScriptDelay(h) = Stated(h)
      BY <1>2, <2>2, <3>2 DEF TypeScriptDelay
    <3>4. ~ TypeScript => GoDelay(h) = Stated(h)
      <4> SUFFICES ASSUME ~ TypeScript PROVE GoDelay(h) = Stated(h)
        OBVIOUS
      <4>1. h.value * Second < Span
        BY <3>2 DEF Regular
      <4>2. h.value \in 0 .. Span - 1
        BY <1>1, <2>2, <3>1, <4>1, Constants
      <4>3. Wrapped(h.value * Second) = h.value * Second
        BY <3>1, <4>1, WrapsNot
      <4> QED
        BY <1>2, <3>2, <4>2, <4>3 DEF GoDelay
    <3>5. Delay(h) = Stated(h)
      BY <3>3, <3>4 DEF Delay
    <3>6. Stated(h) \in Nat
      BY <3>1, <3>2
    <3> QED
      BY <3>2, <3>5, <3>6 DEF Obeyed, Due, NotPast
  <2> QED
    BY <1>1, <2>1, <2>2
<1>3. CASE h.syntax = "date"
  <2>1. Stated(h) = NotPast(h.value) /\ TypeScriptDelay(h) = NotPast(h.value)
    BY <1>3 DEF Stated, TypeScriptDelay
  <2>2. GoDelay(h) = NotPast(Saturated(h.value))
    BY <1>3 DEF GoDelay
  <2>3. Stated(h) \in Nat /\ Stated(h) # NoDelay
    BY <1>1, <2>1, Constants DEF NotPast
  <2>4. Delay(h) = Stated(h)
    <3>1. CASE TypeScript
      BY <2>1, <3>1 DEF Delay
    <3>2. CASE ~ TypeScript
      <4>1. h.value < Span
        BY <1>1, <2>1, <2>3, <3>2, Constants DEF Regular, NotPast
      <4> QED
        BY <1>1, <2>1, <2>2, <3>2, <4>1 DEF Delay, Saturated
    <3> QED
      BY <3>1, <3>2
  <2> QED
    BY <2>3, <2>4 DEF Obeyed, Due, NotPast
<1>4. CASE h.syntax = "none"
  BY <1>4 DEF Obeyed, Due, Stated, Delay, GoDelay, TypeScriptDelay
<1> QED
  BY <1>1, <1>2, <1>3, <1>4

-----------------------------------------------------------------------------
(***************************************************************************)
(* One call.  What is true of it between any two steps.                    *)
(***************************************************************************)

\* A request is sent once per attempt, and only idempotent calls have more
\* than one.
SendsOncePerAttempt(r) ==
  /\ r.sent <= r.attempt + 1
  /\ r.attempt > 0 => r.idempotent
  /\ r.phase = "waiting" => r.attempt < Len(Backoffs) /\ r.idempotent

\* The time a call has taken and may still take before its next step.
InTime(r) ==
  /\ r.phase = "idle" => r.elapsed = 0
  /\ r.phase = "sending" => r.elapsed + r.left <= Used(r.attempt) + Timeout
  /\ r.phase = "waiting" => r.elapsed + r.left <= Used(r.attempt + 1)
  /\ r.phase = "ended" => r.elapsed <= Used(r.attempt) + Timeout

\* A wait of w ticks before retry n is what header h asks for.
RuleKept(h, n, w) ==
  Regular(h) => IF Due(h) THEN w = Stated(h) ELSE w \in Backoffs[n]

AsAsked(r) ==
  /\ r.phase = "waiting" =>
       RuleKept(r.asked, r.attempt + 1, r.waited + r.left)
  /\ (r.phase = "sending" /\ r.attempt > 0) =>
       RuleKept(r.asked, r.attempt, r.waited)

CallOK(r) ==
  r \in CallState /\ SendsOncePerAttempt(r) /\ InTime(r) /\ AsAsked(r)

LEMMA NewCallTyped == NoCall \in CallState
<1>1. /\ 0 \in 0 .. Len(Backoffs) /\ 0 \in 0 .. LongestCall + 1 /\ 0 \in Nat
      /\ NoHeader \in Headers \cup {NoHeader}
  BY Constants, LongestCallIsUsed
<1> QED
  BY <1>1 DEF NoCall, CallState, Phases

LEMMA FreshCallOK ==
  ASSUME NEW o \in Outcomes \cup {"none", "circuitOpen"}
  PROVE  CallOK(NoCall) /\ CallOK(Returned(o))
<1>2. NoCall \in CallState
  BY NewCallTyped
<1>3. Returned(o) \in CallState
  BY <1>2 DEF Returned, CallState
<1>4. CallOK(NoCall)
  BY <1>2 DEF CallOK, NoCall, SendsOncePerAttempt, InTime, AsAsked
<1>5. CallOK(Returned(o))
  BY <1>3
     DEF CallOK, NoCall, Returned, SendsOncePerAttempt, InTime, AsAsked
<1> QED
  BY <1>4, <1>5

\* An attempt begins: the first, or the next after a wait.
LEMMA AttemptOK ==
  ASSUME NEW r \in CallState, healthy \in BOOLEAN,
         r.sent <= r.attempt, r.attempt > 0 => r.idempotent,
         r.elapsed <= Used(r.attempt),
         r.attempt > 0 => RuleKept(r.asked, r.attempt, r.waited)
  PROVE  CallOK(Attempt(r))
<1>1. Used(r.attempt) \in Nat
  BY UsedGrows, Constants DEF CallState
<1>2. Attempt(r) \in CallState
  <2>1. /\ (IF r.cancelled THEN 0 ELSE Timeout) \in Nat
        /\ (IF r.cancelled THEN r.sent ELSE r.sent + 1) \in Nat
    BY Constants DEF CallState
  <2>2. (~ r.cancelled) \in BOOLEAN /\ (~ healthy) \in BOOLEAN
    OBVIOUS
  <2>3. "sending" \in Phases
    BY DEF Phases
  <2> QED
    BY <2>1, <2>2, <2>3 DEF Attempt, CallState
<1>3. SendsOncePerAttempt(Attempt(r))
  BY Constants DEF Attempt, CallState, Phases, SendsOncePerAttempt
<1>4. InTime(Attempt(r))
  BY <1>1, Constants, LongestCallIsUsed DEF Attempt, CallState, InTime
<1>5. AsAsked(Attempt(r))
  <2>1. /\ Attempt(r).phase = "sending" /\ Attempt(r).attempt = r.attempt
        /\ Attempt(r).asked = r.asked /\ Attempt(r).waited = r.waited
    BY DEF Attempt, CallState
  <2> QED
    BY <2>1 DEF AsAsked
<1> QED
  BY <1>2, <1>3, <1>4, <1>5 DEF CallOK

\* Every wait the code may choose is one that LongestWait bounds.
LEMMA WaitsBounded ==
  ASSUME NEW n \in 0 .. Len(Backoffs), n < Len(Backoffs),
         NEW o \in Outcomes, NEW h \in Headers \cup {NoHeader},
         NEW wait \in Waits(n, o, h)
  PROVE  wait \in Nat /\ wait <= LongestWait
<1>1. CASE o # "error" /\ Obeyed(h)
  <2>1. wait = NotPast(Delay(h)) /\ Delay(h) \in Int
        /\ Delay(h) <= MaxRetryAfter
    BY <1>1, DelayTyped DEF Obeyed, Waits
  <2> QED
    BY <2>1, Constants, LongestWaitIsLongest DEF NotPast
<1>2. CASE ~ (o # "error" /\ Obeyed(h))
  <2>1. n + 1 \in 1 .. Len(Backoffs)
    BY Constants
  <2>2. Backoffs[n + 1] \in SUBSET (0 .. LongestBackoff)
    BY <2>1, Constants
  <2>3. wait \in 0 .. LongestBackoff
    BY <1>2, <2>2 DEF Waits
  <2> QED
    BY <2>3, Constants, LongestWaitIsLongest
<1> QED
  BY <1>1, <1>2

\* They are also the ones the rule asks for.
LEMMA WaitsKeepRule ==
  ASSUME NEW n \in 0 .. Len(Backoffs), n < Len(Backoffs),
         NEW o \in Outcomes, NEW h \in Headers \cup {NoHeader},
         NEW wait \in Waits(n, o, h)
  PROVE  RuleKept(IF o = "error" THEN NoHeader ELSE h, n + 1, wait)
<1> DEFINE g == IF o = "error" THEN NoHeader ELSE h
<1>1. SUFFICES ASSUME Regular(g)
               PROVE  IF Due(g) THEN wait = Stated(g)
                      ELSE wait \in Backoffs[n + 1]
  BY DEF RuleKept
<1>2. g \in Headers \cup {NoHeader}
  OBVIOUS
<1>3. /\ Obeyed(g) <=> Due(g)
      /\ Due(g) => NotPast(Delay(g)) = Stated(g)
  <2> HIDE DEF g
  <2> QED
    BY <1>1, <1>2, RegularIsExact
<1>4. CASE o = "error"
  <2>1. ~ Due(g)
    BY <1>4 DEF Due, Stated, NoHeader
  <2> QED
    BY <1>4, <2>1 DEF Waits
<1>5. CASE o # "error"
  BY <1>3, <1>5 DEF Waits
<1> QED
  BY <1>4, <1>5

LEMMA WaitingOK ==
  ASSUME NEW r, CallOK(r), r.phase = "sending",
         NEW o \in Outcomes, WillRetry(r, o),
         NEW wait \in Nat, wait <= LongestWait,
         NEW h \in Headers \cup {NoHeader}, RuleKept(h, r.attempt + 1, wait)
  PROVE  CallOK([r EXCEPT
           !.phase = "waiting", !.left = wait, !.asked = h, !.waited = 0])
<1>1. r \in CallState /\ r.attempt \in Nat /\ r.idempotent
  BY Constants DEF CallOK, CallState, WillRetry, Retryable
<1>2. /\ Used(r.attempt) \in Nat /\ Used(r.attempt + 1) \in Nat
      /\ Used(r.attempt + 1) = Used(r.attempt) + Timeout + LongestWait
  BY <1>1, UsedGrows
<1> DEFINE s == [r EXCEPT
             !.phase = "waiting", !.left = wait, !.asked = h, !.waited = 0]
<1>3. s \in CallState /\ SendsOncePerAttempt(s)
  BY <1>1, Constants
     DEF CallOK, CallState, Phases, SendsOncePerAttempt, WillRetry
<1>4. r.elapsed + r.left <= Used(r.attempt) + Timeout /\ r.elapsed \in Nat
      /\ r.left \in Nat
  BY LongestCallIsUsed DEF CallOK, InTime, CallState
<1>5. InTime(s)
  <2>1. /\ s.phase = "waiting" /\ s.elapsed = r.elapsed /\ s.left = wait
        /\ s.attempt = r.attempt
    BY <1>1 DEF CallState
  <2> HIDE DEF s
  <2> QED
    BY <1>2, <1>4, <2>1, Constants, LongestWaitIsLongest DEF InTime
<1>6. AsAsked(s)
  <2>1. /\ s.phase = "waiting" /\ s.attempt = r.attempt
        /\ s.asked = h /\ s.waited + s.left = wait
    BY <1>1 DEF CallState
  <2> HIDE DEF s
  <2> QED
    BY <2>1 DEF AsAsked
<1> QED
  BY <1>3, <1>5, <1>6 DEF CallOK

LEMMA EndedOK ==
  ASSUME NEW r, CallOK(r), r.phase = "sending", NEW o \in Outcomes
  PROVE  CallOK([r EXCEPT !.phase = "ended", !.left = 0, !.outcome = o])
<1>1. r \in CallState /\ Used(r.attempt) \in Nat
  BY UsedGrows, Constants DEF CallOK, CallState
<1> DEFINE s == [r EXCEPT !.phase = "ended", !.left = 0, !.outcome = o]
<1>2. s \in CallState /\ SendsOncePerAttempt(s)
  BY <1>1, Constants DEF CallOK, CallState, Phases, SendsOncePerAttempt
<1>3. InTime(s)
  BY <1>1, Constants, LongestCallIsUsed DEF CallOK, InTime, CallState
<1>4. AsAsked(s)
  BY <1>1 DEF AsAsked, CallState
<1> QED
  BY <1>2, <1>3, <1>4 DEF CallOK

LEMMA WakeOK ==
  ASSUME NEW r, CallOK(r), healthy \in BOOLEAN,
         r.phase = "waiting", r.left = 0
  PROVE  CallOK(Attempt([r EXCEPT !.attempt = @ + 1]))
<1>1. r \in CallState /\ r.attempt \in Nat /\ r.attempt + 1 <= Len(Backoffs)
  BY Constants DEF CallOK, CallState, SendsOncePerAttempt
<1> DEFINE s == [r EXCEPT !.attempt = @ + 1]
<1>2. s \in CallState /\ s.attempt = r.attempt + 1 /\ s.sent = r.sent
      /\ s.idempotent = r.idempotent /\ s.elapsed = r.elapsed
  <2>1. r.attempt + 1 \in 0 .. Len(Backoffs)
    BY <1>1, Constants
  <2> QED
    BY <1>1, <2>1 DEF CallState
<1>3. r.sent <= r.attempt + 1 /\ r.idempotent
  BY DEF CallOK, SendsOncePerAttempt
<1>4. r.elapsed <= Used(r.attempt + 1)
  BY LongestCallIsUsed DEF CallOK, InTime, CallState
<1>5. RuleKept(s.asked, s.attempt, s.waited)
  <2>1. /\ r.waited + r.left = r.waited /\ s.asked = r.asked
        /\ s.waited = r.waited
    BY <1>1 DEF CallState
  <2>2. RuleKept(r.asked, r.attempt + 1, r.waited + r.left)
    BY DEF CallOK, AsAsked
  <2> HIDE DEF s
  <2> QED
    BY <1>2, <2>1, <2>2
<1> HIDE DEF s
<1>6. CallOK(Attempt(s))
  BY <1>2, <1>3, <1>4, <1>5, AttemptOK
<1> QED
  BY <1>6 DEF s

LEMMA TickOK ==
  ASSUME NEW r, CallOK(r), r.phase \in {"sending", "waiting"}, r.left > 0
  PROVE  CallOK([r EXCEPT
           !.left = @ - 1,
           !.elapsed = IF @ > LongestCall THEN @ ELSE @ + 1,
           !.waited = IF r.phase = "waiting" THEN @ + 1 ELSE @])
<1>1. r \in CallState /\ r.left \in Nat /\ r.elapsed \in 0 .. LongestCall + 1
  BY DEF CallOK, CallState
<1>2. LongestCall \in Nat
  BY LongestCallIsUsed
<1>3. Used(r.attempt) \in Nat /\ Used(r.attempt + 1) \in Nat
  <2>1. r.attempt \in Nat /\ r.attempt + 1 \in Nat
    BY <1>1, Constants DEF CallState
  <2> QED
    BY <2>1, UsedGrows
<1> DEFINE s == [r EXCEPT
             !.left = @ - 1,
             !.elapsed = IF @ > LongestCall THEN @ ELSE @ + 1,
             !.waited = IF r.phase = "waiting" THEN @ + 1 ELSE @]
<1>4. s \in CallState
  <2>1. r.left - 1 \in Nat
    BY <1>1
  <2>2. (IF r.elapsed > LongestCall THEN r.elapsed ELSE r.elapsed + 1)
          \in 0 .. LongestCall + 1
    BY <1>1, <1>2
  <2>3. (IF r.phase = "waiting" THEN r.waited + 1 ELSE r.waited) \in Nat
    BY <1>1 DEF CallState
  <2> QED
    BY <1>1, <2>1, <2>2, <2>3 DEF CallState
<1>5. SendsOncePerAttempt(s)
  BY <1>1 DEF CallOK, CallState, SendsOncePerAttempt
<1>6. InTime(s)
  <2>1. /\ s.phase = r.phase /\ s.attempt = r.attempt
        /\ s.elapsed + s.left <= r.elapsed + r.left
    BY <1>1, <1>2 DEF CallState
  <2>2. s.elapsed \in Nat /\ s.left \in Nat /\ r.elapsed \in Nat
    BY <1>1, <1>2, <1>4 DEF CallState
  <2> HIDE DEF s
  <2> QED
    BY <1>1, <1>3, <2>1, <2>2, Constants DEF CallOK, InTime
<1>7. AsAsked(s)
  <2>1. /\ s.phase = r.phase /\ s.attempt = r.attempt /\ s.asked = r.asked
        /\ s.phase = "waiting" => s.waited + s.left = r.waited + r.left
        /\ s.phase = "sending" => s.waited = r.waited
    BY <1>1 DEF CallState
  <2> HIDE DEF s
  <2> QED
    BY <2>1 DEF CallOK, AsAsked
<1> QED
  BY <1>4, <1>5, <1>6, <1>7 DEF CallOK

LEMMA FlagsOK ==
  ASSUME NEW r, CallOK(r), NEW b \in BOOLEAN
  PROVE  /\ CallOK([r EXCEPT !.cancelled = b])
         /\ CallOK([r EXCEPT !.doubtful = b])
BY DEF CallOK, CallState, SendsOncePerAttempt, InTime, AsAsked

-----------------------------------------------------------------------------
(***************************************************************************)
(* All calls and the breaker.                                              *)
(***************************************************************************)
ActiveCallers == {c \in Callers : Active(c)}

CallsOK == call \in [Callers -> CallState] /\ \A c \in Callers : CallOK(call[c])

\* Every call let through since the last success or half-opening is still
\* active or counted as a failure.
Counted == admitted <= breaker.failures + Cardinality(ActiveCallers)

ClientInv == TypeOK /\ CallsOK /\ Counted /\ Shielded

LEMMA ActiveIsFinite ==
  /\ IsFiniteSet(ActiveCallers) /\ Cardinality(ActiveCallers) \in Nat
  /\ \A c \in Callers : c \notin ActiveCallers =>
       Cardinality(ActiveCallers) < Cardinality(Callers)
<1>1. ActiveCallers \in SUBSET Callers
  BY DEF ActiveCallers
<1>2. IsFiniteSet(ActiveCallers) /\ Cardinality(ActiveCallers) \in Nat
  BY <1>1, Constants, FS_Subset, FS_CardinalityType
<1>3. ASSUME NEW c \in Callers, c \notin ActiveCallers
      PROVE  Cardinality(ActiveCallers) < Cardinality(Callers)
  <2>1. /\ Cardinality(ActiveCallers) <= Cardinality(Callers)
        /\ Cardinality(Callers) = Cardinality(ActiveCallers)
             => Callers = ActiveCallers
    BY <1>1, Constants, FS_Subset
  <2> QED
    BY <1>2, <1>3, <2>1, Constants
<1> QED
  BY <1>2, <1>3

LEMMA OneCallChanges ==
  ASSUME CallsOK, NEW c \in Callers, NEW r, CallOK(r),
         call' = [call EXCEPT ![c] = r]
  PROVE  /\ CallsOK'
         /\ (r.phase # "idle" /\ Active(c)) => ActiveCallers' = ActiveCallers
         /\ (r.phase = "idle" /\ ~ Active(c)) => ActiveCallers' = ActiveCallers
         /\ r.phase # "idle" => ActiveCallers' = ActiveCallers \cup {c}
         /\ r.phase = "idle" => ActiveCallers' = ActiveCallers \ {c}
<1>1. r \in CallState
  BY DEF CallOK
<1>2. CallsOK'
  BY <1>1 DEF CallsOK
<1>3. \A d \in Callers : call'[d] = IF d = c THEN r ELSE call[d]
  BY DEF CallsOK
<1>4. r.phase # "idle" => ActiveCallers' = ActiveCallers \cup {c}
  BY <1>3 DEF ActiveCallers, Active
<1>5. r.phase = "idle" => ActiveCallers' = ActiveCallers \ {c}
  BY <1>3 DEF ActiveCallers, Active
<1>6. Active(c) <=> c \in ActiveCallers
  BY DEF ActiveCallers
<1> QED
  BY <1>2, <1>4, <1>5, <1>6

\* Steps that leave the breaker, its history and who is active alone.
LEMMA QuietSteps ==
  ASSUME ClientInv, CallsOK', healthy' \in BOOLEAN,
         breaker' = breaker, admitted' = admitted, ActiveCallers' = ActiveCallers
  PROVE  ClientInv'
BY DEF ClientInv, TypeOK, CallsOK, Counted, Shielded

LEMMA InitClient == Init => ClientInv
<1> SUFFICES ASSUME Init PROVE ClientInv
  OBVIOUS
<1>1. CallOK(NoCall) /\ NoCall \in CallState
  BY FreshCallOK DEF CallOK
<1>2. CallsOK
  BY <1>1 DEF Init, CallsOK
<1>3. TypeOK
  BY <1>2, Constants DEF Init, TypeOK, CallsOK, NewBreaker, BreakerState
<1>4. Counted
  BY ActiveIsFinite DEF Init, Counted, NewBreaker
<1>5. Shielded
  BY Constants DEF Init, Shielded
<1> QED
  BY <1>2, <1>3, <1>4, <1>5 DEF ClientInv

LEMMA BeginStep ==
  ASSUME ClientInv, NEW c \in Callers, NEW i \in BOOLEAN, Begin(c, i)
  PROVE  ClientInv'
<1> DEFINE s == [NoCall EXCEPT !.idempotent = i]
           r == Attempt(s)
<1>1. s \in CallState /\ s.sent = 0 /\ s.attempt = 0 /\ s.elapsed = 0
  BY FreshCallOK DEF ClientInv, TypeOK, CallOK, CallState, NoCall
<1>2. healthy \in BOOLEAN /\ Used(0) \in Nat
  BY UsedGrows DEF ClientInv, TypeOK
<1> HIDE DEF s
<1>3. CallOK(r)
  BY <1>1, <1>2, AttemptOK
<1>4. call' = [call EXCEPT ![c] = r] /\ r.phase # "idle"
  BY <1>1 DEF Begin, Attempt, CallState, s
<1> HIDE DEF r
<1>5. CallsOK' /\ ActiveCallers' = ActiveCallers \cup {c}
  BY <1>3, <1>4, OneCallChanges DEF ClientInv
<1>6. c \notin ActiveCallers
  BY DEF Begin, ActiveCallers
<1>7. /\ Cardinality(ActiveCallers) \in Nat
      /\ Cardinality(ActiveCallers') = Cardinality(ActiveCallers) + 1
      /\ Cardinality(ActiveCallers) < Cardinality(Callers)
  BY <1>5, <1>6, ActiveIsFinite, FS_AddElement
<1>8. breaker' \in BreakerState /\ healthy' \in BOOLEAN
  BY Constants
     DEF Begin, ClientInv, TypeOK, Allowed, BreakerState
<1>9. admitted' \in Nat
  BY DEF Begin, ClientInv, TypeOK
<1>10. CASE HalfOpens(breaker)
  <2>1. admitted' = 1 /\ breaker'.failures = 0
    BY <1>10 DEF Begin, ClientInv, TypeOK, Allowed, BreakerState
  <2>2. Counted'
    BY <2>1, <1>7 DEF Counted
  <2>3. Shielded'
    BY <2>1, <1>7, Constants DEF Shielded
  <2> QED
    BY <2>2, <2>3, <1>5, <1>8, <1>9 DEF ClientInv, TypeOK, CallsOK
<1>11. CASE ~ HalfOpens(breaker)
  <2>1. /\ admitted' = admitted + 1 /\ admitted \in Nat
        /\ breaker' = breaker /\ breaker.failures \in Nat
        /\ breaker.failures < Threshold
    BY <1>11, Constants DEF Begin, ClientInv, TypeOK, Allowed, BreakerState,
       HalfOpens, Shut
  <2>2. Counted'
    BY <2>1, <1>7 DEF Counted, ClientInv
  <2>3. Shielded'
    BY <2>1, <1>7, Constants DEF Shielded, Counted, ClientInv
  <2> QED
    BY <2>2, <2>3, <1>5, <1>8, <1>9 DEF ClientInv, TypeOK, CallsOK
<1> QED
  BY <1>10, <1>11

LEMMA EndsStep ==
  ASSUME ClientInv, NEW c \in Callers, Ends(c)
  PROVE  ClientInv'
<1> PICK o \in Outcomes, h \in Headers \cup {NoHeader} : AttemptEnds(c, o, h)
  BY DEF Ends
<1>1. /\ CallOK(call[c]) /\ call[c].phase = "sending" /\ CallsOK
      /\ call[c] \in CallState
  BY DEF AttemptEnds, ClientInv, CallsOK
<1>2. healthy' \in BOOLEAN /\ breaker' = breaker /\ admitted' = admitted
  BY DEF AttemptEnds, ClientInv, TypeOK
<1>3. CASE WillRetry(call[c], o)
  <2> DEFINE g == IF o = "error" THEN NoHeader ELSE h
  <2> PICK wait \in Waits(call[c].attempt, o, h) :
        call' = [call EXCEPT ![c].phase = "waiting", ![c].left = wait,
                             ![c].asked = g, ![c].waited = 0]
    BY <1>3 DEF AttemptEnds
  <2>0. g \in Headers \cup {NoHeader}
    OBVIOUS
  <2>1. call[c].attempt \in 0 .. Len(Backoffs)
        /\ call[c].attempt < Len(Backoffs)
    BY <1>1, <1>3 DEF CallState, WillRetry
  <2>2. /\ wait \in Nat /\ wait <= LongestWait
        /\ RuleKept(g, call[c].attempt + 1, wait)
    BY <2>1, WaitsBounded, WaitsKeepRule
  <2> HIDE DEF g
  <2> DEFINE r == [call[c] EXCEPT !.phase = "waiting", !.left = wait,
                                  !.asked = g, !.waited = 0]
  <2>3. CallOK(r)
    BY <1>1, <1>3, <2>0, <2>2, WaitingOK
  <2>4. call' = [call EXCEPT ![c] = r] /\ r.phase # "idle"
    BY <1>1 DEF CallsOK, CallState
  <2> HIDE DEF r
  <2>5. CallsOK' /\ ActiveCallers' = ActiveCallers
    BY <1>1, <2>3, <2>4, OneCallChanges DEF Active
  <2> QED
    BY <1>2, <2>5, QuietSteps
<1>4. CASE ~ WillRetry(call[c], o)
  <2> DEFINE r == [call[c] EXCEPT !.phase = "ended", !.left = 0, !.outcome = o]
  <2>1. CallOK(r)
    BY <1>1, EndedOK
  <2>2. call' = [call EXCEPT ![c] = r] /\ r.phase # "idle"
    BY <1>1, <1>4 DEF AttemptEnds, CallsOK, CallState
  <2> HIDE DEF r
  <2>3. CallsOK' /\ ActiveCallers' = ActiveCallers
    BY <1>1, <2>1, <2>2, OneCallChanges DEF Active
  <2> QED
    BY <1>2, <2>3, QuietSteps
<1> QED
  BY <1>3, <1>4

LEMMA WakeStep ==
  ASSUME ClientInv, NEW c \in Callers, Wake(c)
  PROVE  ClientInv'
<1> DEFINE r == Attempt([call[c] EXCEPT !.attempt = @ + 1])
<1>1. CallOK(call[c]) /\ CallsOK /\ healthy \in BOOLEAN
  BY DEF ClientInv, CallsOK, TypeOK
<1>2. CallOK(r)
  BY <1>1, WakeOK DEF Wake
<1>3. call' = [call EXCEPT ![c] = r]
  BY DEF Wake
<1>4. r.phase # "idle" /\ Active(c)
  BY <1>1 DEF Wake, Attempt, Active, CallOK, CallState
<1> HIDE DEF r
<1>5. CallsOK' /\ ActiveCallers' = ActiveCallers
  BY <1>1, <1>2, <1>3, <1>4, OneCallChanges
<1> QED
  BY <1>1, <1>5, QuietSteps DEF Wake

LEMMA RecordStep ==
  ASSUME ClientInv, NEW c \in Callers, Record(c)
  PROVE  ClientInv'
<1> DEFINE o == call[c].outcome
           r == Returned(o)
           failed == CountsAsFailure(o)
<1>1. o \in Outcomes \cup {"none", "circuitOpen"} /\ CallsOK
  BY DEF ClientInv, CallsOK, CallState
<1>2. CallOK(r) /\ r.phase = "idle"
  BY <1>1, FreshCallOK DEF Returned, NoCall
<1>3. call' = [call EXCEPT ![c] = r]
  BY DEF Record
<1> HIDE DEF r
<1>4. CallsOK' /\ ActiveCallers' = ActiveCallers \ {c}
  BY <1>1, <1>2, <1>3, OneCallChanges
<1>5. c \in ActiveCallers
  BY DEF Record, ActiveCallers, Active
<1>6. /\ Cardinality(ActiveCallers) \in Nat
      /\ Cardinality(ActiveCallers') = Cardinality(ActiveCallers) - 1
      /\ Cardinality(ActiveCallers') \in Nat
  BY <1>4, <1>5, ActiveIsFinite, FS_RemoveElement, FS_CardinalityType
<1>7. breaker' = Recorded(breaker, failed) /\ failed \in BOOLEAN
  BY DEF Record, CountsAsFailure
<1>8. breaker' \in BreakerState /\ healthy' \in BOOLEAN
  BY <1>7, Constants DEF Record, ClientInv, TypeOK, Recorded, BreakerState
<1>9. CASE failed
  <2>1. /\ admitted' = admitted /\ admitted \in Nat
        /\ admitted' \in Nat
        /\ breaker'.failures = breaker.failures + 1 /\ breaker.failures \in Nat
    BY <1>9 DEF Record, ClientInv, TypeOK, Recorded, BreakerState, Trips
  <2>2. Counted' /\ Shielded'
    BY <2>1, <1>6, Constants DEF Counted, Shielded, ClientInv
  <2> QED
    BY <2>1, <2>2, <1>4, <1>8 DEF ClientInv, TypeOK, CallsOK
<1>10. CASE ~ failed
  <2>1. /\ admitted' = 0
        /\ breaker'.failures = 0
    BY <1>10, <1>7 DEF Record, Recorded
  <2>2. Counted' /\ Shielded'
    BY <2>1, <1>6, Constants DEF Counted, Shielded
  <2> QED
    BY <2>1, <2>2, <1>4, <1>8 DEF ClientInv, TypeOK, CallsOK
<1> QED
  BY <1>9, <1>10

LEMMA CancelStep ==
  ASSUME ClientInv, NEW c \in Callers, Cancel(c)
  PROVE  ClientInv'
<1> DEFINE r == [call[c] EXCEPT !.cancelled = TRUE]
<1>1. CallOK(call[c]) /\ CallsOK /\ call[c] \in CallState
  BY DEF ClientInv, CallsOK
<1>2. CallOK(r)
  BY <1>1, FlagsOK
<1>3. call' = [call EXCEPT ![c] = r] /\ r.phase # "idle" /\ Active(c)
  BY <1>1 DEF Cancel, CallsOK, CallState, Active
<1> HIDE DEF r
<1>4. CallsOK' /\ ActiveCallers' = ActiveCallers
  BY <1>1, <1>2, <1>3, OneCallChanges
<1> QED
  BY <1>4, QuietSteps DEF Cancel, ClientInv, TypeOK

LEMMA RefuseStep ==
  ASSUME ClientInv, NEW c \in Callers, Refuse(c)
  PROVE  ClientInv'
<1> DEFINE r == Returned("circuitOpen")
<1>1. CallOK(r) /\ r.phase = "idle"
  BY FreshCallOK DEF Returned, NoCall
<1>2. call' = [call EXCEPT ![c] = r] /\ ~ Active(c) /\ CallsOK
  BY DEF Refuse, ClientInv
<1> HIDE DEF r
<1>3. CallsOK' /\ ActiveCallers' = ActiveCallers
  BY <1>1, <1>2, OneCallChanges
<1> QED
  BY <1>3, QuietSteps DEF Refuse, ClientInv, TypeOK

LEMMA DependencyStep ==
  ASSUME ClientInv, DependencyFails \/ DependencyHeals
  PROVE  ClientInv'
<1>1. CASE DependencyFails
  <2> DEFINE r(c) == [call[c] EXCEPT
               !.doubtful = @ \/ call[c].phase = "sending"]
  <2>1. call' = [c \in Callers |-> r(c)]
    BY <1>1 DEF DependencyFails
  <2>2. ASSUME NEW c \in Callers
        PROVE  /\ CallOK(r(c)) /\ r(c) \in CallState
               /\ r(c).phase = call[c].phase
    <3>1. CallOK(call[c]) /\ call[c] \in CallState
      BY DEF ClientInv, CallsOK
    <3>2. (call[c].doubtful \/ call[c].phase = "sending") \in BOOLEAN
      OBVIOUS
    <3>3. CallOK(r(c))
      BY <3>1, <3>2, FlagsOK
    <3> QED
      BY <3>1, <3>3 DEF CallOK, CallState
  <2> HIDE DEF r
  <2>3. CallsOK'
    BY <2>1, <2>2 DEF CallsOK
  <2>4. ActiveCallers' = ActiveCallers
    BY <2>1, <2>2 DEF ActiveCallers, Active
  <2> QED
    BY <1>1, <2>3, <2>4, QuietSteps DEF DependencyFails
<1>2. CASE DependencyHeals
  <2>1. CallsOK' /\ ActiveCallers' = ActiveCallers
    BY <1>2 DEF DependencyHeals, ClientInv, CallsOK, ActiveCallers, Active
  <2> QED
    BY <1>2, <2>1, QuietSteps DEF DependencyHeals
<1> QED
  BY <1>1, <1>2

LEMMA TickStep ==
  ASSUME ClientInv, Tick
  PROVE  ClientInv'
<1> DEFINE r(c) == IF Active(c)
                   THEN [call[c] EXCEPT
                           !.left = @ - 1,
                           !.elapsed = IF @ > LongestCall THEN @ ELSE @ + 1,
                           !.waited = IF call[c].phase = "waiting"
                                      THEN @ + 1 ELSE @]
                   ELSE call[c]
<1>1. call' = [c \in Callers |-> r(c)]
  BY DEF Tick
<1>2. ASSUME NEW c \in Callers
      PROVE  CallOK(r(c)) /\ r(c) \in CallState /\ r(c).phase = call[c].phase
  <2>1. CallOK(call[c]) /\ call[c] \in CallState
    BY DEF ClientInv, CallsOK
  <2>2. CASE Active(c)
    <3>1. call[c].phase \in {"sending", "waiting"} /\ call[c].left > 0
      BY <2>1, <2>2 DEF Tick, Active, CallState, Phases
    <3>2. CallOK(r(c))
      BY <2>1, <2>2, <3>1, TickOK
    <3> QED
      BY <2>1, <2>2, <3>2 DEF CallOK, CallState
  <2>3. CASE ~ Active(c)
    BY <2>1, <2>3
  <2> QED
    BY <2>2, <2>3
<1> HIDE DEF r
<1>3. CallsOK'
  BY <1>1, <1>2 DEF CallsOK
<1>4. ActiveCallers' = ActiveCallers
  BY <1>1, <1>2 DEF ActiveCallers, Active
<1>5. breaker' \in BreakerState /\ breaker'.failures = breaker.failures
  <2>1. breaker \in BreakerState /\ breaker.since \in 0 .. Cooldown + 1
    BY DEF ClientInv, TypeOK, BreakerState
  <2>2. (IF breaker.since > Cooldown THEN breaker.since ELSE breaker.since + 1)
          \in 0 .. Cooldown + 1
    BY <2>1, Constants
  <2> QED
    BY <2>1, <2>2 DEF Tick, Later, BreakerState
<1>6. healthy' = healthy /\ admitted' = admitted
  BY DEF Tick
<1> QED
  BY <1>3, <1>4, <1>5, <1>6
     DEF ClientInv, TypeOK, CallsOK, Counted, Shielded

LEMMA StepClient == ClientInv /\ [Next]_vars => ClientInv'
<1> SUFFICES ASSUME ClientInv, [Next]_vars PROVE ClientInv'
  OBVIOUS
<1>1. CASE UNCHANGED vars
  <2>1. CallsOK' /\ ActiveCallers' = ActiveCallers
    BY <1>1 DEF vars, ClientInv, CallsOK, ActiveCallers, Active
  <2> QED
    BY <1>1, <2>1, QuietSteps DEF vars, ClientInv, TypeOK
<1>2. CASE Next
  BY <1>2, RefuseStep, BeginStep, EndsStep, WakeStep, RecordStep, CancelStep,
     DependencyStep, TickStep DEF Next
<1> QED
  BY <1>1, <1>2

LEMMA ClientAlways == Spec => []ClientInv
<1>1. Init => ClientInv
  BY InitClient
<1>2. ClientInv /\ [Next]_vars => ClientInv'
  BY StepClient
<1> QED
  BY <1>1, <1>2, PTL DEF Spec

\* Every reachable state of the callers and the breaker is well typed.
THEOREM ClientTypeCorrect == Spec => []TypeOK
<1>1. ClientInv => TypeOK
  BY DEF ClientInv
<1> QED
  BY <1>1, ClientAlways, PTL

\* Do never sends a request that is not idempotent twice, and an idempotent
\* one at most once more than the policy has backoffs.
THEOREM SafeRepeatsHolds == Spec => []SafeRepeats
<1>1. ClientInv => SafeRepeats
  <2> SUFFICES ASSUME ClientInv, NEW c \in Callers
               PROVE  call[c].sent <=
                 (IF call[c].idempotent THEN Len(Backoffs) ELSE 0) + 1
    BY DEF SafeRepeats
  <2> QED
    BY Constants DEF ClientInv, CallsOK, CallOK, CallState,
       SendsOncePerAttempt
<1> QED
  BY <1>1, ClientAlways, PTL

\* No call takes longer than its attempts' timeouts and its longest waits,
\* whatever the server answers and whoever cancels.
THEOREM BoundedTimeHolds == Spec => []BoundedTime
<1>1. ClientInv => BoundedTime
  <2> SUFFICES ASSUME ClientInv, NEW c \in Callers
               PROVE  call[c].elapsed <= LongestCall
    BY DEF BoundedTime
  <2>1. CallOK(call[c]) /\ call[c] \in CallState
    BY DEF ClientInv, CallsOK
  <2>2. /\ call[c].attempt \in Nat /\ call[c].attempt <= Len(Backoffs)
        /\ call[c].elapsed \in Nat /\ call[c].left \in Nat
        /\ call[c].phase \in Phases
    BY <2>1, Constants, LongestCallIsUsed DEF CallState
  <2>3. /\ LongestCall = Used(Len(Backoffs)) + Timeout
        /\ Used(Len(Backoffs)) \in Nat /\ Timeout \in Nat
        /\ Used(call[c].attempt) \in Nat
        /\ Used(call[c].attempt) <= Used(Len(Backoffs))
    BY <2>2, Constants, LongestCallIsUsed, UsedGrows, UsedMonotone
  <2>4. CASE call[c].phase = "waiting"
    <3>1. call[c].attempt + 1 \in Nat /\ call[c].attempt + 1 <= Len(Backoffs)
      BY <2>1, <2>2, <2>4, Constants DEF CallOK, SendsOncePerAttempt
    <3>2. /\ Used(call[c].attempt + 1) \in Nat
          /\ Used(call[c].attempt + 1) <= Used(Len(Backoffs))
      BY <3>1, Constants, UsedGrows, UsedMonotone
    <3> QED
      BY <2>1, <2>2, <2>3, <2>4, <3>2 DEF CallOK, InTime
  <2>5. CASE call[c].phase # "waiting"
    BY <2>1, <2>2, <2>3, <2>5 DEF CallOK, InTime, Phases
  <2> QED
    BY <2>4, <2>5
<1> QED
  BY <1>1, ClientAlways, PTL

\* Between two cooldowns a dependency that does not answer gets at most the
\* failures that open the breaker and what was in flight when it opened.
THEOREM ShieldedHolds == Spec => []Shielded
<1>1. ClientInv => Shielded
  BY DEF ClientInv
<1> QED
  BY <1>1, ClientAlways, PTL

\* Every retry, of either client and under every policy, comes when the
\* server's Retry-After asked for it.
THEOREM WhenAskedHolds == Spec => []WhenAsked
<1>1. ClientInv => WhenAsked
  BY DEF ClientInv, CallsOK, CallOK, AsAsked, RuleKept, WhenAsked
<1> QED
  BY <1>1, ClientAlways, PTL

-----------------------------------------------------------------------------
(***************************************************************************)
(* What the breaker makes of the calls.                                    *)
(***************************************************************************)

\* A call about to be counted as a failure has a reason.
FailedJustly(r) ==
  r.phase = "ended" /\ CountsAsFailure(r.outcome) => r.doubtful \/ r.cancelled

FailuresJust == \A c \in Callers : FailedJustly(call[c])

LEMMA OneCallJust ==
  ASSUME ClientInv, FailuresJust, NEW c \in Callers, NEW r,
         call' = [call EXCEPT ![c] = r], FailedJustly(r)
  PROVE  FailuresJust'
<1>1. \A d \in Callers : call'[d] = IF d = c THEN r ELSE call[d]
  BY DEF ClientInv, TypeOK
<1> QED
  BY <1>1 DEF FailuresJust, FailedJustly

LEMMA EndsJustly ==
  ASSUME ClientInv, FailuresJust, NEW c \in Callers, Ends(c)
  PROVE  FailuresJust'
<1>1. PICK o \in Outcomes, h \in Headers \cup {NoHeader} : AttemptEnds(c, o, h)
  BY DEF Ends
<1>2. call \in [Callers -> CallState] /\ call[c] \in CallState
  BY DEF ClientInv, TypeOK
<1>3. CASE WillRetry(call[c], o)
  <2> DEFINE g == IF o = "error" THEN NoHeader ELSE h
  <2> PICK wait \in Waits(call[c].attempt, o, h) :
        call' = [call EXCEPT ![c].phase = "waiting", ![c].left = wait,
                             ![c].asked = g, ![c].waited = 0]
    BY <1>1, <1>3 DEF AttemptEnds
  <2> HIDE DEF g
  <2> DEFINE r == [call[c] EXCEPT !.phase = "waiting", !.left = wait,
                                  !.asked = g, !.waited = 0]
  <2>1. call' = [call EXCEPT ![c] = r] /\ r.phase = "waiting"
    BY <1>2 DEF CallState
  <2> HIDE DEF r
  <2>2. FailedJustly(r)
    BY <2>1 DEF FailedJustly
  <2> QED
    BY <2>1, <2>2, OneCallJust
<1>4. CASE ~ WillRetry(call[c], o)
  <2> DEFINE r == [call[c] EXCEPT !.phase = "ended", !.left = 0, !.outcome = o]
  <2>1. /\ call' = [call EXCEPT ![c] = r] /\ r.outcome = o
        /\ r.doubtful = call[c].doubtful /\ r.cancelled = call[c].cancelled
    BY <1>1, <1>2, <1>4 DEF AttemptEnds, CallState
  <2> HIDE DEF r
  <2>2. CountsAsFailure(o) => call[c].doubtful \/ call[c].cancelled
    BY <1>1 DEF AttemptEnds, CanEnd, CountsAsFailure
  <2>3. FailedJustly(r)
    BY <2>1, <2>2 DEF FailedJustly
  <2> QED
    BY <2>1, <2>3, OneCallJust
<1> QED
  BY <1>3, <1>4

LEMMA StepJust ==
  ASSUME ClientInv, FailuresJust, [Next]_vars
  PROVE  FailuresJust'
<1>1. call \in [Callers -> CallState]
  BY DEF ClientInv, TypeOK
<1>2. ASSUME NEW c \in Callers, Refuse(c) PROVE FailuresJust'
  <2>1. FailedJustly(Returned("circuitOpen"))
    BY DEF FailedJustly, Returned, NoCall
  <2> QED
    BY <1>2, <2>1, OneCallJust DEF Refuse
<1>3. ASSUME NEW c \in Callers, NEW i \in BOOLEAN, Begin(c, i)
      PROVE  FailuresJust'
  <2>1. FailedJustly(Attempt([NoCall EXCEPT !.idempotent = i]))
    BY DEF FailedJustly, Attempt, NoCall
  <2> QED
    BY <1>3, <2>1, OneCallJust DEF Begin
<1>4. ASSUME NEW c \in Callers, Wake(c) PROVE FailuresJust'
  <2> DEFINE s == [call[c] EXCEPT !.attempt = @ + 1]
  <2>1. DOMAIN s = DOMAIN call[c] /\ Attempt(s).phase = "sending"
    BY <1>1 DEF Attempt, CallState
  <2>2. FailedJustly(Attempt(s))
    BY <2>1 DEF FailedJustly
  <2> QED
    BY <1>4, <2>2, OneCallJust DEF Wake
<1>5. ASSUME NEW c \in Callers, Record(c) PROVE FailuresJust'
  <2>1. FailedJustly(Returned(call[c].outcome))
    BY DEF FailedJustly, Returned, NoCall
  <2> QED
    BY <1>5, <2>1, OneCallJust DEF Record
<1>6. ASSUME NEW c \in Callers, Cancel(c) PROVE FailuresJust'
  <2>1. /\ call' = [call EXCEPT ![c] = [call[c] EXCEPT !.cancelled = TRUE]]
        /\ [call[c] EXCEPT !.cancelled = TRUE].cancelled
    BY <1>1, <1>6 DEF Cancel, CallState
  <2>2. FailedJustly([call[c] EXCEPT !.cancelled = TRUE])
    BY <2>1 DEF FailedJustly
  <2> QED
    BY <2>1, <2>2, OneCallJust
<1>7. CASE DependencyFails
  <2>1. \A c \in Callers :
          /\ call'[c].phase = call[c].phase
          /\ call'[c].outcome = call[c].outcome
          /\ call'[c].cancelled = call[c].cancelled
          /\ call[c].doubtful => call'[c].doubtful
    BY <1>1, <1>7 DEF DependencyFails, CallState
  <2> QED
    BY <2>1 DEF FailuresJust, FailedJustly
<1>8. CASE DependencyHeals
  BY <1>8 DEF DependencyHeals, FailuresJust, FailedJustly
<1>9. CASE Tick
  <2>1. \A c \in Callers : call'[c].phase = call[c].phase
    BY <1>1, <1>9 DEF Tick, CallState
  <2>2. \A c \in Callers : call[c].phase # "ended"
    BY <1>9 DEF Tick
  <2> QED
    BY <2>1, <2>2 DEF FailuresJust, FailedJustly
<1>10. CASE UNCHANGED vars
  BY <1>10 DEF vars, FailuresJust, FailedJustly
<1> QED
  BY <1>2, <1>3, <1>4, <1>5, <1>6, <1>7, <1>8, <1>9, <1>10, EndsJustly DEF Next

\* The breaker's record after each step.
LEMMA BreakerSteps ==
  ASSUME ClientInv, [Next]_vars
  PROVE  \/ breaker' = breaker
         \/ breaker' = Allowed(breaker)
         \/ breaker' = Later(breaker)
         \/ \E c \in Callers :
              /\ Record(c)
              /\ breaker' = Recorded(breaker, CountsAsFailure(call[c].outcome))
BY DEF Next, vars, Refuse, Begin, Ends, AttemptEnds, Wake, Record, Cancel,
   DependencyFails, DependencyHeals, Tick

LEMMA CountsJustlyStep ==
  ASSUME ClientInv, FailuresJust, [Next]_vars
  PROVE  CountsJustly
<1> SUFFICES ASSUME breaker'.failures > breaker.failures
             PROVE  \E c \in Callers :
                      /\ Active(c) /\ ~ Active(c)'
                      /\ call[c].doubtful \/ call[c].cancelled
  BY DEF CountsJustly
<1>1. breaker \in BreakerState /\ breaker.failures \in Nat
  BY DEF ClientInv, TypeOK, BreakerState
<1>2. /\ breaker' # breaker
      /\ breaker' # Allowed(breaker)
      /\ breaker' # Later(breaker)
  BY <1>1 DEF Allowed, Later, BreakerState
<1>3. PICK c \in Callers :
        /\ Record(c)
        /\ breaker' = Recorded(breaker, CountsAsFailure(call[c].outcome))
  BY <1>2, BreakerSteps
<1>4. CountsAsFailure(call[c].outcome)
  BY <1>1, <1>3 DEF Recorded
<1>5. call[c].phase = "ended" /\ (call[c].doubtful \/ call[c].cancelled)
  BY <1>3, <1>4 DEF Record, FailuresJust, FailedJustly
<1>6. call'[c].phase = "idle"
  BY <1>3 DEF Record, Returned, NoCall, ClientInv, TypeOK
<1> QED
  BY <1>5, <1>6 DEF Active

LEMMA KeepsCooldownStep ==
  ASSUME ClientInv, [Next]_vars
  PROVE  KeepsCooldown
<1> SUFFICES ASSUME Shut(breaker)
             PROVE  breaker'.since >= breaker.since
  BY DEF KeepsCooldown
<1>1. /\ breaker \in BreakerState /\ breaker.failures \in Nat
      /\ breaker.since \in Nat /\ Threshold \in Nat
  BY Constants DEF ClientInv, TypeOK, BreakerState
<1>2. Allowed(breaker).since = breaker.since
  BY <1>1 DEF Allowed, BreakerState
<1>3. Later(breaker).since >= breaker.since
  BY <1>1 DEF Later, BreakerState
<1>4. \A failed \in BOOLEAN : Recorded(breaker, failed).since = breaker.since
  <2>1. breaker.failures + 1 # Threshold
    BY <1>1 DEF Shut
  <2> QED
    BY <2>1 DEF Recorded, Trips
<1>5. \A o : CountsAsFailure(o) \in BOOLEAN
  BY DEF CountsAsFailure
<1> QED
  BY <1>1, <1>2, <1>3, <1>4, <1>5, BreakerSteps

\* Nothing but a failure of the dependency, or a caller that gives up, brings
\* the breaker nearer to opening, and an open one becomes ready for a trial on
\* time, whatever calls from before it opened still fail.
THEOREM OpensJustlyHolds == Spec => OpensJustly
<1>1. Init => FailuresJust
  BY DEF Init, FailuresJust, FailedJustly, NoCall
<1>2. ClientInv /\ FailuresJust /\ [Next]_vars => FailuresJust'
  BY StepJust
<1>3. ClientInv /\ FailuresJust /\ [Next]_vars
        => [CountsJustly /\ KeepsCooldown]_vars
  BY CountsJustlyStep, KeepsCooldownStep
<1> QED
  BY <1>1, <1>2, <1>3, ClientAlways, PTL DEF Spec, OpensJustly
=============================================================================
