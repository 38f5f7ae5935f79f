----------------------------- MODULE HTTPClient -----------------------------
(***************************************************************************)
(* Callers that share one HTTPClient, and with it one Breaker, in front of *)
(* one dependency (api/client.go; resilientFetch of clients/ts/index.js is *)
(* the same loop).  A call is a chain of actions of its caller, one for    *)
(* each critical section of the breaker and each wait, so calls, answers   *)
(* that come late, cancellations and the clock interleave.                 *)
(***************************************************************************)
EXTENDS Breaker, RetryAfter, Sequences, FiniteSets

CONSTANTS
  Callers,          \* goroutines that use the client
  Timeout,          \* ticks one attempt may last
  Backoffs,         \* per retry, the waits the policy may choose (jitter)
  LongestBackoff,   \* no backoff is longer
  Faulty,           \* TRUE: the dependency may fail
  Cancels           \* TRUE: callers may cancel their request's context

ASSUME ClientAssumption ==
  /\ IsFiniteSet(Callers)
  /\ Timeout \in Nat
  /\ LongestBackoff \in Nat
  /\ Backoffs \in Seq(SUBSET (0 .. LongestBackoff))
  /\ Faulty \in BOOLEAN
  /\ Cancels \in BOOLEAN

VARIABLES
  breaker,          \* the shared breaker
  call,             \* each caller's current or last call
  healthy,          \* the dependency answers in time and without 5xx
  admitted          \* history: the calls the breaker let through since the
                    \* last success or half-opening

vars == <<breaker, call, healthy, admitted>>

(***************************************************************************)
(* What an attempt came to: an answer with a status that is neither of the *)
(* next two, a 429, a 5xx, or an error instead of an answer.               *)
(***************************************************************************)
Outcomes == {"answered", "tooMany", "serverError", "error"}

\* No wait between two attempts is longer, and no call.
LongestWait ==
  IF LongestBackoff > MaxRetryAfter THEN LongestBackoff ELSE MaxRetryAfter

LongestCall == Len(Backoffs) * (Timeout + LongestWait) + Timeout

\* No answer, or one without a Retry-After.
NoHeader == [syntax |-> "none", value |-> 0]

Phases == {"idle", "sending", "waiting", "ended"}

CallState ==
  [ phase      : Phases,            \* "ended": before the breaker's record
    idempotent : BOOLEAN,
    attempt    : 0 .. Len(Backoffs),
    left       : Nat,               \* ticks to the attempt's or wait's end
    onWire     : BOOLEAN,           \* the attempt's request was sent
    doubtful   : BOOLEAN,           \* the dependency failed meanwhile
    outcome    : Outcomes \cup {"none", "circuitOpen"},
    cancelled  : BOOLEAN,
    sent       : Nat,               \* history: attempts sent
    elapsed    : 0 .. LongestCall + 1,  \* history: ticks the call has taken
    asked      : Headers \cup {NoHeader},  \* history: by the last answer
    waited     : Nat ]              \* history: ticks of the last wait

NoCall ==
  [ phase |-> "idle", idempotent |-> FALSE, attempt |-> 0, left |-> 0,
    onWire |-> FALSE, doubtful |-> FALSE, outcome |-> "none",
    cancelled |-> FALSE, sent |-> 0, elapsed |-> 0,
    asked |-> NoHeader, waited |-> 0 ]

\* A caller whose last Do returned o.
Returned(o) == [NoCall EXCEPT !.outcome = o]

Active(c) == call[c].phase # "idle"

Init ==
  /\ breaker = NewBreaker
  /\ call = [c \in Callers |-> NoCall]
  /\ healthy = TRUE
  /\ admitted = 0

-----------------------------------------------------------------------------
\* A request whose context is done is not sent and fails at once.
Attempt(r) ==
  [ r EXCEPT !.phase    = "sending",
             !.left     = IF r.cancelled THEN 0 ELSE Timeout,
             !.onWire   = ~ r.cancelled,
             !.doubtful = ~ healthy,
             !.sent     = IF r.cancelled THEN @ ELSE @ + 1 ]

Refuse(c) ==
  /\ ~ Active(c)
  /\ Shut(breaker)
  /\ call' = [call EXCEPT ![c] = Returned("circuitOpen")]
  /\ UNCHANGED <<breaker, healthy, admitted>>

Begin(c, idempotent) ==
  /\ ~ Active(c)
  /\ ~ Shut(breaker)
  /\ breaker' = Allowed(breaker)
  /\ call' =
       [call EXCEPT ![c] = Attempt([NoCall EXCEPT !.idempotent = idempotent])]
  /\ admitted' = IF HalfOpens(breaker) THEN 1 ELSE admitted + 1
  /\ UNCHANGED healthy

-----------------------------------------------------------------------------
\* Mutant: the method is not looked at.
MutantRetryableAnyMethod(idempotent, o) ==
  o \in {"error", "tooMany", "serverError"}

\* The policies' Retry: only idempotent methods, only failures.
Retryable(idempotent, o) ==
  idempotent /\ o \in {"error", "tooMany", "serverError"}

\* Only an answer carries the header.  time.Sleep and setTimeout return at
\* once when they are given a negative delay.
Waits(n, o, h) ==
  IF o # "error" /\ Obeyed(h) THEN {NotPast(Delay(h))} ELSE Backoffs[n + 1]

\* External: how the dependency and the network may end an attempt.
CanEnd(r, o) ==
  \/ o \in {"answered", "tooMany"} /\ r.onWire
  \/ o = "serverError" /\ r.onWire /\ r.doubtful
  \/ o = "error" /\ (r.doubtful \/ r.cancelled)

WillRetry(r, o) == r.attempt < Len(Backoffs) /\ Retryable(r.idempotent, o)

AttemptEnds(c, o, h) ==
  /\ call[c].phase = "sending"
  /\ CanEnd(call[c], o)
  /\ \/ /\ WillRetry(call[c], o)
        /\ \E wait \in Waits(call[c].attempt, o, h) :
             call' = [call EXCEPT
               ![c].phase = "waiting", ![c].left = wait,
               ![c].asked = IF o = "error" THEN NoHeader ELSE h,
               ![c].waited = 0]
     \/ /\ ~ WillRetry(call[c], o)
        /\ call' = [call EXCEPT
             ![c].phase = "ended", ![c].left = 0, ![c].outcome = o]
  /\ UNCHANGED <<breaker, healthy, admitted>>

Wake(c) ==
  /\ call[c].phase = "waiting"
  /\ call[c].left = 0
  /\ call' =
       [call EXCEPT ![c] = Attempt([call[c] EXCEPT !.attempt = @ + 1])]
  /\ UNCHANGED <<breaker, healthy, admitted>>

\* Mutant: a rate limit counts against the dependency.
MutantCountsRateLimits(o) == o \in {"error", "serverError", "tooMany"}

CountsAsFailure(o) == o \in {"error", "serverError"}

Record(c) ==
  LET failed == CountsAsFailure(call[c].outcome) IN
  /\ call[c].phase = "ended"
  /\ breaker' = Recorded(breaker, failed)
  /\ call' = [call EXCEPT ![c] = Returned(@.outcome)]
  /\ admitted' = IF failed THEN admitted ELSE 0
  /\ UNCHANGED healthy

-----------------------------------------------------------------------------
Cancel(c) ==
  /\ Cancels
  /\ Active(c)
  /\ ~ call[c].cancelled
  /\ call' = [call EXCEPT ![c].cancelled = TRUE]
  /\ UNCHANGED <<breaker, healthy, admitted>>

DependencyFails ==
  /\ Faulty
  /\ healthy
  /\ healthy' = FALSE
  /\ call' = [c \in Callers |->
       [call[c] EXCEPT !.doubtful = @ \/ call[c].phase = "sending"]]
  /\ UNCHANGED <<breaker, admitted>>

DependencyHeals ==
  /\ ~ healthy
  /\ healthy' = TRUE
  /\ UNCHANGED <<breaker, call, admitted>>

\* Mutant: an http.Client without a timeout.
MutantTickWithoutTimeout ==
  /\ \A c \in Callers :
       call[c].phase \in {"sending", "waiting"} => call[c].left > 0
  /\ \A c \in Callers : call[c].phase # "ended"
  /\ breaker' = Later(breaker)
  /\ call' = [c \in Callers |->
       IF call[c].phase = "waiting" THEN [call[c] EXCEPT !.left = @ - 1]
       ELSE call[c]]
  /\ UNCHANGED <<healthy, admitted>>

\* A tick passes only where the code waits: not between the end of an
\* attempt and the next step, nor past a deadline.
Tick ==
  /\ \A c \in Callers :
       call[c].phase \in {"sending", "waiting"} => call[c].left > 0
  /\ \A c \in Callers : call[c].phase # "ended"
  /\ breaker' = Later(breaker)
  /\ call' = [c \in Callers |->
       IF Active(c)
       THEN [call[c] EXCEPT
               !.left = @ - 1,
               !.elapsed = IF @ > LongestCall THEN @ ELSE @ + 1,
               !.waited = IF call[c].phase = "waiting" THEN @ + 1 ELSE @]
       ELSE call[c]]
  /\ UNCHANGED <<healthy, admitted>>

Ends(c) ==
  \E o \in Outcomes, h \in Headers \cup {NoHeader} : AttemptEnds(c, o, h)

Next ==
  \/ \E c \in Callers :
       \/ Refuse(c)
       \/ \E idempotent \in BOOLEAN : Begin(c, idempotent)
       \/ Ends(c)
       \/ Wake(c)
       \/ Record(c)
       \/ Cancel(c)
  \/ DependencyFails
  \/ DependencyHeals
  \/ Tick

\* The attempt's deadline is up.
TimesOut(c) == call[c].left = 0 /\ Ends(c)

Spec == Init /\ [][Next]_vars

\* Time passes however busy the callers are, and goroutines with something
\* to do are scheduled.  Nothing is assumed of the dependency: an attempt
\* ends at its deadline at the latest.
FairSpec ==
  /\ Spec
  /\ SF_vars(Tick)
  /\ \A c \in Callers : WF_vars(TimesOut(c) \/ Wake(c) \/ Record(c))

-----------------------------------------------------------------------------
TypeOK ==
  /\ breaker \in BreakerState
  /\ call \in [Callers -> CallState]
  /\ healthy \in BOOLEAN
  /\ admitted \in Nat

\* Do sends a request again only where that cannot apply it twice: at most
\* once if its method is not idempotent, and never more often than the
\* policy has backoffs, however attempts end and whoever cancels.
SafeRepeats ==
  \A c \in Callers :
    call[c].sent <= (IF call[c].idempotent THEN Len(Backoffs) ELSE 0) + 1

\* No server can park a caller inside Do: not with a slow answer, not with
\* its Retry-After, not with both on every attempt.
BoundedTime == \A c \in Callers : call[c].elapsed <= LongestCall

\* Whatever the interleaving of allow and record, a dependency whose calls
\* do not succeed gets at most this many of them between two cooldowns: the
\* failures that open the breaker, the last of them with every other caller
\* in flight.
Shielded ==
  Threshold > 0 => admitted <= Threshold - 1 + Cardinality(Callers)

\* A retry comes when the server asked for it, neither sooner nor later,
\* and after one of the policy's waits where the server asked for nothing
\* or for longer than the client waits: whatever else the calls, the breaker
\* and the clock do meanwhile.
WhenAsked ==
  \A c \in Callers :
    call[c].phase = "sending" /\ call[c].attempt > 0 /\ Regular(call[c].asked)
    => IF Due(call[c].asked) THEN call[c].waited = Stated(call[c].asked)
       ELSE call[c].waited \in Backoffs[call[c].attempt]

\* Only a call that ends in a failure of the dependency during its last
\* attempt, or that its own caller cancelled, is counted: neither a rate
\* limit nor an answer in time helps to open the breaker.
CountsJustly ==
  breaker'.failures > breaker.failures =>
    \E c \in Callers :
      /\ Active(c) /\ ~ Active(c)'
      /\ call[c].doubtful \/ call[c].cancelled

\* The cooldown of an open breaker runs out.
KeepsCooldown == Shut(breaker) => breaker'.since >= breaker.since

\* No step brings the breaker nearer to opening, or keeps it open for longer,
\* without a reason: not an answer that comes in time, and not the failures
\* of calls that were in flight when it opened, however many and late.
OpensJustly == [][CountsJustly /\ KeepsCooldown]_vars

\* Every Do returns, whatever the dependency and the other callers do.
CallsEnd == \A c \in Callers : Active(c) ~> ~ Active(c)

\* Once the dependency is well for good, so is the breaker: answers that
\* were lost before cannot keep it opening.
Recovers == <>[]healthy => <>[](~ Shut(breaker))
=============================================================================
