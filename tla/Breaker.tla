------------------------------ MODULE Breaker ------------------------------
(***************************************************************************)
(* The circuit breaker of api/client.go as a record and the results of its *)
(* two methods.  clients/ts/index.js has the same one.                     *)
(*                                                                         *)
(* openedAt enters the code only through time.Since(openedAt), so the      *)
(* record keeps the ticks since then, stopped one past the cooldown.  The  *)
(* zero openedAt of a new breaker is longer ago than that.                 *)
(***************************************************************************)
EXTENDS Integers

CONSTANTS
  Threshold,        \* consecutive failures that open the breaker
  Cooldown          \* ticks it stays open

ASSUME BreakerAssumption == Threshold \in Nat /\ Cooldown \in Nat

BreakerState == [failures : Nat, since : 0 .. Cooldown + 1]

NewBreaker == [failures |-> 0, since |-> Cooldown + 1]

\* Mutant: one failure too many.
MutantShutAfterThreshold(b) == b.failures > Threshold /\ b.since <= Cooldown

\* allow returns false.
Shut(b) == b.failures >= Threshold /\ b.since <= Cooldown

\* allow returns true from an open breaker: its cooldown is over.
HalfOpens(b) == b.failures >= Threshold /\ b.since > Cooldown

\* The breaker after an allow that returned true.
Allowed(b) == IF HalfOpens(b) THEN [b EXCEPT !.failures = 0] ELSE b

\* Mutant: every failure of an open breaker opens it again.
MutantTripsAgain(b, failed) == failed /\ b.failures + 1 >= Threshold

\* This failure is the one that opens it.
Trips(b, failed) == failed /\ b.failures + 1 = Threshold

\* Mutant: a success takes one failure back, where there may be none.
MutantSuccessForgivesOne(b, failed) ==
  [ failures |-> IF failed THEN b.failures + 1 ELSE b.failures - 1,
    since    |-> IF Trips(b, failed) THEN 0 ELSE b.since ]

Recorded(b, failed) ==
  [ failures |-> IF failed THEN b.failures + 1 ELSE 0,
    since    |-> IF Trips(b, failed) THEN 0 ELSE b.since ]

\* The breaker a tick later.
Later(b) == [b EXCEPT !.since = IF @ > Cooldown THEN @ ELSE @ + 1]
=============================================================================
