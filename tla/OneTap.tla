------------------------------- MODULE OneTap -------------------------------
(***************************************************************************)
(* What approvald promises, without nonces, stores, clocks or goroutines:  *)
(* each registration is open until it gets one decision or becomes void;   *)
(* neither is ever taken back; the waiting machine can hear that decision  *)
(* and no other; and ntfy confirms only what can be heard.                 *)
(***************************************************************************)
CONSTANTS Tokens, Decisions

VARIABLES
  phase,      \* of each registration, named by its token
  heard,      \* [token, decision] pairs on the response topic
  confirmed   \* tokens whose publish was acknowledged

vars == <<phase, heard, confirmed>>

Pair(t, d) == [token |-> t, decision |-> d]

Init ==
  /\ phase = [t \in Tokens |-> "unissued"]
  /\ heard = {}
  /\ confirmed = {}

Issue(t) ==
  /\ phase[t] = "unissued"
  /\ phase' = [phase EXCEPT ![t] = "open"]
  /\ UNCHANGED <<heard, confirmed>>

Decide(t, d) ==
  /\ phase[t] = "open"
  /\ phase' = [phase EXCEPT ![t] = d]
  /\ UNCHANGED <<heard, confirmed>>

\* Expiry or a restart closes any number of open registrations at once.
Void ==
  /\ \E S \in SUBSET {t \in Tokens : phase[t] = "open"} :
       phase' = [t \in Tokens |-> IF t \in S THEN "void" ELSE phase[t]]
  /\ UNCHANGED <<heard, confirmed>>

Hear(t, d) ==
  /\ phase[t] = d
  /\ heard' = heard \cup {Pair(t, d)}
  /\ UNCHANGED <<phase, confirmed>>

Confirm(t) ==
  /\ \E d \in Decisions : Pair(t, d) \in heard
  /\ confirmed' = confirmed \cup {t}
  /\ UNCHANGED <<phase, heard>>

Next ==
  \/ \E t \in Tokens : Issue(t) \/ Confirm(t)
  \/ \E t \in Tokens, d \in Decisions : Decide(t, d) \/ Hear(t, d)
  \/ Void

Spec == Init /\ [][Next]_vars
=============================================================================
