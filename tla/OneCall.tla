------------------------------ MODULE OneCall ------------------------------
(***************************************************************************)
(* What one call over the API promises, without wire, stages, encodings or *)
(* statuses: it asks for one operation once; what is refused never runs,   *)
(* and what runs is never said to be refused; an operation that changes    *)
(* something runs once at most, whatever is sent again; and the caller is  *)
(* told, once, what a run answered, that it was refused, or that nothing   *)
(* is known (a request or an answer was lost, or cannot be understood),    *)
(* which does not stop what was asked for.                                 *)
(***************************************************************************)
CONSTANTS
  Attempts,         \* times the request may be sent
  Operations,
  Changing,         \* the operations that change something
  Replies,          \* of each operation, what a run of it may answer
  None              \* no operation, no answer

VARIABLES
  standing,         \* of the request: "unasked", "granted" or "refused"
  operation,        \* the one it asks for, if any
  answer,           \* of each attempt that ran, what the run answered
  told              \* what the caller was told

vars == <<standing, operation, answer, told>>

Init ==
  /\ standing = "unasked"
  /\ operation = None
  /\ answer = [i \in Attempts |-> None]
  /\ told = None

Ask(o, s) ==
  /\ standing = "unasked"
  /\ told = None
  /\ standing' = s
  /\ operation' = o
  /\ UNCHANGED <<answer, told>>

Run(i, a) ==
  /\ standing = "granted"
  /\ answer[i] = None
  /\ operation \in Changing => \A j \in Attempts : answer[j] = None
  /\ answer' = [answer EXCEPT ![i] = a]
  /\ UNCHANGED <<standing, operation, told>>

Tell(what) ==
  /\ told = None
  /\ told' = what
  /\ UNCHANGED <<standing, operation, answer>>

\* What a run answered, even if that run is not the last.
TellAnswer ==
  \E i \in Attempts : answer[i] # None /\ Tell(answer[i])

TellRefused == standing = "refused" /\ Tell("refused")

TellNothing == standing # "unasked" /\ Tell("unknown")

TellNotAsked == standing = "unasked" /\ Tell("notAsked")

Next ==
  \/ \E o \in Operations : Ask(o, "granted")
  \/ \E o \in Operations \cup {None} : Ask(o, "refused")
  \/ \E i \in Attempts, o \in Operations :
       operation = o /\ \E a \in Replies[o] : Run(i, a)
  \/ TellAnswer \/ TellRefused \/ TellNothing \/ TellNotAsked

Spec == Init /\ [][Next]_vars
=============================================================================
