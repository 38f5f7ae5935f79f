------------------------------ MODULE Rollout ------------------------------
(***************************************************************************)
(* approvald deployed: a rollout starts a second pod, with a store of its  *)
(* own, and stops the first with SIGTERM, while callers register nonces    *)
(* and tap links and the two pods' handlers publish to one response topic  *)
(* (main.go, deploy/approvald/deployment.yaml, over approval.go).          *)
(*                                                                         *)
(* A pod that got SIGTERM has no listener.  It serves the requests on the  *)
(* connections it holds, and exits when none is left or when the drain's   *)
(* deadline passes; its store is gone then.                                *)
(***************************************************************************)
EXTENDS ApprovalStore

CONSTANTS
  Pods,             \* pods the Deployment may run, a name reused after exit
  Callers,          \* the waiting machine and the phones
  None,             \* no pod, no token
  HeaderTimeout,    \* ReadHeaderTimeout, in ticks
  ReadTimeout,      \* ReadTimeout: headers and body
  PublishTimeout,   \* the publish deadline
  DrainTimeout,     \* the context given to srv.Shutdown
  GracePeriod       \* terminationGracePeriodSeconds

ASSUME RolloutAssumption ==
  /\ None \notin Pods \cup Tokens
  /\ {HeaderTimeout, ReadTimeout, PublishTimeout, DrainTimeout, GracePeriod}
       \subseteq Nat
  /\ HeaderTimeout + PublishTimeout < DrainTimeout
  /\ ReadTimeout < DrainTimeout
  /\ DrainTimeout <= GracePeriod

VARIABLES
  pods,      \* each pod's phase, and the ticks since its SIGTERM
  stores,    \* each pod's map, nonce -> record
  callers,   \* each caller's request, or how its last one ended
  topic,     \* [token, decision] pairs ntfy accepted
  limbo,     \* pairs sent by attempts that failed, not yet accepted
  issued,    \* history: the nonce of each link handed out, by its token
  verdicts,  \* history: [token, decision] pairs, one for each deciding tap
  told,      \* history: tokens of taps answered "Could not notify"
  acked      \* history: tokens whose publish ntfy acknowledged

vars == <<pods, stores, callers, topic, limbo, issued, verdicts, told, acked>>
history == <<issued, verdicts, told, acked>>

-----------------------------------------------------------------------------
Phases == {"absent", "ready", "draining"}
PodState == [phase : Phases, since : 0 .. DrainTimeout]
Absent == [phase |-> "absent", since |-> 0]

\* A form's or a tap's request is being read, or a tap's handler is publishing,
\* has ntfy's acknowledgement, or has an error.
InFlightPcs == {"sendingForm", "sendingTap", "publishing", "acked", "errored"}
\* Other callers are idle, with whatever answer they got, told a link they hold
\* is unknown, or without an answer because the process exited.
Endings == {"idle", "notFound", "cut"}

Idle ==
  [ pc |-> "idle", pod |-> None, token |-> None, decision |-> Undecided,
    left |-> 0, delivered |-> FALSE ]

CallerState ==
  [ pc        : InFlightPcs \cup Endings,
    pod       : Pods \cup {None},
    token     : Tokens \cup {None},
    decision  : Decisions \cup {Undecided},
    left      : 0 .. (HeaderTimeout + ReadTimeout + PublishTimeout),
    delivered : BOOLEAN ]

Pair == [token : Tokens, decision : Decisions]

InFlight(c) == callers[c].pc \in InFlightPcs
InFlightOn(c, p) == InFlight(c) /\ callers[c].pod = p
PairOf(c) == [token |-> callers[c].token, decision |-> callers[c].decision]

\* One pod has been rolled out, and everything else is new.
Init ==
  /\ \E p \in Pods :
       pods = [q \in Pods |-> IF q = p THEN [Absent EXCEPT !.phase = "ready"]
                                        ELSE Absent]
  /\ stores = [p \in Pods |-> EmptyStore]
  /\ callers = [c \in Callers |-> Idle]
  /\ topic = {}
  /\ limbo = {}
  /\ issued = EmptyStore
  /\ verdicts = {}
  /\ told = {}
  /\ acked = {}

-----------------------------------------------------------------------------
(***************************************************************************)
(* The rollout: maxSurge 1 and maxUnavailable 0 at one replica.            *)
(***************************************************************************)
\* A new pod has started, and its probe of /healthz has succeeded.
Surge(p) ==
  /\ pods[p].phase = "absent"
  /\ \E q \in Pods : \A r \in Pods : pods[r].phase = "ready" <=> r = q
  /\ pods' = [pods EXCEPT ![p].phase = "ready"]
  /\ UNCHANGED <<stores, callers, topic, limbo, history>>

\* SIGTERM: srv.Shutdown closes the listener and waits for the connections.
Terminate(p) ==
  /\ pods[p].phase = "ready"
  /\ \E q \in Pods \ {p} : pods[q].phase = "ready"
  /\ pods' = [pods EXCEPT ![p] = [phase |-> "draining", since |-> 0]]
  /\ UNCHANGED <<stores, callers, topic, limbo, history>>

Drained(p) == \A c \in Callers : ~ InFlightOn(c, p)
Overdue(p) == pods[p].since >= DrainTimeout \/ pods[p].since >= GracePeriod

MutantMayExitOnceClosed(p) == pods[p].phase = "draining"
\* Shutdown has returned, with or without an error, and idle is closed, or the
\* kubelet sends SIGKILL.
MayExit(p) == pods[p].phase = "draining" /\ (Drained(p) \/ Overdue(p))

\* main returns: the store is gone, and so is whoever was still being served.
Exit(p) ==
  /\ MayExit(p)
  /\ pods' = [pods EXCEPT ![p] = Absent]
  /\ stores' = [stores EXCEPT ![p] = EmptyStore]
  /\ callers' = [c \in Callers |->
       IF InFlightOn(c, p)
       THEN [Idle EXCEPT !.pc = "cut", !.token = callers[c].token]
       ELSE callers[c]]
  /\ UNCHANGED <<topic, limbo, history>>

-----------------------------------------------------------------------------
(***************************************************************************)
(* A caller opens a connection, and its request arrives before the read    *)
(* deadline or the server gives up on it.  The deadlines start with the    *)
(* connection, so a request may be read long after SIGTERM.  The Service   *)
(* may pick either pod that listens; a connection to one that does not is  *)
(* refused and changes nothing here.                                       *)
(***************************************************************************)
Step(c, r) == callers' = [callers EXCEPT ![c] = r]
Answer(c) == Step(c, Idle)

MutantReadFor(pc) == ReadTimeout
\* How long the server reads a request: a tap has no body.
ReadFor(pc) == IF pc = "sendingForm" THEN ReadTimeout ELSE HeaderTimeout

Connect(c, p, pc) ==
  /\ ~ InFlight(c)
  /\ pods[p].phase = "ready"
  /\ Step(c, [Idle EXCEPT !.pc = pc, !.pod = p, !.left = ReadFor(pc)])
  /\ UNCHANGED <<pods, stores, topic, limbo, history>>

GivesUp(c) ==
  /\ callers[c].pc \in {"sendingForm", "sendingTap"}
  /\ callers[c].left = 0
  /\ Answer(c)
  /\ UNCHANGED <<pods, stores, topic, limbo, history>>

-----------------------------------------------------------------------------
(***************************************************************************)
(* POST /register, at the pod the connection leads to.                     *)
(***************************************************************************)
Register(c, n, tok, det) ==
  LET p == callers[c].pod IN
  /\ callers[c].pc = "sendingForm"
  /\ n \notin DOMAIN stores[p]
  /\ tok \notin DOMAIN issued
  /\ stores' = [stores EXCEPT ![p] = Put(@, n, NewRequest(tok, det))]
  /\ issued' = Put(issued, tok, n)
  /\ Answer(c)
  /\ UNCHANGED <<pods, topic, limbo, verdicts, told, acked>>

RegisterDuplicate(c, n) ==
  /\ callers[c].pc = "sendingForm"
  /\ n \in DOMAIN stores[callers[c].pod]
  /\ Answer(c)
  /\ UNCHANGED <<pods, stores, topic, limbo, history>>

-----------------------------------------------------------------------------
(***************************************************************************)
(* POST to a link that was handed out: store.decide of the pod it reached. *)
(***************************************************************************)
Claim(c, tok, d) ==
  Step(c, [callers[c] EXCEPT !.pc = "publishing", !.token = tok, !.decision = d,
                             !.left = PublishTimeout])

TapUnknown(c, s, n, tok) ==
  /\ ~ Valid(s, n, tok)
  /\ Step(c, [Idle EXCEPT !.pc = "notFound", !.token = tok])
  /\ UNCHANGED <<stores, verdicts>>

TapExpired(c, s, n, tok) ==
  /\ Valid(s, n, tok)
  /\ s[n].decided = Undecided
  /\ ~ Decidable(s[n])
  /\ Answer(c)
  /\ UNCHANGED <<stores, verdicts>>

TapDecides(c, s, n, tok, d) ==
  /\ Valid(s, n, tok)
  /\ Decidable(s[n])
  /\ stores' = [stores EXCEPT ![callers[c].pod] = Put(s, n, Settled(s[n], d))]
  /\ verdicts' = verdicts \cup {[token |-> tok, decision |-> d]}
  /\ Claim(c, tok, d)

TapRetries(c, s, n, tok) ==
  /\ Valid(s, n, tok)
  /\ Owes(s[n])
  /\ stores' = [stores EXCEPT ![callers[c].pod] = Put(s, n, Claimed(s[n]))]
  /\ Claim(c, tok, s[n].decided)
  /\ UNCHANGED verdicts

TapReplayed(c, s, n, tok) ==
  /\ Valid(s, n, tok)
  /\ s[n].decided # Undecided
  /\ ~ Owes(s[n])
  /\ Answer(c)
  /\ UNCHANGED <<stores, verdicts>>

Tap(c, tok, d) ==
  LET s == stores[callers[c].pod]
      n == issued[tok]
  IN
  /\ callers[c].pc = "sendingTap"
  /\ \/ TapUnknown(c, s, n, tok)
     \/ TapExpired(c, s, n, tok)
     \/ TapDecides(c, s, n, tok, d)
     \/ TapRetries(c, s, n, tok)
     \/ TapReplayed(c, s, n, tok)
  /\ UNCHANGED <<pods, topic, limbo, issued, told, acked>>

-----------------------------------------------------------------------------
(***************************************************************************)
(* The rest of server.decide.  publish runs under a context of its own, so *)
(* neither the caller nor the drain cancels it.                            *)
(***************************************************************************)
NtfyAccepts(c) ==
  /\ callers[c].pc = "publishing"
  /\ ~ callers[c].delivered
  /\ topic' = topic \cup {PairOf(c)}
  /\ Step(c, [callers[c] EXCEPT !.delivered = TRUE])
  /\ UNCHANGED <<pods, stores, limbo, history>>

PublishSucceeds(c) ==
  /\ callers[c].pc = "publishing"
  /\ callers[c].delivered
  /\ Step(c, [callers[c] EXCEPT !.pc = "acked"])
  /\ acked' = acked \cup {callers[c].token}
  /\ UNCHANGED <<pods, stores, topic, limbo, issued, verdicts, told>>

PublishFails(c) ==
  /\ callers[c].pc = "publishing"
  /\ Step(c, [callers[c] EXCEPT !.pc = "errored"])
  /\ \/ UNCHANGED limbo
     \/ ~ callers[c].delivered /\ limbo' = limbo \cup {PairOf(c)}
  /\ UNCHANGED <<pods, stores, topic, history>>

Marks(c) ==
  LET p == callers[c].pod
      tok == callers[c].token IN
  /\ callers[c].pc = "acked"
  /\ stores' = [stores EXCEPT ![p] = MarkPublished(@, issued[tok])]
  /\ Answer(c)
  /\ UNCHANGED <<pods, topic, limbo, history>>

Releases(c) ==
  LET p == callers[c].pod
      tok == callers[c].token IN
  /\ callers[c].pc = "errored"
  /\ stores' = [stores EXCEPT ![p] = ReleasePublish(@, issued[tok])]
  /\ told' = told \cup {tok}
  /\ Answer(c)
  /\ UNCHANGED <<pods, topic, limbo, issued, verdicts, acked>>

HandlerStep(c) ==
  \/ GivesUp(c)
  \/ PublishSucceeds(c)
  \/ PublishFails(c)
  \/ Marks(c)
  \/ Releases(c)

LateArrival ==
  /\ \E m \in limbo :
       /\ limbo' = limbo \ {m}
       /\ topic' = topic \cup {m}
  /\ UNCHANGED <<pods, stores, callers, history>>

-----------------------------------------------------------------------------
Reap(p) ==
  /\ \E n \in DOMAIN stores[p] : Collectable(stores[p][n])
  /\ stores' = [stores EXCEPT ![p] = Reaped(@)]
  /\ UNCHANGED <<pods, callers, topic, limbo, history>>

\* A deadline ends what it bounds when it passes, and a process that may exit
\* does so well within a tick: time waits for both.
Tick ==
  /\ \A c \in Callers : InFlight(c) => callers[c].left > 0
  /\ \A p \in Pods : ~ MayExit(p)
  /\ pods' = [p \in Pods |->
       IF pods[p].phase = "draining" THEN [pods[p] EXCEPT !.since = @ + 1]
       ELSE pods[p]]
  /\ callers' = [c \in Callers |->
       IF InFlight(c) THEN [callers[c] EXCEPT !.left = @ - 1] ELSE callers[c]]
  /\ stores' = [p \in Pods |-> Aged(stores[p])]
  /\ UNCHANGED <<topic, limbo, history>>

Next ==
  \/ \E p \in Pods : Surge(p) \/ Terminate(p) \/ Exit(p) \/ Reap(p)
  \/ \E c \in Callers, p \in Pods, pc \in {"sendingForm", "sendingTap"} :
       Connect(c, p, pc)
  \/ \E c \in Callers : HandlerStep(c) \/ NtfyAccepts(c)
  \/ \E c \in Callers, n \in Nonces, tok \in Tokens, det \in Details :
       Register(c, n, tok, det)
  \/ \E c \in Callers, n \in Nonces : RegisterDuplicate(c, n)
  \/ \E c \in Callers, tok \in DOMAIN issued, d \in Decisions : Tap(c, tok, d)
  \/ LateArrival
  \/ Tick

Spec == Init /\ [][Next]_vars

-----------------------------------------------------------------------------
TypeOK ==
  /\ pods \in [Pods -> PodState]
  /\ DOMAIN stores = Pods /\ \A p \in Pods : IsStore(stores[p])
  /\ callers \in [Callers -> CallerState]
  /\ topic \subseteq Pair
  /\ limbo \subseteq Pair
  /\ DOMAIN issued \subseteq Tokens /\ issued \in [DOMAIN issued -> Nonces]
  /\ verdicts \subseteq Pair
  /\ told \subseteq Tokens
  /\ acked \subseteq Tokens

\* "Without this, SIGTERM kills in-flight requests on every deploy": no
\* deadline of a request outlasts the drain, so none is ever cut short.
NoneCut == \A c \in Callers : callers[c].pc # "cut"

\* Whatever the rollout does between a decision and its publish, a decision the
\* machine cannot hear has a tap under way or was answered "Could not notify".
NotStranded ==
  \A v \in verdicts :
    \/ v \in topic
    \/ v.token \in told
    \/ \E c \in Callers : InFlight(c) /\ PairOf(c) = v

-----------------------------------------------------------------------------
OpenIn(s, tok) ==
  \E n \in DOMAIN s :
    /\ s[n].token = tok
    /\ s[n].decided = Undecided
    /\ s[n].age <= RequestTTL

VerdictOn(tok, d) == [token |-> tok, decision |-> d] \in verdicts

Phase(tok) ==
  IF VerdictOn(tok, "approve") THEN "approve"
  ELSE IF VerdictOn(tok, "deny") THEN "deny"
  ELSE IF tok \notin DOMAIN issued THEN "unissued"
  ELSE IF \E p \in Pods : OpenIn(stores[p], tok) THEN "open" ELSE "void"

Abstract == INSTANCE OneTap WITH
  phase     <- [tok \in Tokens |-> Phase(tok)],
  heard     <- topic,
  confirmed <- acked

\* Two pods with separate stores still keep the promise of one: a registration
\* that dies with its pod becomes void, and never open or decided again.
ImplementsOneTap == Abstract!Spec

-----------------------------------------------------------------------------
(***************************************************************************)
(* What main.go says, and the deployed program does not do.                *)
(***************************************************************************)
\* "draining inside that window is what makes a rollout invisible to callers":
\* no link answers "Not found" while a pod holds its registration open.
LinkHolds ==
  [][\A c \in Callers :
       callers'[c].pc = "notFound" /\ callers'[c] # callers[c]
         => \A p \in Pods : ~ OpenIn(stores[p], callers'[c].token)]_vars
=============================================================================
