--------------------------- MODULE RolloutProofs ---------------------------
(***************************************************************************)
(* Proofs, for every value of the constants, of what Rollout's run checks  *)
(* on a small instance.                                                    *)
(***************************************************************************)
EXTENDS Rollout, StoreProofs, TLAPS

(***************************************************************************)
(* The inductive invariant.  A request in flight never needs longer than   *)
(* its pod's drain has left; whoever publishes, publishes a verdict; and   *)
(* no two stores hold one link.                                            *)
(***************************************************************************)
Sending == {"sendingForm", "sendingTap"}

\* The longest a request can still take: a tap that is read may publish.
Need(r) == r.left + (IF r.pc = "sendingTap" THEN PublishTimeout ELSE 0)

InTime(r) == r.pod \in Pods /\ pods[r.pod].since + Need(r) < DrainTimeout

PublishSound(r) ==
  /\ r.token \in DOMAIN issued
  /\ [token |-> r.token, decision |-> r.decision] \in verdicts
  /\ r.delivered => [token |-> r.token, decision |-> r.decision] \in topic
  /\ r.pc = "acked" => r.delivered

CallerSound(r) ==
  /\ r.pc \in InFlightPcs => InTime(r)
  /\ r.pc \in Sending => r.token = None /\ ~ r.delivered
  /\ r.pc \in InFlightPcs \ Sending => PublishSound(r)
  /\ r.pc # "cut"

CallersSound == \A c \in Callers : CallerSound(callers[c])

RecordSound(r, n) ==
  /\ r.token \in DOMAIN issued
  /\ issued[r.token] = n
  /\ r.decided = Undecided => \A v \in verdicts : v.token # r.token
  /\ r.decided # Undecided
       => [token |-> r.token, decision |-> r.decided] \in verdicts

RecordsSound ==
  \A p \in Pods : \A n \in DOMAIN stores[p] : RecordSound(stores[p][n], n)

LinksApart ==
  \A p, q \in Pods : \A n \in DOMAIN stores[p], m \in DOMAIN stores[q] :
    stores[p][n].token = stores[q][m].token => p = q

VerdictsSound ==
  /\ \A v, w \in verdicts : v.token = w.token => v = w
  /\ \A v \in verdicts : v.token \in DOMAIN issued
  /\ topic \cup limbo \subseteq verdicts

\* A drain's clock runs from SIGTERM only.
PodsSound ==
  \A p \in Pods : pods[p].phase # "draining" => pods[p].since = 0

IInv ==
  /\ TypeOK
  /\ PodsSound
  /\ CallersSound
  /\ RecordsSound
  /\ LinksApart
  /\ VerdictsSound
  /\ NotStranded

-----------------------------------------------------------------------------
(***************************************************************************)
(* What a step must leave alone to keep each part.                         *)
(***************************************************************************)
\* No SIGTERM is taken back, no history is lost, and what was heard is heard.
Monotone ==
  /\ \A p \in Pods : pods'[p].since <= pods[p].since
  /\ DOMAIN issued \subseteq DOMAIN issued'
  /\ verdicts \subseteq verdicts'
  /\ topic \subseteq topic'
  /\ told \subseteq told'

\* A caller that the step does not move stays sound.
LEMMA CallerKept ==
  ASSUME TypeOK, TypeOK', Monotone,
         NEW r \in CallerState, CallerSound(r)
  PROVE  CallerSound(r)'
<1>1. ASSUME r.pc \in InFlightPcs, InTime(r) PROVE InTime(r)'
  <2>1. /\ pods'[r.pod].since <= pods[r.pod].since
        /\ pods[r.pod].since \in Nat
        /\ pods'[r.pod].since \in Nat
    BY <1>1, RolloutAssumption DEF InTime, Monotone, TypeOK, PodState
  <2>2. Need(r) \in Nat
    BY RolloutAssumption DEF Need, CallerState
  <2> HIDE DEF Need
  <2>3. pods'[r.pod].since + Need(r) < DrainTimeout
    BY <1>1, <2>1, <2>2, RolloutAssumption DEF InTime
  <2> QED BY <1>1, <2>3 DEF InTime, Need
<1>2. ASSUME PublishSound(r) PROVE PublishSound(r)'
  BY <1>2 DEF PublishSound, Monotone
<1> QED BY <1>1, <1>2 DEF CallerSound

\* The step of one caller keeps every caller sound, if that one is.
LEMMA StepKeepsCallers ==
  ASSUME TypeOK, TypeOK', CallersSound, Monotone,
         NEW c \in Callers, NEW r, Step(c, r), CallerSound(r)'
  PROVE  CallersSound'
<1>1. ASSUME NEW b \in Callers PROVE CallerSound(callers[b])'
  <2>1. CASE b = c
    <3>1. callers'[b] = r
      BY <2>1 DEF Step, TypeOK
    <3> QED BY <3>1 DEF CallerSound, InTime, Need, PublishSound
  <2>2. CASE b # c
    <3>1. callers'[b] = callers[b] /\ callers[b] \in CallerState
      BY <2>2 DEF Step, TypeOK
    <3>2. CallerSound(callers[b])
      BY DEF CallersSound
    <3>3. PICK s \in CallerState : s = callers[b]
      BY <3>1
    <3>4. CallerSound(s)'
      BY <3>2, <3>3, CallerKept
    <3> QED BY <3>1, <3>3, <3>4 DEF CallerSound, InTime, Need, PublishSound
  <2> QED BY <2>1, <2>2
<1> QED BY <1>1 DEF CallersSound

\* Records that keep their link and their decision stay sound.
LEMMA RecordsKept ==
  ASSUME RecordsSound, LinksApart, UNCHANGED <<issued, verdicts>>,
         \A p \in Pods : \A n \in DOMAIN stores'[p] :
           /\ n \in DOMAIN stores[p]
           /\ stores'[p][n].token = stores[p][n].token
           /\ stores'[p][n].decided = stores[p][n].decided
  PROVE  RecordsSound' /\ LinksApart'
BY DEF RecordsSound, RecordSound, LinksApart

\* A step that takes no verdict's request away, except by having it heard or
\* its caller told, strands nothing.
LEMMA NothingStranded ==
  ASSUME NotStranded, verdicts' = verdicts, topic \subseteq topic',
         told \subseteq told',
         \A c \in Callers : InFlight(c) /\ PairOf(c) \in verdicts =>
           \/ InFlight(c)' /\ PairOf(c)' = PairOf(c)
           \/ PairOf(c) \in topic'
           \/ PairOf(c).token \in told'
  PROVE  NotStranded'
<1>1. ASSUME NEW v \in verdicts
      PROVE  \/ v \in topic'
             \/ v.token \in told'
             \/ \E c \in Callers : InFlight(c)' /\ PairOf(c)' = v
  <2>1. CASE v \in topic \/ v.token \in told
    BY <2>1
  <2>2. ASSUME NEW c \in Callers, InFlight(c), PairOf(c) = v
        PROVE  \/ v \in topic'
               \/ v.token \in told'
               \/ InFlight(c)' /\ PairOf(c)' = v
    BY <2>2
  <2> QED BY <2>1, <2>2 DEF NotStranded
<1> QED BY <1>1 DEF NotStranded

\* A request that is still being read carries no decision of anyone's.
LEMMA SendingCarriesNothing ==
  ASSUME TypeOK, NEW c \in Callers, callers[c].token = None
  PROVE  PairOf(c) \notin verdicts
BY RolloutAssumption DEF TypeOK, Pair, PairOf

-----------------------------------------------------------------------------
(***************************************************************************)
(* Type correctness, one lemma for each variable that a step writes.       *)
(***************************************************************************)
StoresTyped == DOMAIN stores = Pods /\ \A p \in Pods : IsStore(stores[p])

\* A handler writes the store of its own pod.
LEMMA OneStore ==
  ASSUME TypeOK, NEW p \in Pods, NEW s, IsStore(s),
         stores' = [stores EXCEPT ![p] = s]
  PROVE  /\ StoresTyped'
         /\ stores'[p] = s
         /\ \A q \in Pods : q # p => stores'[q] = stores[q]
BY DEF TypeOK, StoresTyped, IsStore

\* A caller's step moves that caller only.
LEMMA StepFacts ==
  ASSUME TypeOK, NEW c \in Callers, NEW r \in CallerState, Step(c, r)
  PROVE  /\ callers' \in [Callers -> CallerState]
         /\ callers'[c] = r
         /\ \A b \in Callers : b # c => callers'[b] = callers[b]
BY DEF TypeOK, Step

\* What a caller without a request looks like.
LEMMA IdleFacts ==
  /\ Idle \in CallerState
  /\ Idle.pc = "idle" /\ Idle.token = None /\ ~ Idle.delivered
  /\ "idle" \notin InFlightPcs
<1>1. 0 \in 0 .. (HeaderTimeout + ReadTimeout + PublishTimeout)
  BY RolloutAssumption
<1> QED BY <1>1 DEF Idle, CallerState, Endings, InFlightPcs

\* Wherever a request ends, its caller has no claim on a pod.
LEMMA EndFacts ==
  ASSUME NEW pc \in {"notFound", "cut"}, NEW tok \in Tokens \cup {None}
  PROVE  /\ [Idle EXCEPT !.pc = pc, !.token = tok] \in CallerState
         /\ [Idle EXCEPT !.pc = pc, !.token = tok].pc = pc
         /\ pc \notin InFlightPcs
<1>1. 0 \in 0 .. (HeaderTimeout + ReadTimeout + PublishTimeout)
  BY RolloutAssumption
<1> QED BY <1>1 DEF Idle, CallerState, Endings, InFlightPcs

\* A new connection has the time to be read in, and no more.
LEMMA ConnectFacts ==
  ASSUME NEW p \in Pods, NEW pc \in {"sendingForm", "sendingTap"}
  PROVE  LET r == [Idle EXCEPT !.pc = pc, !.pod = p, !.left = ReadFor(pc)]
         IN /\ r \in CallerState
            /\ r.pc = pc /\ r.pod = p /\ r.token = None /\ ~ r.delivered
            /\ Need(r) \in Nat
            /\ Need(r) < DrainTimeout
<1>1. PICK x \in 0 .. (HeaderTimeout + ReadTimeout + PublishTimeout) :
        /\ x = ReadFor(pc)
        /\ x = IF pc = "sendingForm" THEN ReadTimeout ELSE HeaderTimeout
  BY RolloutAssumption DEF ReadFor
<1> DEFINE r == [Idle EXCEPT !.pc = pc, !.pod = p, !.left = x]
<1>2. r \in CallerState /\ r.pc = pc /\ r.pod = p /\ r.left = x
  BY IdleFacts DEF CallerState, InFlightPcs
<1>3. r.token = None /\ ~ r.delivered
  BY DEF Idle
<1>4. Need(r) \in Nat /\ Need(r) < DrainTimeout
  <2> HIDE DEF r
  <2> QED BY <1>1, <1>2, RolloutAssumption DEF Need
<1> QED BY <1>1, <1>2, <1>3, <1>4

\* A deciding or retrying tap may take the publish's deadline from now on.
LEMMA ClaimFacts ==
  ASSUME TypeOK, NEW c \in Callers, NEW tok \in Tokens, NEW d \in Decisions,
         Claim(c, tok, d)
  PROVE  \E r \in CallerState :
           /\ Step(c, r)
           /\ r.pc = "publishing" /\ r.pod = callers[c].pod
           /\ r.token = tok /\ r.decision = d
           /\ r.delivered = callers[c].delivered
           /\ Need(r) = PublishTimeout
<1> DEFINE r == [callers[c] EXCEPT !.pc = "publishing", !.token = tok,
                                   !.decision = d, !.left = PublishTimeout]
<1>1. callers[c] \in CallerState
  BY DEF TypeOK
<1>2. PublishTimeout \in 0 .. (HeaderTimeout + ReadTimeout + PublishTimeout)
  BY RolloutAssumption
<1>3. d \in Decisions \cup {Undecided} /\ tok \in Tokens \cup {None}
  OBVIOUS
<1>4. "publishing" \in InFlightPcs \cup Endings
  BY DEF InFlightPcs
<1>5. /\ r \in CallerState
      /\ r.pc = "publishing" /\ r.pod = callers[c].pod
      /\ r.token = tok /\ r.decision = d
      /\ r.delivered = callers[c].delivered
      /\ r.left = PublishTimeout
  BY <1>1, <1>2, <1>3, <1>4 DEF CallerState
<1>6. Step(c, r)
  BY DEF Claim
<1> HIDE DEF r
<1>7. Need(r) = PublishTimeout
  BY <1>5, RolloutAssumption DEF Need
<1> QED BY <1>5, <1>6, <1>7

\* A publish that ends, or is heard, is still the same request.
LEMMA ProgressFacts ==
  ASSUME TypeOK, NEW c \in Callers, callers[c].pc = "publishing",
         NEW r,
         \/ r = [callers[c] EXCEPT !.delivered = TRUE]
         \/ \E pc \in {"acked", "errored"} : r = [callers[c] EXCEPT !.pc = pc]
  PROVE  /\ r \in CallerState
         /\ r.pc \in {"publishing", "acked", "errored"}
         /\ r.pod = callers[c].pod /\ r.left = callers[c].left
         /\ r.token = callers[c].token /\ r.decision = callers[c].decision
         /\ Need(r) = Need(callers[c])
<1>1. callers[c] \in CallerState
  BY DEF TypeOK
<1>2. /\ r \in CallerState
      /\ r.pc \in {"publishing", "acked", "errored"}
      /\ r.pod = callers[c].pod /\ r.left = callers[c].left
      /\ r.token = callers[c].token /\ r.decision = callers[c].decision
  <2>1. CASE r = [callers[c] EXCEPT !.delivered = TRUE]
    BY <1>1, <2>1 DEF CallerState
  <2>2. ASSUME NEW pc \in {"acked", "errored"},
               r = [callers[c] EXCEPT !.pc = pc]
        PROVE  /\ r \in CallerState
               /\ r.pc \in {"publishing", "acked", "errored"}
               /\ r.pod = callers[c].pod /\ r.left = callers[c].left
               /\ r.token = callers[c].token
               /\ r.decision = callers[c].decision
    <3>1. pc \in InFlightPcs \cup Endings
      BY DEF InFlightPcs
    <3> QED BY <1>1, <2>2, <3>1 DEF CallerState
  <2> QED BY <2>1, <2>2
<1> QED BY <1>2 DEF Need

-----------------------------------------------------------------------------
\* Both deadlines of a drain are over only when no request is left.
LEMMA ExitIsDrained ==
  ASSUME TypeOK, CallersSound, NEW p \in Pods, MayExit(p)
  PROVE  Drained(p)
<1>1. SUFFICES ASSUME NEW c \in Callers, InFlightOn(c, p)
               PROVE  ~ Overdue(p)
  BY DEF MayExit, Drained
<1>2. /\ callers[c] \in CallerState
      /\ callers[c].pod = p
      /\ pods[p].since + Need(callers[c]) < DrainTimeout
  BY <1>1 DEF TypeOK, CallersSound, CallerSound, InTime, InFlightOn, InFlight
<1>3. Need(callers[c]) \in Nat /\ pods[p].since \in Nat
  BY <1>2, RolloutAssumption DEF Need, CallerState, TypeOK, PodState
<1> HIDE DEF Need
<1>4. pods[p].since < DrainTimeout /\ pods[p].since < GracePeriod
  BY <1>2, <1>3, RolloutAssumption
<1> QED BY <1>3, <1>4, RolloutAssumption DEF Overdue

LEMMA TapTypes ==
  ASSUME IInv, NEW c \in Callers, NEW tok \in DOMAIN issued,
         NEW d \in Decisions, Tap(c, tok, d)
  PROVE  TypeOK'
<1> DEFINE p == callers[c].pod
           s == stores[p]
           n == issued[tok]
<1>1. /\ tok \in Tokens /\ n \in Nonces /\ p \in Pods /\ IsStore(s)
      /\ callers[c].pc = "sendingTap"
      /\ UNCHANGED <<pods, topic, limbo, issued, told, acked>>
  BY DEF Tap, IInv, TypeOK, CallersSound, CallerSound, InFlightPcs, InTime
<1>2. TypeOK
  BY DEF IInv
<1> HIDE DEF p, s, n
<1>3. CASE TapUnknown(c, s, n, tok)
  BY <1>1, <1>2, <1>3, EndFacts, StepFacts DEF TapUnknown, TypeOK
<1>4. CASE TapExpired(c, s, n, tok)
  BY <1>1, <1>2, <1>4, IdleFacts, StepFacts DEF TapExpired, Answer, TypeOK
<1>5. CASE TapDecides(c, s, n, tok, d)
  <2>1. s[n] \in Request /\ n \in DOMAIN s
    BY <1>1, <1>5 DEF TapDecides, Valid, IsStore
  <2>2. IsStore(Put(s, n, Settled(s[n], d)))
    BY <1>1, <2>1, SettledFacts, PutFacts
  <2>3. StoresTyped'
    BY <1>1, <1>2, <1>5, <2>2, OneStore DEF TapDecides, p
  <2>4. callers' \in [Callers -> CallerState]
    BY <1>1, <1>2, <1>5, ClaimFacts, StepFacts DEF TapDecides, Claim
  <2>5. verdicts' \subseteq Pair
    BY <1>1, <1>2, <1>5 DEF TapDecides, TypeOK, Pair
  <2> QED BY <1>1, <1>2, <2>3, <2>4, <2>5 DEF TypeOK, StoresTyped
<1>6. CASE TapRetries(c, s, n, tok)
  <2>1. s[n] \in Request /\ s[n].decided \in Decisions
    BY <1>1, <1>6 DEF TapRetries, Valid, Owes, IsStore, Request
  <2>2. IsStore(Put(s, n, Claimed(s[n])))
    BY <1>1, <2>1, ClaimedFacts, PutFacts
  <2>3. StoresTyped'
    BY <1>1, <1>2, <1>6, <2>2, OneStore DEF TapRetries, p
  <2>4. callers' \in [Callers -> CallerState]
    BY <1>1, <1>2, <1>6, <2>1, ClaimFacts, StepFacts DEF TapRetries, Claim
  <2> QED BY <1>1, <1>2, <1>6, <2>3, <2>4 DEF TypeOK, StoresTyped, TapRetries
<1>7. CASE TapReplayed(c, s, n, tok)
  BY <1>1, <1>2, <1>7, IdleFacts, StepFacts DEF TapReplayed, Answer, TypeOK
<1>8. \/ TapUnknown(c, s, n, tok)
      \/ TapExpired(c, s, n, tok)
      \/ TapDecides(c, s, n, tok, d)
      \/ TapRetries(c, s, n, tok)
      \/ TapReplayed(c, s, n, tok)
  BY DEF Tap, p, s, n
<1> QED BY <1>3, <1>4, <1>5, <1>6, <1>7, <1>8

LEMMA HandlerTypes ==
  ASSUME IInv, NEW c \in Callers, HandlerStep(c) \/ NtfyAccepts(c)
  PROVE  TypeOK'
<1>1. TypeOK /\ callers[c] \in CallerState
  BY DEF IInv, TypeOK
<1>2. callers[c].pc \in {"publishing", "acked", "errored"}
        => /\ callers[c].pod \in Pods /\ callers[c].token \in Tokens
           /\ PairOf(c) \in Pair
           /\ IsStore(stores[callers[c].pod])
  BY DEF IInv, TypeOK, CallersSound, CallerSound, InTime, PublishSound, Sending,
         InFlightPcs, PairOf
<1>3. CASE GivesUp(c)
  BY <1>1, <1>3, IdleFacts, StepFacts DEF GivesUp, Answer, TypeOK, history
<1>4. CASE PublishSucceeds(c)
  <2>1. callers' \in [Callers -> CallerState]
    BY <1>1, <1>4, ProgressFacts, StepFacts DEF PublishSucceeds
  <2> QED BY <1>1, <1>2, <1>4, <2>1 DEF PublishSucceeds, TypeOK
<1>5. CASE PublishFails(c)
  <2>1. callers' \in [Callers -> CallerState]
    BY <1>1, <1>5, ProgressFacts, StepFacts DEF PublishFails
  <2> QED BY <1>1, <1>2, <1>5, <2>1 DEF PublishFails, TypeOK, history
<1>6. CASE Marks(c)
  <2>1. StoresTyped'
    <3>1. IsStore(MarkPublished(stores[callers[c].pod],
                                issued[callers[c].token]))
      BY <1>2, <1>6, MarkPublishedFacts DEF Marks
    <3> QED BY <1>1, <1>2, <1>6, <3>1, OneStore DEF Marks
  <2> QED BY <1>1, <1>6, <2>1, IdleFacts, StepFacts
          DEF Marks, Answer, TypeOK, StoresTyped, history
<1>7. CASE Releases(c)
  <2>1. StoresTyped'
    <3>1. IsStore(ReleasePublish(stores[callers[c].pod],
                                 issued[callers[c].token]))
      BY <1>2, <1>7, ReleasePublishFacts DEF Releases
    <3> QED BY <1>1, <1>2, <1>7, <3>1, OneStore DEF Releases
  <2> QED BY <1>1, <1>2, <1>7, <2>1, IdleFacts, StepFacts
          DEF Releases, Answer, TypeOK, StoresTyped
<1>8. CASE NtfyAccepts(c)
  <2>1. callers' \in [Callers -> CallerState]
    BY <1>1, <1>8, ProgressFacts, StepFacts DEF NtfyAccepts
  <2> QED BY <1>1, <1>2, <1>8, <2>1 DEF NtfyAccepts, TypeOK, history
<1> QED BY <1>3, <1>4, <1>5, <1>6, <1>7, <1>8 DEF HandlerStep

LEMMA TickTypes ==
  ASSUME IInv, Tick
  PROVE  TypeOK'
<1>1. TypeOK
  BY DEF IInv
<1>2. ASSUME NEW p \in Pods PROVE pods'[p] \in PodState
  <2>1. pods[p] \in PodState
    BY <1>1 DEF TypeOK
  <2>2. CASE pods[p].phase = "draining"
    <3>1. ~ Overdue(p) /\ pods'[p] = [pods[p] EXCEPT !.since = @ + 1]
      BY <2>2 DEF Tick, MayExit
    <3>2. pods[p].since + 1 \in 0 .. DrainTimeout
      BY <2>1, <3>1, RolloutAssumption DEF Overdue, PodState
    <3> QED BY <2>1, <3>1, <3>2 DEF PodState
  <2>3. CASE pods[p].phase # "draining"
    BY <2>1, <2>3 DEF Tick
  <2> QED BY <2>2, <2>3
<1>3. ASSUME NEW c \in Callers PROVE callers'[c] \in CallerState
  <2>1. callers[c] \in CallerState
    BY <1>1 DEF TypeOK
  <2>2. CASE InFlight(c)
    <3>1. /\ callers[c].left > 0
          /\ callers'[c] = [callers[c] EXCEPT !.left = @ - 1]
      BY <2>2 DEF Tick
    <3>2. callers[c].left - 1 \in 0 .. (HeaderTimeout + ReadTimeout
                                        + PublishTimeout)
      BY <2>1, <3>1, RolloutAssumption DEF CallerState
    <3> QED BY <2>1, <3>1, <3>2 DEF CallerState
  <2>3. CASE ~ InFlight(c)
    BY <2>1, <2>3 DEF Tick
  <2> QED BY <2>2, <2>3
<1>4. pods' \in [Pods -> PodState] /\ callers' \in [Callers -> CallerState]
  BY <1>2, <1>3 DEF Tick
<1>5. StoresTyped'
  <2>1. ASSUME NEW p \in Pods PROVE IsStore(stores'[p])
    <3>1. IsStore(Aged(stores[p]))
      BY <1>1, AgedFacts DEF TypeOK
    <3> QED BY <3>1 DEF Tick
  <2> QED BY <2>1 DEF Tick, StoresTyped
<1> QED BY <1>1, <1>4, <1>5 DEF Tick, TypeOK, StoresTyped, history

LEMMA RegisterTypes ==
  ASSUME IInv, NEW c \in Callers, NEW n \in Nonces, NEW tok \in Tokens,
         NEW det \in Details, Register(c, n, tok, det)
  PROVE  TypeOK'
<1>1. TypeOK /\ callers[c].pod \in Pods /\ IsStore(stores[callers[c].pod])
  BY DEF IInv, TypeOK, CallersSound, CallerSound, InTime, Register, InFlightPcs
<1>2. StoresTyped'
  <2>1. IsStore(Put(stores[callers[c].pod], n, NewRequest(tok, det)))
    BY <1>1, NewRequestFacts, PutFacts
  <2> QED BY <1>1, <2>1, OneStore DEF Register
<1>3. DOMAIN issued' \subseteq Tokens /\ issued' \in [DOMAIN issued' -> Nonces]
  BY <1>1 DEF Register, Put, TypeOK
<1>4. callers' \in [Callers -> CallerState]
  BY <1>1, IdleFacts, StepFacts DEF Register, Answer
<1> QED BY <1>1, <1>2, <1>3, <1>4 DEF Register, TypeOK, StoresTyped

LEMMA PodTypes ==
  ASSUME IInv, NEW p \in Pods, Surge(p) \/ Terminate(p) \/ Exit(p) \/ Reap(p)
  PROVE  TypeOK'
<1>1. TypeOK /\ pods[p] \in PodState /\ IsStore(stores[p])
  BY DEF IInv, TypeOK
<1>2. 0 \in 0 .. DrainTimeout
  BY RolloutAssumption
<1>3. CASE Surge(p)
  <2>1. pods' \in [Pods -> PodState]
    BY <1>1, <1>3 DEF Surge, TypeOK, PodState, Phases
  <2> QED BY <1>1, <1>3, <2>1 DEF Surge, TypeOK, history
<1>4. CASE Terminate(p)
  <2>1. pods' \in [Pods -> PodState]
    BY <1>1, <1>2, <1>4 DEF Terminate, TypeOK, PodState, Phases
  <2> QED BY <1>1, <1>4, <2>1 DEF Terminate, TypeOK, history
<1>5. CASE Exit(p)
  <2>1. pods' \in [Pods -> PodState]
    BY <1>1, <1>2, <1>5 DEF Exit, Absent, TypeOK, PodState, Phases
  <2>2. StoresTyped'
    BY <1>1, <1>5, EmptyStoreFacts, OneStore DEF Exit
  <2>3. ASSUME NEW c \in Callers PROVE callers'[c] = callers[c]
    <3>1. ~ InFlightOn(c, p)
      BY <1>1, <1>5, ExitIsDrained DEF Exit, Drained, IInv
    <3> QED BY <1>5, <3>1 DEF Exit
  <2>4. callers' \in [Callers -> CallerState]
    BY <1>1, <1>5, <2>3 DEF Exit, TypeOK
  <2> QED BY <1>1, <1>5, <2>1, <2>2, <2>4
          DEF Exit, TypeOK, StoresTyped, history
<1>6. CASE Reap(p)
  <2>1. IsStore(Reaped(stores[p]))
    BY <1>1, ReapedFacts
  <2>2. StoresTyped'
    BY <1>1, <1>6, <2>1, OneStore DEF Reap
  <2> QED BY <1>1, <1>6, <2>2 DEF Reap, TypeOK, StoresTyped, history
<1> QED BY <1>3, <1>4, <1>5, <1>6

LEMMA TypeStep ==
  ASSUME IInv, [Next]_vars
  PROVE  TypeOK'
<1>1. ASSUME NEW p \in Pods, Surge(p) \/ Terminate(p) \/ Exit(p) \/ Reap(p)
      PROVE  TypeOK'
  BY <1>1, PodTypes
<1>2. ASSUME NEW c \in Callers, NEW p \in Pods,
             NEW pc \in {"sendingForm", "sendingTap"}, Connect(c, p, pc)
      PROVE  TypeOK'
  <2>1. TypeOK
    BY DEF IInv
  <2>2. callers' \in [Callers -> CallerState]
    BY <1>2, <2>1, ConnectFacts, StepFacts DEF Connect
  <2> QED BY <1>2, <2>1, <2>2 DEF Connect, TypeOK, history
<1>3. ASSUME NEW c \in Callers, HandlerStep(c) \/ NtfyAccepts(c)
      PROVE  TypeOK'
  BY <1>3, HandlerTypes
<1>4. ASSUME NEW c \in Callers, NEW n \in Nonces, NEW tok \in Tokens,
             NEW det \in Details, Register(c, n, tok, det)
      PROVE  TypeOK'
  BY <1>4, RegisterTypes
<1>5. ASSUME NEW c \in Callers, NEW n \in Nonces, RegisterDuplicate(c, n)
      PROVE  TypeOK'
  BY <1>5, IdleFacts, StepFacts
     DEF RegisterDuplicate, Answer, IInv, TypeOK, history
<1>6. ASSUME NEW c \in Callers, NEW tok \in DOMAIN issued,
             NEW d \in Decisions, Tap(c, tok, d)
      PROVE  TypeOK'
  BY <1>6, TapTypes
<1>7. CASE LateArrival
  BY <1>7 DEF LateArrival, IInv, TypeOK, history
<1>8. CASE Tick
  BY <1>8, TickTypes
<1>9. CASE UNCHANGED vars
  BY <1>9 DEF vars, IInv, TypeOK
<1> QED BY <1>1, <1>2, <1>3, <1>4, <1>5, <1>6, <1>7, <1>8, <1>9 DEF Next

-----------------------------------------------------------------------------
(***************************************************************************)
(* The invariant, action by action.                                        *)
(***************************************************************************)
\* A caller that gets its answer leaves every other one as it was.
LEMMA EndKeepsCallers ==
  ASSUME IInv, TypeOK', Monotone, NEW c \in Callers, NEW r \in CallerState,
         Step(c, r), r.pc \notin InFlightPcs, r.pc # "cut"
  PROVE  CallersSound'
<1>1. CallerSound(r)'
  BY DEF CallerSound, Sending, InFlightPcs
<1> QED BY <1>1, StepKeepsCallers DEF IInv

\* A request that ends before its handler recorded anything strands nothing.
LEMMA ReadingStrandsNothing ==
  ASSUME IInv, NEW c \in Callers, callers[c].pc \in Sending \/ ~ InFlight(c),
         NEW r, Step(c, r), UNCHANGED <<verdicts, topic, told>>
  PROVE  NotStranded'
<1>1. ASSUME NEW b \in Callers, InFlight(b), PairOf(b) \in verdicts
      PROVE  InFlight(b)' /\ PairOf(b)' = PairOf(b)
  <2>1. b # c
    BY <1>1, SendingCarriesNothing DEF IInv, CallersSound, CallerSound
  <2>2. callers'[b] = callers[b]
    BY <2>1 DEF Step, IInv, TypeOK
  <2> QED BY <1>1, <2>2 DEF InFlight, PairOf
<1> QED BY <1>1, NothingStranded DEF IInv

\* Answering a request that was read, or was never sent, changes no record.
LEMMA AnswerKeeps ==
  ASSUME IInv, TypeOK', NEW c \in Callers,
         callers[c].pc \in Sending \/ ~ InFlight(c),
         NEW r \in CallerState, Step(c, r),
         r.pc \notin InFlightPcs, r.pc # "cut",
         UNCHANGED <<pods, stores, topic, limbo, history>>
  PROVE  IInv'
<1>1. UNCHANGED <<issued, verdicts, told>>
  BY DEF history
<1>2. Monotone
  BY <1>1, RolloutAssumption DEF Monotone, IInv, TypeOK, PodState
<1>3. CallersSound'
  BY <1>2, EndKeepsCallers
<1>4. RecordsSound' /\ LinksApart'
  BY <1>1, RecordsKept DEF IInv
<1>5. VerdictsSound'
  BY <1>1 DEF IInv, VerdictsSound
<1>6. NotStranded'
  BY <1>1, ReadingStrandsNothing
<1>7. PodsSound'
  BY DEF IInv, PodsSound
<1> QED BY <1>3, <1>4, <1>5, <1>6, <1>7 DEF IInv

LEMMA ConnectKeeps ==
  ASSUME IInv, TypeOK', NEW c \in Callers, NEW p \in Pods,
         NEW pc \in {"sendingForm", "sendingTap"}, Connect(c, p, pc)
  PROVE  IInv'
<1> DEFINE r == [Idle EXCEPT !.pc = pc, !.pod = p, !.left = ReadFor(pc)]
<1>1. /\ r \in CallerState
      /\ r.pc = pc /\ r.pod = p /\ r.token = None /\ ~ r.delivered
      /\ Need(r) \in Nat /\ Need(r) < DrainTimeout
  BY ConnectFacts
<1>2. Step(c, r) /\ UNCHANGED <<pods, stores, topic, limbo, history>>
  BY DEF Connect
<1> HIDE DEF r
<1>3. UNCHANGED <<issued, verdicts, told>> /\ Monotone
  BY <1>2, RolloutAssumption DEF history, Monotone, IInv, TypeOK, PodState
<1>4. pods[p].since = 0
  BY DEF Connect, IInv, PodsSound
<1>5. CallerSound(r)'
  <2>1. InTime(r)'
    BY <1>1, <1>2, <1>4, RolloutAssumption DEF InTime, Need
  <2> QED BY <1>1, <2>1 DEF CallerSound, Sending, InFlightPcs
<1>6. CallersSound'
  BY <1>2, <1>3, <1>5, StepKeepsCallers DEF IInv
<1>7. RecordsSound' /\ LinksApart'
  BY <1>2, <1>3, RecordsKept DEF IInv
<1>8. VerdictsSound'
  BY <1>2, <1>3 DEF IInv, VerdictsSound
<1>9. NotStranded'
  BY <1>2, <1>3, ReadingStrandsNothing DEF Connect
<1>10. PodsSound'
  BY <1>2 DEF IInv, PodsSound
<1> QED BY <1>6, <1>7, <1>8, <1>9, <1>10 DEF IInv

\* A registration adds one record, under a link no other record has.
LEMMA RegisterKeeps ==
  ASSUME IInv, TypeOK', NEW c \in Callers, NEW n \in Nonces, NEW tok \in Tokens,
         NEW det \in Details, Register(c, n, tok, det)
  PROVE  IInv'
<1> DEFINE p == callers[c].pod
           r == NewRequest(tok, det)
<1>1. /\ callers[c].pc = "sendingForm" /\ p \in Pods
      /\ n \notin DOMAIN stores[p] /\ tok \notin DOMAIN issued
      /\ Step(c, Idle)
      /\ UNCHANGED <<pods, topic, limbo, verdicts, told, acked>>
  BY DEF Register, Answer, IInv, CallersSound, CallerSound, InTime, InFlightPcs
<1>2. r \in Request /\ r.token = tok /\ r.decided = Undecided
  <2>1. r.token = tok /\ r.decided = Undecided
    BY DEF NewRequest
  <2> QED BY <2>1, NewRequestFacts
<1> HIDE DEF r
<1>3. /\ DOMAIN stores'[p] = DOMAIN stores[p] \cup {n}
      /\ stores'[p][n] = r
      /\ \A k \in DOMAIN stores[p] : k # n => stores'[p][k] = stores[p][k]
      /\ \A q \in Pods : q # p => stores'[q] = stores[q]
  <2>1. IsStore(stores[p])
    BY <1>1 DEF IInv, TypeOK
  <2>2. /\ IsStore(Put(stores[p], n, r))
        /\ DOMAIN Put(stores[p], n, r) = DOMAIN stores[p] \cup {n}
        /\ Put(stores[p], n, r)[n] = r
        /\ \A k \in DOMAIN stores[p] : k # n
             => Put(stores[p], n, r)[k] = stores[p][k]
    BY <1>2, <2>1, PutFacts
  <2>3. stores' = [stores EXCEPT ![p] = Put(stores[p], n, r)]
    BY DEF Register, r
  <2> QED BY <1>1, <2>2, <2>3, OneStore DEF IInv
<1> HIDE DEF p
<1>4. /\ DOMAIN issued' = DOMAIN issued \cup {tok}
      /\ issued'[tok] = n
      /\ \A t \in DOMAIN issued : issued'[t] = issued[t]
  BY <1>1 DEF Register, Put
<1>5. Monotone
  BY <1>1, <1>4, RolloutAssumption DEF Monotone, IInv, TypeOK, PodState
<1>6. CallersSound'
  BY <1>1, <1>5, IdleFacts, EndKeepsCallers
<1>7. \A v \in verdicts : v.token # tok
  BY <1>1 DEF IInv, VerdictsSound
<1>8. RecordsSound'
  <2>1. ASSUME NEW q \in Pods, NEW k \in DOMAIN stores'[q]
        PROVE  RecordSound(stores[q][k], k)'
    <3>1. CASE q = p /\ k = n
      BY <1>1, <1>2, <1>3, <1>4, <1>7, <3>1 DEF RecordSound
    <3>2. CASE ~ (q = p /\ k = n)
      <4>1. k \in DOMAIN stores[q] /\ stores'[q][k] = stores[q][k]
        BY <1>3, <3>2
      <4>2. RecordSound(stores[q][k], k)
        BY <4>1 DEF IInv, RecordsSound
      <4> QED BY <1>1, <1>4, <4>1, <4>2 DEF RecordSound
    <3> QED BY <3>1, <3>2
  <2> QED BY <2>1 DEF RecordsSound
<1>9. LinksApart'
  <2>1. \A q \in Pods : \A k \in DOMAIN stores[q] : stores[q][k].token # tok
    <3>1. ASSUME NEW q \in Pods, NEW k \in DOMAIN stores[q]
          PROVE  stores[q][k].token \in DOMAIN issued
      BY DEF IInv, RecordsSound, RecordSound
    <3> QED BY <1>1, <3>1
  <2>2. \A q \in Pods : \A k \in DOMAIN stores'[q] :
          \/ q = p /\ k = n /\ stores'[q][k].token = tok
          \/ /\ k \in DOMAIN stores[q] /\ stores'[q][k] = stores[q][k]
             /\ stores'[q][k].token # tok
    BY <1>1, <1>2, <1>3, <2>1
  <2> QED BY <2>2 DEF IInv, LinksApart
<1>10. VerdictsSound'
  BY <1>1, <1>4 DEF IInv, VerdictsSound
<1>11. NotStranded'
  BY <1>1, ReadingStrandsNothing DEF Sending
<1>12. PodsSound'
  BY <1>1 DEF IInv, PodsSound
<1> QED BY <1>6, <1>8, <1>9, <1>10, <1>11, <1>12 DEF IInv

\* What a tap finds before it decides or retries.
LEMMA TapFinds ==
  ASSUME IInv, NEW c \in Callers, NEW tok \in DOMAIN issued,
         callers[c].pc = "sendingTap",
         Valid(stores[callers[c].pod], issued[tok], tok)
  PROVE  /\ callers[c].pod \in Pods /\ tok \in Tokens /\ issued[tok] \in Nonces
         /\ IsStore(stores[callers[c].pod])
         /\ issued[tok] \in DOMAIN stores[callers[c].pod]
         /\ stores[callers[c].pod][issued[tok]] \in Request
         /\ stores[callers[c].pod][issued[tok]].token = tok
         /\ RecordSound(stores[callers[c].pod][issued[tok]], issued[tok])
<1>1. callers[c].pod \in Pods
  BY DEF IInv, CallersSound, CallerSound, InTime, InFlightPcs
<1>2. tok \in Tokens /\ issued[tok] \in Nonces /\ IsStore(stores[callers[c].pod])
  BY <1>1 DEF IInv, TypeOK
<1>3. /\ issued[tok] \in DOMAIN stores[callers[c].pod]
      /\ stores[callers[c].pod][issued[tok]].token = tok
  BY DEF Valid
<1>4. stores[callers[c].pod][issued[tok]] \in Request
  BY <1>2, <1>3 DEF IsStore
<1>5. RecordSound(stores[callers[c].pod][issued[tok]], issued[tok])
  BY <1>1, <1>3 DEF IInv, RecordsSound
<1> QED BY <1>1, <1>2, <1>3, <1>4, <1>5

\* A tap whose publish begins in time will end in time: it was read in time.
LEMMA ClaimInTime ==
  ASSUME IInv, TypeOK', pods' = pods, NEW c \in Callers,
         callers[c].pc = "sendingTap",
         NEW r, r.pod = callers[c].pod, Need(r) = PublishTimeout
  PROVE  InTime(r)'
<1>1. /\ callers[c] \in CallerState
      /\ callers[c].pod \in Pods
      /\ pods[callers[c].pod].since + Need(callers[c]) < DrainTimeout
  BY DEF IInv, TypeOK, CallersSound, CallerSound, InTime, InFlightPcs
<1>2. Need(callers[c]) = callers[c].left + PublishTimeout
  BY DEF Need
<1>3. callers[c].left \in Nat /\ pods[callers[c].pod].since \in Nat
  BY <1>1, RolloutAssumption DEF CallerState, IInv, TypeOK, PodState
<1>4. pods[callers[c].pod].since + PublishTimeout < DrainTimeout
  BY <1>1, <1>2, <1>3, RolloutAssumption
<1> QED BY <1>1, <1>4 DEF InTime, Need

LEMMA TapDecidesKeeps ==
  ASSUME IInv, TypeOK', NEW c \in Callers, NEW tok \in DOMAIN issued,
         NEW d \in Decisions, callers[c].pc = "sendingTap",
         TapDecides(c, stores[callers[c].pod], issued[tok], tok, d),
         UNCHANGED <<pods, topic, limbo, issued, told, acked>>
  PROVE  IInv'
<1> DEFINE p == callers[c].pod
           s == stores[p]
           n == issued[tok]
           v == [token |-> tok, decision |-> d]
<1>1. /\ p \in Pods /\ tok \in Tokens /\ n \in Nonces /\ IsStore(s)
      /\ n \in DOMAIN s /\ s[n] \in Request /\ s[n].token = tok
      /\ s[n].decided = Undecided
      /\ RecordSound(s[n], n)
  BY TapFinds DEF TapDecides, Decidable
<1>2. /\ stores' = [stores EXCEPT ![p] = Put(s, n, Settled(s[n], d))]
      /\ verdicts' = verdicts \cup {v}
      /\ Claim(c, tok, d)
  BY DEF TapDecides
<1>3. PICK r \in CallerState :
        /\ Step(c, r)
        /\ r.pc = "publishing" /\ r.pod = p
        /\ r.token = tok /\ r.decision = d
        /\ r.delivered = callers[c].delivered
        /\ Need(r) = PublishTimeout
  BY <1>1, <1>2, ClaimFacts DEF IInv
<1>4. v.token = tok /\ v.decision = d
  OBVIOUS
<1>5. \A w \in verdicts : w.token # tok
  BY <1>1 DEF RecordSound
<1>6. /\ DOMAIN stores'[p] = DOMAIN s
      /\ stores'[p][n].token = tok /\ stores'[p][n].decided = d
      /\ \A k \in DOMAIN s : k # n => stores'[p][k] = s[k]
      /\ \A q \in Pods : q # p => stores'[q] = stores[q]
  <2>1. /\ Settled(s[n], d) \in Request
        /\ Settled(s[n], d).token = tok
        /\ Settled(s[n], d).decided = d
    BY <1>1, SettledFacts
  <2>2. /\ IsStore(Put(s, n, Settled(s[n], d)))
        /\ DOMAIN Put(s, n, Settled(s[n], d)) = DOMAIN s \cup {n}
        /\ Put(s, n, Settled(s[n], d))[n] = Settled(s[n], d)
        /\ \A k \in DOMAIN s : k # n => Put(s, n, Settled(s[n], d))[k] = s[k]
    BY <1>1, <2>1, PutFacts
  <2> HIDE DEF s, n, p
  <2>3. stores'[p] = Put(s, n, Settled(s[n], d))
        /\ \A q \in Pods : q # p => stores'[q] = stores[q]
    BY <1>1, <1>2, <2>2, OneStore DEF IInv
  <2> QED BY <1>1, <2>1, <2>2, <2>3
<1>7. s = stores[p]
  OBVIOUS
<1> HIDE DEF p, s, n, v
<1>8. Monotone
  BY <1>2, RolloutAssumption DEF Monotone, IInv, TypeOK, PodState
<1>9. CallersSound'
  <2>1. InTime(r)'
    BY <1>3, ClaimInTime DEF p
  <2>2. ~ callers[c].delivered
    BY DEF IInv, CallersSound, CallerSound, Sending
  <2>3. [token |-> r.token, decision |-> r.decision] \in verdicts'
    BY <1>2, <1>3 DEF v
  <2>4. PublishSound(r)'
    BY <1>3, <2>2, <2>3 DEF PublishSound
  <2>5. CallerSound(r)'
    BY <1>3, <2>1, <2>4 DEF CallerSound, Sending
  <2> QED BY <1>3, <1>8, <2>5, StepKeepsCallers DEF IInv
<1>10. \A q \in Pods : \A k \in DOMAIN stores'[q] :
         \/ q = p /\ k = n
         \/ /\ k \in DOMAIN stores[q] /\ stores'[q][k] = stores[q][k]
            /\ stores[q][k].token # tok
  <2>1. ASSUME NEW q \in Pods, NEW k \in DOMAIN stores'[q], ~ (q = p /\ k = n)
        PROVE  /\ k \in DOMAIN stores[q] /\ stores'[q][k] = stores[q][k]
               /\ stores[q][k].token # tok
    <3>1. k \in DOMAIN stores[q] /\ stores'[q][k] = stores[q][k]
      BY <1>6, <1>7, <2>1
    <3>2. RecordSound(stores[q][k], k)
      BY <3>1 DEF IInv, RecordsSound
    <3>3. stores[q][k].token = tok => k = n /\ q = p
      BY <1>1, <1>7, <3>1, <3>2 DEF RecordSound, IInv, LinksApart, n
    <3> QED BY <2>1, <3>1, <3>3
  <2> QED BY <2>1
<1>11. RecordsSound'
  <2>1. ASSUME NEW q \in Pods, NEW k \in DOMAIN stores'[q]
        PROVE  RecordSound(stores[q][k], k)'
    <3>1. CASE q = p /\ k = n
      <4>1. d # Undecided /\ [token |-> tok, decision |-> d] \in verdicts'
        BY <1>2 DEF v, Decisions, Undecided
      <4> QED BY <1>6, <3>1, <4>1 DEF RecordSound, n
    <3>2. CASE ~ (q = p /\ k = n)
      <4>1. /\ k \in DOMAIN stores[q] /\ stores'[q][k] = stores[q][k]
            /\ stores[q][k].token # tok
        BY <1>10, <3>2
      <4>2. RecordSound(stores[q][k], k)
        BY <4>1 DEF IInv, RecordsSound
      <4> QED BY <1>2, <1>4, <4>1, <4>2 DEF RecordSound
    <3> QED BY <3>1, <3>2
  <2> QED BY <2>1 DEF RecordsSound
<1>12. LinksApart'
  BY <1>1, <1>6, <1>10 DEF IInv, LinksApart
<1>13. VerdictsSound'
  BY <1>2, <1>4, <1>5 DEF IInv, VerdictsSound
<1>14. NotStranded'
  <2>1. ASSUME NEW w \in verdicts, NEW b \in Callers, InFlight(b), PairOf(b) = w
        PROVE  InFlight(b)' /\ PairOf(b)' = w
    <3>1. b # c
      BY <2>1, SendingCarriesNothing DEF IInv, CallersSound, CallerSound, Sending
    <3>2. callers'[b] = callers[b]
      BY <1>3, <3>1 DEF Step, IInv, TypeOK
    <3> QED BY <2>1, <3>2 DEF InFlight, PairOf
  <2>2. InFlight(c)' /\ PairOf(c)' = v
    <3>1. callers'[c] = r
      BY <1>3 DEF Step, IInv, TypeOK
    <3> QED BY <1>3, <3>1 DEF InFlight, InFlightPcs, PairOf, v
  <2>3. ASSUME NEW w \in verdicts
        PROVE  \/ w \in topic' \/ w.token \in told'
               \/ \E b \in Callers : InFlight(b)' /\ PairOf(b)' = w
    BY <2>1 DEF IInv, NotStranded
  <2> QED BY <1>2, <2>2, <2>3 DEF NotStranded
<1>15. PodsSound'
  BY DEF IInv, PodsSound
<1> QED BY <1>9, <1>11, <1>12, <1>13, <1>14, <1>15 DEF IInv

\* A store that changes in nothing but its flags, under the same links.
LEMMA FlagsKeepRecords ==
  ASSUME IInv, UNCHANGED <<issued, verdicts>>,
         NEW p \in Pods, NEW s, IsStore(s), stores' = [stores EXCEPT ![p] = s],
         \A n \in DOMAIN s : /\ n \in DOMAIN stores[p]
                             /\ s[n].token = stores[p][n].token
                             /\ s[n].decided = stores[p][n].decided
  PROVE  RecordsSound' /\ LinksApart'
<1>1. stores'[p] = s /\ \A q \in Pods : q # p => stores'[q] = stores[q]
  BY OneStore DEF IInv
<1>2. \A q \in Pods : \A n \in DOMAIN stores'[q] :
        /\ n \in DOMAIN stores[q]
        /\ stores'[q][n].token = stores[q][n].token
        /\ stores'[q][n].decided = stores[q][n].decided
  BY <1>1
<1> QED BY <1>2, RecordsKept DEF IInv

LEMMA TapRetriesKeeps ==
  ASSUME IInv, TypeOK', NEW c \in Callers, NEW tok \in DOMAIN issued,
         callers[c].pc = "sendingTap",
         TapRetries(c, stores[callers[c].pod], issued[tok], tok),
         UNCHANGED <<pods, topic, limbo, issued, told, acked>>
  PROVE  IInv'
<1> DEFINE p == callers[c].pod
           s == stores[p]
           n == issued[tok]
           d == s[n].decided
<1>1. /\ p \in Pods /\ tok \in Tokens /\ IsStore(s)
      /\ n \in DOMAIN s /\ s[n] \in Request /\ s[n].token = tok
      /\ n \in Nonces /\ RecordSound(s[n], n)
  BY TapFinds DEF TapRetries
<1>2. d \in Decisions /\ [token |-> tok, decision |-> d] \in verdicts
  BY <1>1 DEF TapRetries, Owes, Request, RecordSound
<1>3. /\ stores' = [stores EXCEPT ![p] = Put(s, n, Claimed(s[n]))]
      /\ verdicts' = verdicts
      /\ Claim(c, tok, d)
  BY DEF TapRetries
<1>4. PICK r \in CallerState :
        /\ Step(c, r)
        /\ r.pc = "publishing" /\ r.pod = p
        /\ r.token = tok /\ r.decision = d
        /\ r.delivered = callers[c].delivered
        /\ Need(r) = PublishTimeout
  BY <1>1, <1>2, <1>3, ClaimFacts DEF IInv
<1>5. Monotone
  BY <1>3, RolloutAssumption DEF Monotone, IInv, TypeOK, PodState
<1>6. CallersSound'
  <2>1. InTime(r)'
    BY <1>4, ClaimInTime
  <2>2. ~ callers[c].delivered
    BY DEF IInv, CallersSound, CallerSound, Sending
  <2>3. [token |-> r.token, decision |-> r.decision] \in verdicts'
    BY <1>2, <1>3, <1>4
  <2>4. PublishSound(r)'
    BY <1>4, <2>2, <2>3 DEF PublishSound
  <2>5. CallerSound(r)'
    BY <1>4, <2>1, <2>4 DEF CallerSound, Sending
  <2> QED BY <1>4, <1>5, <2>5, StepKeepsCallers DEF IInv
<1>7. RecordsSound' /\ LinksApart'
  <2>1. /\ Claimed(s[n]) \in Request
        /\ Claimed(s[n]).token = s[n].token
        /\ Claimed(s[n]).decided = s[n].decided
    BY <1>1, ClaimedFacts
  <2>2. /\ IsStore(Put(s, n, Claimed(s[n])))
        /\ DOMAIN Put(s, n, Claimed(s[n])) = DOMAIN s \cup {n}
        /\ Put(s, n, Claimed(s[n]))[n] = Claimed(s[n])
        /\ \A k \in DOMAIN s : k # n => Put(s, n, Claimed(s[n]))[k] = s[k]
    BY <1>1, <2>1, PutFacts
  <2>3. PICK q : q = Put(s, n, Claimed(s[n]))
    OBVIOUS
  <2>4. \A k \in DOMAIN q : /\ k \in DOMAIN s
                            /\ q[k].token = s[k].token
                            /\ q[k].decided = s[k].decided
    BY <1>1, <2>1, <2>2, <2>3
  <2>5. IsStore(q) /\ stores' = [stores EXCEPT ![p] = q]
    BY <1>3, <2>2, <2>3
  <2>6. UNCHANGED <<issued, verdicts>>
    BY <1>3
  <2> QED BY <1>1, <2>4, <2>5, <2>6, FlagsKeepRecords
<1>8. VerdictsSound'
  BY <1>3 DEF IInv, VerdictsSound
<1>9. NotStranded'
  BY <1>3, <1>4, ReadingStrandsNothing DEF Sending
<1>10. PodsSound'
  BY DEF IInv, PodsSound
<1> QED BY <1>6, <1>7, <1>8, <1>9, <1>10 DEF IInv

LEMMA TapKeeps ==
  ASSUME IInv, TypeOK', NEW c \in Callers, NEW tok \in DOMAIN issued,
         NEW d \in Decisions, Tap(c, tok, d)
  PROVE  IInv'
<1> DEFINE s == stores[callers[c].pod]
           n == issued[tok]
<1>1. /\ callers[c].pc = "sendingTap"
      /\ UNCHANGED <<pods, topic, limbo, issued, told, acked>>
  BY DEF Tap
<1>2. CASE TapUnknown(c, s, n, tok)
  <2>1. tok \in Tokens
    BY DEF IInv, TypeOK
  <2> QED BY <1>1, <1>2, <2>1, EndFacts, AnswerKeeps
          DEF TapUnknown, Sending, history
<1>3. CASE TapExpired(c, s, n, tok)
  BY <1>1, <1>3, IdleFacts, AnswerKeeps DEF TapExpired, Answer, Sending, history
<1>4. CASE TapDecides(c, s, n, tok, d)
  BY <1>1, <1>4, TapDecidesKeeps
<1>5. CASE TapRetries(c, s, n, tok)
  BY <1>1, <1>5, TapRetriesKeeps
<1>6. CASE TapReplayed(c, s, n, tok)
  BY <1>1, <1>6, IdleFacts, AnswerKeeps DEF TapReplayed, Answer, Sending, history
<1> QED BY <1>2, <1>3, <1>4, <1>5, <1>6 DEF Tap

\* What a handler that publishes, or has published, holds.
LEMMA HandlerHolds ==
  ASSUME IInv, NEW c \in Callers,
         callers[c].pc \in {"publishing", "acked", "errored"}
  PROVE  /\ InFlight(c)
         /\ InTime(callers[c])
         /\ PublishSound(callers[c])
         /\ PairOf(c) \in verdicts
         /\ PairOf(c).token = callers[c].token
         /\ callers[c].pod \in Pods
         /\ IsStore(stores[callers[c].pod])
BY DEF IInv, TypeOK, CallersSound, CallerSound, InTime, PublishSound, Sending,
       InFlightPcs, InFlight, PairOf

\* A publish that goes on, with what the topic has learnt of it.
LEMMA ProgressKeeps ==
  ASSUME IInv, TypeOK', NEW c \in Callers, callers[c].pc = "publishing",
         NEW r \in CallerState, Step(c, r),
         r.pc \in {"publishing", "acked", "errored"},
         r.pod = callers[c].pod, Need(r) = Need(callers[c]),
         r.token = callers[c].token, r.decision = callers[c].decision,
         r.delivered => PairOf(c) \in topic',
         r.pc = "acked" => r.delivered,
         topic \subseteq topic', topic' \cup limbo' \subseteq verdicts,
         UNCHANGED <<pods, stores, issued, verdicts, told>>
  PROVE  IInv'
<1>1. /\ InTime(callers[c]) /\ PublishSound(callers[c])
      /\ callers[c].pod \in Pods
  BY HandlerHolds
<1>2. Monotone
  BY RolloutAssumption DEF Monotone, IInv, TypeOK, PodState
<1>3. CallersSound'
  <2>1. InTime(r)'
    BY <1>1 DEF InTime, Need
  <2>2. PublishSound(r)'
    BY <1>1 DEF PublishSound, PairOf
  <2>3. CallerSound(r)'
    BY <2>1, <2>2 DEF CallerSound, Sending
  <2> QED BY <1>2, <2>3, StepKeepsCallers DEF IInv
<1>4. RecordsSound' /\ LinksApart'
  BY RecordsKept DEF IInv
<1>5. VerdictsSound'
  BY DEF IInv, VerdictsSound
<1>6. NotStranded'
  <2>1. ASSUME NEW b \in Callers, InFlight(b)
        PROVE  InFlight(b)' /\ PairOf(b)' = PairOf(b)
    <3>1. CASE b = c
      <4>1. callers'[c] = r
        BY DEF Step, IInv, TypeOK
      <4> QED BY <3>1, <4>1 DEF InFlight, InFlightPcs, PairOf
    <3>2. CASE b # c
      <4>1. callers'[b] = callers[b]
        BY <3>2 DEF Step, IInv, TypeOK
      <4> QED BY <2>1, <4>1 DEF InFlight, PairOf
    <3> QED BY <3>1, <3>2
  <2> QED BY <2>1, NothingStranded DEF IInv
<1>7. PodsSound'
  BY DEF IInv, PodsSound
<1> QED BY <1>3, <1>4, <1>5, <1>6, <1>7 DEF IInv

\* A publish that is over: its pair was heard, or its caller is told.
LEMMA FinishKeeps ==
  ASSUME IInv, TypeOK', NEW c \in Callers,
         callers[c].pc \in {"acked", "errored"},
         NEW s, IsStore(s), stores' = [stores EXCEPT ![callers[c].pod] = s],
         \A n \in DOMAIN s :
           /\ n \in DOMAIN stores[callers[c].pod]
           /\ s[n].token = stores[callers[c].pod][n].token
           /\ s[n].decided = stores[callers[c].pod][n].decided,
         Step(c, Idle), told \subseteq told',
         callers[c].pc = "errored" => callers[c].token \in told',
         UNCHANGED <<pods, topic, limbo, issued, verdicts>>
  PROVE  IInv'
<1>1. callers[c].pod \in Pods /\ PublishSound(callers[c])
  BY HandlerHolds
<1>2. Monotone
  BY RolloutAssumption DEF Monotone, IInv, TypeOK, PodState
<1>3. CallersSound'
  BY <1>2, IdleFacts, EndKeepsCallers
<1>4. RecordsSound' /\ LinksApart'
  BY <1>1, FlagsKeepRecords
<1>5. VerdictsSound'
  BY DEF IInv, VerdictsSound
<1>6. NotStranded'
  <2>1. ASSUME NEW b \in Callers, InFlight(b)
        PROVE  \/ InFlight(b)' /\ PairOf(b)' = PairOf(b)
               \/ PairOf(b) \in topic'
               \/ PairOf(b).token \in told'
    <3>1. CASE b = c
      BY <1>1, <3>1 DEF PublishSound, PairOf
    <3>2. CASE b # c
      <4>1. callers'[b] = callers[b]
        BY <3>2 DEF Step, IInv, TypeOK
      <4> QED BY <2>1, <4>1 DEF InFlight, PairOf
    <3> QED BY <3>1, <3>2
  <2> QED BY <2>1, NothingStranded DEF IInv
<1>7. PodsSound'
  BY DEF IInv, PodsSound
<1> QED BY <1>3, <1>4, <1>5, <1>6, <1>7 DEF IInv

LEMMA HandlerKeeps ==
  ASSUME IInv, TypeOK', NEW c \in Callers, HandlerStep(c) \/ NtfyAccepts(c)
  PROVE  IInv'
<1>1. TypeOK /\ VerdictsSound
  BY DEF IInv
<1>2. CASE GivesUp(c)
  BY <1>2, IdleFacts, AnswerKeeps DEF GivesUp, Answer, Sending
<1>3. CASE PublishSucceeds(c)
  <2> DEFINE r == [callers[c] EXCEPT !.pc = "acked"]
  <2>1. callers[c] \in CallerState
    BY <1>1 DEF TypeOK
  <2>2. PICK q \in CallerState : q = r
    BY <1>1, <1>3, ProgressFacts DEF PublishSucceeds
  <2>3. q.pc = "acked" /\ q.delivered = callers[c].delivered
    BY <2>1, <2>2 DEF CallerState
  <2>4. /\ q.pod = callers[c].pod /\ Need(q) = Need(callers[c])
        /\ q.token = callers[c].token /\ q.decision = callers[c].decision
    BY <1>1, <1>3, <2>2, ProgressFacts DEF PublishSucceeds
  <2>5. PairOf(c) \in topic
    BY <1>3, HandlerHolds DEF PublishSucceeds, PublishSound, PairOf
  <2>6. Step(c, q)
    BY <1>3, <2>2 DEF PublishSucceeds
  <2> QED BY <1>1, <1>3, <2>3, <2>4, <2>5, <2>6, ProgressKeeps
          DEF PublishSucceeds, VerdictsSound
<1>4. CASE PublishFails(c)
  <2> DEFINE r == [callers[c] EXCEPT !.pc = "errored"]
  <2>1. callers[c] \in CallerState
    BY <1>1 DEF TypeOK
  <2>2. PICK q \in CallerState : q = r
    BY <1>1, <1>4, ProgressFacts DEF PublishFails
  <2>3. q.pc = "errored" /\ q.delivered = callers[c].delivered
    BY <2>1, <2>2 DEF CallerState
  <2>4. /\ q.pod = callers[c].pod /\ Need(q) = Need(callers[c])
        /\ q.token = callers[c].token /\ q.decision = callers[c].decision
    BY <1>1, <1>4, <2>2, ProgressFacts DEF PublishFails
  <2>5. /\ PairOf(c) \in verdicts
        /\ callers[c].delivered => PairOf(c) \in topic
    BY <1>4, HandlerHolds DEF PublishFails, PublishSound, PairOf
  <2>6. Step(c, q)
    BY <1>4, <2>2 DEF PublishFails
  <2>7. topic' = topic /\ topic' \cup limbo' \subseteq verdicts
    BY <1>1, <1>4, <2>5 DEF PublishFails, VerdictsSound
  <2>8. UNCHANGED <<pods, stores, issued, verdicts, told>>
    BY <1>4 DEF PublishFails, history
  <2>9. callers[c].pc = "publishing"
    BY <1>4 DEF PublishFails
  <2> QED BY <2>3, <2>4, <2>5, <2>6, <2>7, <2>8, <2>9, ProgressKeeps
<1>5. CASE NtfyAccepts(c)
  <2> DEFINE r == [callers[c] EXCEPT !.delivered = TRUE]
  <2>1. callers[c] \in CallerState
    BY <1>1 DEF TypeOK
  <2>2. PICK q \in CallerState : q = r
    BY <1>1, <1>5, ProgressFacts DEF NtfyAccepts
  <2>3. q.pc = "publishing"
    BY <1>5, <2>1, <2>2 DEF CallerState, NtfyAccepts
  <2>4. /\ q.pod = callers[c].pod /\ Need(q) = Need(callers[c])
        /\ q.token = callers[c].token /\ q.decision = callers[c].decision
    BY <1>1, <1>5, <2>2, ProgressFacts DEF NtfyAccepts
  <2>5. PairOf(c) \in verdicts /\ topic' = topic \cup {PairOf(c)}
    BY <1>5, HandlerHolds DEF NtfyAccepts
  <2>6. Step(c, q)
    BY <1>5, <2>2 DEF NtfyAccepts
  <2>7. topic' \cup limbo' \subseteq verdicts
    BY <1>1, <1>5, <2>5 DEF NtfyAccepts, VerdictsSound
  <2>8. UNCHANGED <<pods, stores, issued, verdicts, told>>
    BY <1>5 DEF NtfyAccepts, history
  <2>9. callers[c].pc = "publishing"
    BY <1>5 DEF NtfyAccepts
  <2> QED BY <2>3, <2>4, <2>5, <2>6, <2>7, <2>8, <2>9, ProgressKeeps
<1>6. CASE Marks(c)
  <2>1. callers[c].pc = "acked" /\ Step(c, Idle)
    BY <1>6 DEF Marks, Answer
  <2>2. PICK s : s = MarkPublished(stores[callers[c].pod],
                                   issued[callers[c].token])
    OBVIOUS
  <2>3. IsStore(stores[callers[c].pod]) /\ callers[c].pod \in Pods
    BY <2>1, HandlerHolds
  <2>4. /\ IsStore(s)
        /\ \A n \in DOMAIN s :
             /\ n \in DOMAIN stores[callers[c].pod]
             /\ s[n].token = stores[callers[c].pod][n].token
             /\ s[n].decided = stores[callers[c].pod][n].decided
    BY <2>2, <2>3, MarkPublishedFacts
  <2>5. stores' = [stores EXCEPT ![callers[c].pod] = s]
    BY <1>6, <2>2 DEF Marks
  <2>6. UNCHANGED <<pods, topic, limbo, issued, verdicts, told>>
    BY <1>6 DEF Marks, history
  <2> QED BY <2>1, <2>4, <2>5, <2>6, FinishKeeps
<1>7. CASE Releases(c)
  <2>1. callers[c].pc = "errored" /\ Step(c, Idle)
    BY <1>7 DEF Releases, Answer
  <2>2. PICK s : s = ReleasePublish(stores[callers[c].pod],
                                    issued[callers[c].token])
    OBVIOUS
  <2>3. IsStore(stores[callers[c].pod]) /\ callers[c].pod \in Pods
    BY <2>1, HandlerHolds
  <2>4. /\ IsStore(s)
        /\ \A n \in DOMAIN s :
             /\ n \in DOMAIN stores[callers[c].pod]
             /\ s[n].token = stores[callers[c].pod][n].token
             /\ s[n].decided = stores[callers[c].pod][n].decided
    BY <2>2, <2>3, ReleasePublishFacts
  <2>5. stores' = [stores EXCEPT ![callers[c].pod] = s]
    BY <1>7, <2>2 DEF Releases
  <2>6. /\ UNCHANGED <<pods, topic, limbo, issued, verdicts>>
        /\ told' = told \cup {callers[c].token}
    BY <1>7 DEF Releases
  <2> QED BY <2>1, <2>4, <2>5, <2>6, FinishKeeps
<1> QED BY <1>2, <1>3, <1>4, <1>5, <1>6, <1>7 DEF HandlerStep

\* When no caller moves, the callers stay sound and nothing is stranded.
LEMMA StillCallers ==
  ASSUME IInv, TypeOK', Monotone, callers' = callers, verdicts' = verdicts
  PROVE  CallersSound' /\ NotStranded'
<1>1. CallersSound'
  <2>1. ASSUME NEW c \in Callers PROVE CallerSound(callers[c])'
    <3>1. PICK r \in CallerState : r = callers[c]
      BY DEF IInv, TypeOK
    <3>2. CallerSound(r)'
      BY <3>1, CallerKept DEF IInv, CallersSound
    <3> QED BY <3>1, <3>2 DEF CallerSound, InTime, Need, PublishSound
  <2> QED BY <2>1 DEF CallersSound
<1>2. \A c \in Callers : InFlight(c)' = InFlight(c) /\ PairOf(c)' = PairOf(c)
  BY DEF InFlight, PairOf
<1>3. NotStranded'
  BY <1>2, NothingStranded DEF IInv, Monotone
<1> QED BY <1>1, <1>3

LEMMA PodKeeps ==
  ASSUME IInv, TypeOK', NEW p \in Pods,
         Surge(p) \/ Terminate(p) \/ Exit(p) \/ Reap(p)
  PROVE  IInv'
<1>1. /\ TypeOK /\ PodsSound /\ VerdictsSound
      /\ \A q \in Pods : pods[q].since \in Nat
  BY RolloutAssumption DEF IInv, TypeOK, PodState
<1>2. UNCHANGED <<topic, limbo, issued, verdicts, told>>
  BY DEF Surge, Terminate, Exit, Reap, history
<1>3. callers' = callers
  <2>1. CASE Exit(p)
    <3>1. ASSUME NEW c \in Callers PROVE callers'[c] = callers[c]
      <4>1. ~ InFlightOn(c, p)
        BY <2>1, ExitIsDrained DEF Exit, Drained, IInv
      <4> QED BY <2>1, <4>1 DEF Exit
    <3> QED BY <1>1, <2>1, <3>1 DEF Exit, TypeOK
  <2> QED BY <2>1 DEF Surge, Terminate, Reap
<1>4. \A q \in Pods :
        /\ pods'[q].since <= pods[q].since
        /\ pods'[q].phase # "draining" => pods'[q].since = 0
  <2>1. ASSUME NEW q \in Pods
        PROVE  \/ pods'[q] = pods[q]
               \/ pods'[q].since = 0
               \/ /\ pods[q].phase # "draining"
                  /\ pods'[q].since = pods[q].since
    <3>1. CASE Surge(p)
      BY <1>1, <3>1 DEF Surge, TypeOK, PodState
    <3>2. CASE Terminate(p)
      BY <1>1, <3>2 DEF Terminate, TypeOK
    <3>3. CASE Exit(p)
      BY <1>1, <3>3 DEF Exit, Absent, TypeOK
    <3>4. CASE Reap(p)
      BY <3>4 DEF Reap
    <3> QED BY <3>1, <3>2, <3>3, <3>4
  <2> QED BY <1>1, <2>1 DEF PodsSound
<1>5. Monotone /\ PodsSound'
  <2>1. Monotone
    BY <1>2, <1>4 DEF Monotone
  <2>2. PodsSound'
    BY <1>4 DEF PodsSound
  <2> QED BY <2>1, <2>2
<1>6. CallersSound' /\ NotStranded'
  BY <1>2, <1>3, <1>5, StillCallers
<1>7. RecordsSound' /\ LinksApart'
  <2>1. CASE Exit(p)
    BY <1>2, <2>1, EmptyStoreFacts, FlagsKeepRecords DEF Exit
  <2>2. CASE Reap(p)
    <3>1. IsStore(stores[p])
      BY <1>1 DEF TypeOK
    <3>2. PICK s : s = Reaped(stores[p])
      OBVIOUS
    <3>3. /\ IsStore(s)
          /\ \A n \in DOMAIN s :
               /\ n \in DOMAIN stores[p]
               /\ s[n].token = stores[p][n].token
               /\ s[n].decided = stores[p][n].decided
      BY <3>1, <3>2, ReapedFacts
    <3>4. stores' = [stores EXCEPT ![p] = s]
      BY <2>2, <3>2 DEF Reap
    <3> QED BY <1>2, <3>3, <3>4, FlagsKeepRecords
  <2>3. CASE stores' = stores
    BY <1>2, <2>3, RecordsKept DEF IInv
  <2> QED BY <2>1, <2>2, <2>3 DEF Surge, Terminate
<1>8. VerdictsSound'
  BY <1>1, <1>2 DEF VerdictsSound
<1> QED BY <1>5, <1>6, <1>7, <1>8 DEF IInv

LEMMA TickKeeps ==
  ASSUME IInv, TypeOK', Tick
  PROVE  IInv'
<1>1. UNCHANGED <<topic, limbo, issued, verdicts, told>>
  BY DEF Tick, history
<1>2. ASSUME NEW c \in Callers
      PROVE  /\ callers'[c].pc = callers[c].pc
             /\ callers'[c].pod = callers[c].pod
             /\ callers'[c].token = callers[c].token
             /\ callers'[c].decision = callers[c].decision
             /\ callers'[c].delivered = callers[c].delivered
             /\ InFlight(c) => callers'[c].left + 1 = callers[c].left
  <2>1. callers[c] \in CallerState /\ callers[c].left \in Nat
    BY RolloutAssumption DEF IInv, TypeOK, CallerState
  <2>2. CASE InFlight(c)
    BY <2>1, <2>2 DEF Tick, CallerState
  <2>3. CASE ~ InFlight(c)
    BY <2>3 DEF Tick
  <2> QED BY <2>2, <2>3
<1>3. ASSUME NEW p \in Pods
      PROVE  /\ pods'[p].phase = pods[p].phase
             /\ pods'[p].since <= pods[p].since + 1
             /\ pods[p].phase # "draining" => pods'[p].since = pods[p].since
  <2>1. pods[p] \in PodState /\ pods[p].since \in Nat
    BY RolloutAssumption DEF IInv, TypeOK, PodState
  <2>2. CASE pods[p].phase = "draining"
    BY <2>1, <2>2 DEF Tick, PodState
  <2>3. CASE pods[p].phase # "draining"
    BY <2>1, <2>3 DEF Tick
  <2> QED BY <2>2, <2>3
<1>4. ASSUME NEW c \in Callers, InFlight(c), InTime(callers[c])
      PROVE  InTime(callers[c])'
  <2>1. PICK p \in Pods : p = callers[c].pod
    BY <1>4 DEF InTime
  <2>2. PICK extra \in Nat :
          /\ Need(callers[c]) = callers[c].left + extra
          /\ Need(callers[c])' = callers'[c].left + extra
    BY <1>2, RolloutAssumption DEF Need
  <2>3. /\ pods[p].since \in Nat /\ pods'[p].since \in Nat
        /\ callers[c].left \in Nat /\ callers'[c].left \in Nat
    BY RolloutAssumption DEF IInv, TypeOK, PodState, CallerState
  <2>4. pods'[p].since + (callers'[c].left + extra) < DrainTimeout
    BY <1>2, <1>3, <1>4, <2>1, <2>2, <2>3, RolloutAssumption DEF InTime
  <2> QED BY <1>2, <2>1, <2>2, <2>4 DEF InTime
<1>5. CallersSound'
  <2>1. ASSUME NEW c \in Callers PROVE CallerSound(callers[c])'
    <3>1. CallerSound(callers[c])
      BY DEF IInv, CallersSound
    <3>2. InFlight(c) => InTime(callers[c])'
      BY <1>4, <3>1 DEF CallerSound, InFlight
    <3>3. PublishSound(callers[c]) => PublishSound(callers[c])'
      BY <1>1, <1>2 DEF PublishSound
    <3> QED BY <1>2, <3>1, <3>2, <3>3 DEF CallerSound, InFlight
  <2> QED BY <2>1 DEF CallersSound
<1>6. NotStranded'
  <2>1. \A c \in Callers : InFlight(c)' = InFlight(c) /\ PairOf(c)' = PairOf(c)
    BY <1>2 DEF InFlight, PairOf
  <2> QED BY <1>1, <2>1, NothingStranded DEF IInv
<1>7. RecordsSound' /\ LinksApart'
  <2>1. ASSUME NEW p \in Pods, NEW n \in DOMAIN stores'[p]
        PROVE  /\ n \in DOMAIN stores[p]
               /\ stores'[p][n].token = stores[p][n].token
               /\ stores'[p][n].decided = stores[p][n].decided
    <3>1. IsStore(stores[p]) /\ stores'[p] = Aged(stores[p])
      BY DEF IInv, TypeOK, Tick
    <3> QED BY <3>1, AgedFacts
  <2> QED BY <1>1, <2>1, RecordsKept DEF IInv
<1>8. VerdictsSound'
  BY <1>1 DEF IInv, VerdictsSound
<1>9. PodsSound'
  BY <1>3 DEF IInv, PodsSound
<1> QED BY <1>5, <1>6, <1>7, <1>8, <1>9 DEF IInv

LEMMA LateArrivalKeeps ==
  ASSUME IInv, TypeOK', LateArrival
  PROVE  IInv'
<1>1. PICK m \in limbo : limbo' = limbo \ {m} /\ topic' = topic \cup {m}
  BY DEF LateArrival
<1>2. UNCHANGED <<pods, stores, callers, issued, verdicts, told>>
  BY DEF LateArrival, history
<1>3. Monotone
  BY <1>1, <1>2, RolloutAssumption DEF Monotone, IInv, TypeOK, PodState
<1>4. CallersSound' /\ NotStranded'
  BY <1>2, <1>3, StillCallers
<1>5. RecordsSound' /\ LinksApart'
  BY <1>2, RecordsKept DEF IInv
<1>6. VerdictsSound'
  BY <1>1, <1>2 DEF IInv, VerdictsSound
<1>7. PodsSound'
  BY <1>2 DEF IInv, PodsSound
<1> QED BY <1>4, <1>5, <1>6, <1>7 DEF IInv

-----------------------------------------------------------------------------
LEMMA InitSound == Init => IInv
<1> SUFFICES ASSUME Init PROVE IInv
  OBVIOUS
<1>1. 0 \in 0 .. DrainTimeout
  BY RolloutAssumption
<1>2. pods \in [Pods -> PodState] /\ PodsSound
  BY <1>1 DEF Init, Absent, PodState, Phases, PodsSound
<1>3. /\ DOMAIN stores = Pods
      /\ \A p \in Pods : IsStore(stores[p]) /\ DOMAIN stores[p] = {}
  BY EmptyStoreFacts DEF Init
<1>4. callers \in [Callers -> CallerState] /\ CallersSound
  BY IdleFacts DEF Init, CallersSound, CallerSound, Sending, InFlightPcs
<1>5. DOMAIN issued = {} /\ issued \in [DOMAIN issued -> Nonces]
  BY DEF Init, EmptyStore
<1>6. TypeOK
  BY <1>2, <1>3, <1>4, <1>5 DEF Init, TypeOK
<1>7. RecordsSound /\ LinksApart /\ VerdictsSound /\ NotStranded
  BY <1>3 DEF Init, RecordsSound, LinksApart, VerdictsSound, NotStranded
<1> QED BY <1>2, <1>4, <1>6, <1>7 DEF IInv

LEMMA StepSound ==
  ASSUME IInv, [Next]_vars
  PROVE  IInv'
<1>0. TypeOK'
  BY TypeStep
<1>1. ASSUME NEW p \in Pods, Surge(p) \/ Terminate(p) \/ Exit(p) \/ Reap(p)
      PROVE  IInv'
  BY <1>0, <1>1, PodKeeps
<1>2. ASSUME NEW c \in Callers, NEW p \in Pods,
             NEW pc \in {"sendingForm", "sendingTap"}, Connect(c, p, pc)
      PROVE  IInv'
  BY <1>0, <1>2, ConnectKeeps
<1>3. ASSUME NEW c \in Callers, HandlerStep(c) \/ NtfyAccepts(c)
      PROVE  IInv'
  BY <1>0, <1>3, HandlerKeeps
<1>4. ASSUME NEW c \in Callers, NEW n \in Nonces, NEW tok \in Tokens,
             NEW det \in Details, Register(c, n, tok, det)
      PROVE  IInv'
  BY <1>0, <1>4, RegisterKeeps
<1>5. ASSUME NEW c \in Callers, NEW n \in Nonces, RegisterDuplicate(c, n)
      PROVE  IInv'
  BY <1>0, <1>5, IdleFacts, AnswerKeeps DEF RegisterDuplicate, Answer, Sending
<1>6. ASSUME NEW c \in Callers, NEW tok \in DOMAIN issued,
             NEW d \in Decisions, Tap(c, tok, d)
      PROVE  IInv'
  BY <1>0, <1>6, TapKeeps
<1>7. CASE LateArrival
  BY <1>0, <1>7, LateArrivalKeeps
<1>8. CASE Tick
  BY <1>0, <1>8, TickKeeps
<1>9. CASE UNCHANGED vars
  <2>1. UNCHANGED <<pods, stores, callers, topic, limbo, issued, verdicts, told>>
    BY <1>9 DEF vars
  <2>2. Monotone
    BY <2>1, RolloutAssumption DEF Monotone, IInv, TypeOK, PodState
  <2>3. CallersSound' /\ NotStranded'
    BY <1>0, <2>1, <2>2, StillCallers
  <2>4. RecordsSound' /\ LinksApart'
    BY <2>1, RecordsKept DEF IInv
  <2> QED BY <1>0, <2>1, <2>3, <2>4 DEF IInv, VerdictsSound, PodsSound
<1> QED BY <1>1, <1>2, <1>3, <1>4, <1>5, <1>6, <1>7, <1>8, <1>9 DEF Next

LEMMA IInvInvariant == Spec => []IInv
<1>1. IInv /\ [Next]_vars => IInv'
  BY StepSound
<1> QED BY <1>1, InitSound, PTL DEF Spec

\* The variables of a rollout keep their types.
THEOREM TypeCorrect == Spec => []TypeOK
BY IInvInvariant, PTL DEF IInv

\* With a drain that outlasts reading a form, and reading a tap and publishing
\* it, no request that was accepted is cut short by an exit.
THEOREM NoneCutHolds == Spec => []NoneCut
<1>1. IInv => NoneCut
  BY DEF IInv, CallersSound, CallerSound, NoneCut
<1> QED BY <1>1, IInvInvariant, PTL

\* Whatever two pods, their exits and ntfy do, every decision was heard, or its
\* tap is under way, or its caller was told that it could not be sent.
THEOREM NotStrandedHolds == Spec => []NotStranded
BY IInvInvariant, PTL DEF IInv

-----------------------------------------------------------------------------
(***************************************************************************)
(* Rollout implements OneTap.                                              *)
(***************************************************************************)
\* A decided registration has the phase of its one decision.
LEMMA DecidedPhase ==
  ASSUME IInv, NEW t, NEW d \in Decisions, VerdictOn(t, d)
  PROVE  Phase(t) = d
<1>1. \A e \in Decisions : VerdictOn(t, e) => e = d
  BY DEF IInv, VerdictsSound, VerdictOn
<1> QED BY <1>1 DEF Phase, Decisions

\* A registration without a decision has a phase of its own.
LEMMA UndecidedPhase ==
  ASSUME NEW t, \A v \in verdicts : v.token # t
  PROVE  Phase(t) = IF t \notin DOMAIN issued THEN "unissued"
                    ELSE IF \E p \in Pods : OpenIn(stores[p], t) THEN "open"
                    ELSE "void"
<1>1. \A d : ~ VerdictOn(t, d)
  BY DEF VerdictOn
<1> QED BY <1>1 DEF Phase

\* Steps that leave the promise alone.
LEMMA Stutters ==
  ASSUME UNCHANGED <<stores, topic, issued, verdicts, acked>>
  PROVE  UNCHANGED Abstract!vars
<1>1. \A t : Phase(t)' = Phase(t)
  BY DEF Phase, VerdictOn, OpenIn
<1> QED BY <1>1 DEF Abstract!vars

\* Records are dropped, or keep their link and decision and do not get younger.
OnlyBookkeeping ==
  /\ UNCHANGED <<topic, issued, verdicts, acked>>
  /\ \A p \in Pods : \A n \in DOMAIN stores'[p] :
       /\ n \in DOMAIN stores[p]
       /\ stores'[p][n].token = stores[p][n].token
       /\ stores'[p][n].decided = stores[p][n].decided
       /\ stores'[p][n].age <= RequestTTL => stores[p][n].age <= RequestTTL

\* Bookkeeping closes open registrations and touches no other.
LEMMA BookkeepingVoids ==
  ASSUME OnlyBookkeeping
  PROVE  Abstract!Void
<1> DEFINE S == {t \in Tokens : Phase(t) = "open" /\ Phase(t)' # "open"}
<1>1. ASSUME NEW p \in Pods, NEW t, OpenIn(stores[p], t)'
      PROVE  OpenIn(stores[p], t)
  BY <1>1 DEF OpenIn, OnlyBookkeeping
<1>2. ASSUME NEW t \in Tokens
      PROVE  Phase(t)' = IF t \in S THEN "void" ELSE Phase(t)
  <2>1. \A d : VerdictOn(t, d)' <=> VerdictOn(t, d)
    BY DEF OnlyBookkeeping, VerdictOn
  <2>2. (\E p \in Pods : OpenIn(stores[p], t))'
          => \E p \in Pods : OpenIn(stores[p], t)
    BY <1>1
  <2>3. issued' = issued
    BY DEF OnlyBookkeeping
  <2> QED BY <2>1, <2>2, <2>3 DEF Phase
<1>3. [t \in Tokens |-> Phase(t)']
        = [t \in Tokens |-> IF t \in S THEN "void"
                            ELSE [u \in Tokens |-> Phase(u)][t]]
  BY <1>2
<1>4. S \in SUBSET {t \in Tokens : [u \in Tokens |-> Phase(u)][t] = "open"}
  OBVIOUS
<1> QED BY <1>3, <1>4 DEF Abstract!Void, OnlyBookkeeping

\* Writing one store, in nothing but flags or by dropping records.
LEMMA OneStoreBookkeeping ==
  ASSUME IInv, UNCHANGED <<topic, issued, verdicts, acked>>,
         NEW p \in Pods, NEW s, IsStore(s), stores' = [stores EXCEPT ![p] = s],
         \A n \in DOMAIN s :
           /\ n \in DOMAIN stores[p]
           /\ s[n].token = stores[p][n].token
           /\ s[n].decided = stores[p][n].decided
           /\ s[n].age = stores[p][n].age
  PROVE  Abstract!Void
<1>1. stores'[p] = s /\ \A q \in Pods : q # p => stores'[q] = stores[q]
  BY OneStore DEF IInv
<1>2. OnlyBookkeeping
  BY <1>1 DEF OnlyBookkeeping
<1> QED BY <1>2, BookkeepingVoids

\* A registration becomes open.
LEMMA RegisterIssues ==
  ASSUME IInv, NEW c \in Callers, NEW n \in Nonces, NEW tok \in Tokens,
         NEW det \in Details, Register(c, n, tok, det)
  PROVE  Abstract!Issue(tok)
<1>1. PICK p \in Pods :
        /\ p = callers[c].pod /\ IsStore(stores[p])
        /\ n \notin DOMAIN stores[p] /\ tok \notin DOMAIN issued
        /\ UNCHANGED <<topic, verdicts, acked>>
  BY DEF Register, IInv, TypeOK, CallersSound, CallerSound, InTime, InFlightPcs
<1>2. PICK r \in Request :
        /\ r.token = tok /\ r.decided = Undecided /\ r.age = 0
        /\ stores' = [stores EXCEPT ![p] = Put(stores[p], n, r)]
  <2>1. /\ NewRequest(tok, det).token = tok
        /\ NewRequest(tok, det).decided = Undecided
        /\ NewRequest(tok, det).age = 0
    BY DEF NewRequest
  <2>2. stores' = [stores EXCEPT ![p] = Put(stores[p], n, NewRequest(tok, det))]
    BY <1>1 DEF Register
  <2> QED BY <2>1, <2>2, NewRequestFacts
<1>3. /\ DOMAIN stores'[p] = DOMAIN stores[p] \cup {n}
      /\ stores'[p][n] = r
      /\ \A k \in DOMAIN stores[p] : k # n => stores'[p][k] = stores[p][k]
      /\ \A q \in Pods : q # p => stores'[q] = stores[q]
  <2>1. /\ IsStore(Put(stores[p], n, r))
        /\ DOMAIN Put(stores[p], n, r) = DOMAIN stores[p] \cup {n}
        /\ Put(stores[p], n, r)[n] = r
        /\ \A k \in DOMAIN stores[p] : k # n
             => Put(stores[p], n, r)[k] = stores[p][k]
    BY <1>1, PutFacts
  <2>2. PICK s : IsStore(s) /\ s = Put(stores[p], n, r)
    BY <2>1
  <2>3. TypeOK /\ stores' = [stores EXCEPT ![p] = s]
    BY <1>2, <2>2 DEF IInv
  <2>4. stores'[p] = s /\ \A q \in Pods : q # p => stores'[q] = stores[q]
    BY <1>1, <2>2, <2>3, OneStore
  <2> QED BY <2>1, <2>2, <2>4
<1>4. DOMAIN issued' = DOMAIN issued \cup {tok}
  BY DEF Register, Put
<1>5. \A v \in verdicts : v.token # tok
  BY <1>1 DEF IInv, VerdictsSound
<1>6. Phase(tok) = "unissued"
  BY <1>1, <1>5, UndecidedPhase
<1>7. Phase(tok)' = "open"
  <2>1. OpenIn(stores[p], tok)'
    <3>1. /\ n \in DOMAIN stores'[p] /\ stores'[p][n].token = tok
          /\ stores'[p][n].decided = Undecided
          /\ stores'[p][n].age <= RequestTTL
      BY <1>2, <1>3, StoreAssumption
    <3> QED BY <3>1 DEF OpenIn
  <2>2. \A d : ~ VerdictOn(tok, d)'
    BY <1>1, <1>5 DEF VerdictOn
  <2>3. \E q \in Pods : OpenIn(stores[q], tok)'
    BY <2>1
  <2> QED BY <1>4, <2>2, <2>3 DEF Phase
<1>8. ASSUME NEW t \in Tokens, t # tok PROVE Phase(t)' = Phase(t)
  <2>1. \A q \in Pods : OpenIn(stores[q], t)' <=> OpenIn(stores[q], t)
    BY <1>1, <1>2, <1>3, <1>8 DEF OpenIn
  <2>2. \A d : VerdictOn(t, d)' <=> VerdictOn(t, d)
    BY <1>1 DEF VerdictOn
  <2> QED BY <1>4, <1>8, <2>1, <2>2 DEF Phase
<1> QED BY <1>1, <1>6, <1>7, <1>8 DEF Abstract!Issue

\* The first tap in time decides it.
LEMMA TapDecidesDecides ==
  ASSUME IInv, IInv', NEW c \in Callers, NEW tok \in DOMAIN issued,
         NEW d \in Decisions, callers[c].pc = "sendingTap",
         TapDecides(c, stores[callers[c].pod], issued[tok], tok, d),
         UNCHANGED <<topic, issued, acked>>
  PROVE  Abstract!Decide(tok, d)
<1>1. PICK p \in Pods : p = callers[c].pod
  BY DEF IInv, CallersSound, CallerSound, InTime, InFlightPcs
<1>2. PICK n \in Nonces : n = issued[tok]
  BY <1>1, TapFinds DEF TapDecides
<1>3. /\ IsStore(stores[p]) /\ tok \in Tokens
      /\ n \in DOMAIN stores[p] /\ stores[p][n] \in Request
      /\ stores[p][n].token = tok
      /\ RecordSound(stores[p][n], n)
  BY <1>1, <1>2, TapFinds DEF TapDecides
<1>4. /\ stores[p][n].decided = Undecided /\ stores[p][n].age <= RequestTTL
      /\ stores' = [stores EXCEPT
                      ![p] = Put(stores[p], n, Settled(stores[p][n], d))]
      /\ verdicts' = verdicts \cup {[token |-> tok, decision |-> d]}
  BY <1>1, <1>2 DEF TapDecides, Decidable
<1>5. PICK r \in Request :
        r.token = tok /\ r = Settled(stores[p][n], d)
  BY <1>3, SettledFacts
<1>6. /\ DOMAIN stores'[p] = DOMAIN stores[p]
      /\ stores'[p][n].token = tok
      /\ \A k \in DOMAIN stores[p] : k # n => stores'[p][k] = stores[p][k]
      /\ \A q \in Pods : q # p => stores'[q] = stores[q]
  <2>0. /\ IsStore(Put(stores[p], n, r))
        /\ DOMAIN Put(stores[p], n, r) = DOMAIN stores[p] \cup {n}
        /\ Put(stores[p], n, r)[n] = r
        /\ \A k \in DOMAIN stores[p] : k # n
             => Put(stores[p], n, r)[k] = stores[p][k]
    BY <1>3, PutFacts
  <2>1. PICK s : IsStore(s) /\ s = Put(stores[p], n, r)
    BY <2>0
  <2>2. /\ DOMAIN s = DOMAIN stores[p] \cup {n} /\ s[n] = r
        /\ \A k \in DOMAIN stores[p] : k # n => s[k] = stores[p][k]
    BY <2>0, <2>1
  <2>3. TypeOK /\ stores' = [stores EXCEPT ![p] = s]
    BY <1>4, <1>5, <2>1 DEF IInv
  <2>4. stores'[p] = s /\ \A q \in Pods : q # p => stores'[q] = stores[q]
    BY <2>1, <2>3, OneStore
  <2> QED BY <1>3, <1>5, <2>2, <2>4
<1>7. Phase(tok) = "open"
  <2>1. \A v \in verdicts : v.token # tok
    BY <1>3, <1>4 DEF RecordSound
  <2>2. OpenIn(stores[p], tok)
    BY <1>3, <1>4 DEF OpenIn
  <2> QED BY <2>1, <2>2, UndecidedPhase
<1>8. Phase(tok)' = d
  <2>1. \A e \in Decisions : VerdictOn(tok, e)' <=> e = d
    <3>1. [token |-> tok, decision |-> d] \in verdicts'
      BY <1>4
    <3>2. \A v, w \in verdicts' : v.token = w.token => v = w
      BY DEF IInv, VerdictsSound
    <3> QED BY <3>1, <3>2 DEF VerdictOn
  <2> QED BY <2>1 DEF Phase, Decisions
<1>9. ASSUME NEW t \in Tokens, t # tok PROVE Phase(t)' = Phase(t)
  <2>1. \A q \in Pods : OpenIn(stores[q], t)' <=> OpenIn(stores[q], t)
    BY <1>3, <1>6, <1>9 DEF OpenIn
  <2>2. \A e : VerdictOn(t, e)' <=> VerdictOn(t, e)
    BY <1>4, <1>9 DEF VerdictOn
  <2> QED BY <2>1, <2>2 DEF Phase
<1> QED BY <1>3, <1>7, <1>8, <1>9 DEF Abstract!Decide

\* A pair is heard: it is the decision its registration has.
LEMMA PairHears ==
  ASSUME IInv, NEW m \in verdicts, topic' = topic \cup {m},
         UNCHANGED <<stores, issued, verdicts, acked>>
  PROVE  Abstract!Next
<1>1. /\ m.token \in Tokens /\ m.decision \in Decisions
      /\ m = [token |-> m.token, decision |-> m.decision]
  BY DEF IInv, TypeOK, Pair
<1>2. Phase(m.token) = m.decision
  BY <1>1, DecidedPhase DEF VerdictOn
<1>3. \A t : Phase(t)' = Phase(t)
  BY DEF Phase, VerdictOn, OpenIn
<1>4. Abstract!Hear(m.token, m.decision)
  BY <1>1, <1>2, <1>3 DEF Abstract!Hear, Abstract!Pair
<1> QED BY <1>1, <1>4 DEF Abstract!Next

LEMMA TapImplements ==
  ASSUME IInv, IInv', NEW c \in Callers, NEW tok \in DOMAIN issued,
         NEW d \in Decisions, Tap(c, tok, d)
  PROVE  [Abstract!Next]_Abstract!vars
<1> DEFINE s == stores[callers[c].pod]
           n == issued[tok]
<1>1. /\ callers[c].pc = "sendingTap" /\ tok \in Tokens
      /\ UNCHANGED <<topic, issued, acked>>
  BY DEF Tap, IInv, TypeOK
<1>2. CASE UNCHANGED <<stores, verdicts>>
  BY <1>1, <1>2, Stutters
<1>3. CASE TapDecides(c, s, n, tok, d)
  BY <1>1, <1>3, TapDecidesDecides DEF Abstract!Next
<1>4. CASE TapRetries(c, s, n, tok)
  <2>1. PICK p \in Pods : p = callers[c].pod
    BY <1>1 DEF IInv, CallersSound, CallerSound, InTime, InFlightPcs
  <2>2. PICK m \in Nonces : m = n
    BY <1>1 DEF IInv, TypeOK
  <2>3. /\ IsStore(stores[p]) /\ m \in DOMAIN stores[p]
        /\ stores[p][m] \in Request
    BY <1>1, <1>4, <2>1, <2>2, TapFinds DEF TapRetries
  <2>4. PICK r \in Request :
          /\ r = Claimed(stores[p][m])
          /\ r.token = stores[p][m].token
          /\ r.decided = stores[p][m].decided
          /\ r.age = stores[p][m].age
    BY <2>3, ClaimedFacts
  <2>5. /\ IsStore(Put(stores[p], m, r))
        /\ DOMAIN Put(stores[p], m, r) = DOMAIN stores[p] \cup {m}
        /\ Put(stores[p], m, r)[m] = r
        /\ \A k \in DOMAIN stores[p] : k # m
             => Put(stores[p], m, r)[k] = stores[p][k]
    BY <2>3, PutFacts
  <2>6. PICK q : q = Put(stores[p], m, r)
    OBVIOUS
  <2>7. /\ IsStore(q)
        /\ \A k \in DOMAIN q :
             /\ k \in DOMAIN stores[p]
             /\ q[k].token = stores[p][k].token
             /\ q[k].decided = stores[p][k].decided
             /\ q[k].age = stores[p][k].age
    BY <2>3, <2>4, <2>5, <2>6
  <2>8. stores' = [stores EXCEPT ![p] = q] /\ verdicts' = verdicts
    BY <1>4, <2>1, <2>2, <2>4, <2>6 DEF TapRetries
  <2> QED BY <1>1, <2>7, <2>8, OneStoreBookkeeping DEF Abstract!Next
<1> QED BY <1>2, <1>3, <1>4
        DEF Tap, TapUnknown, TapExpired, TapReplayed

LEMMA HandlerImplements ==
  ASSUME IInv, NEW c \in Callers, HandlerStep(c) \/ NtfyAccepts(c)
  PROVE  [Abstract!Next]_Abstract!vars
<1>1. CASE GivesUp(c)
  BY <1>1, Stutters DEF GivesUp, history
<1>2. CASE PublishSucceeds(c)
  <2>1. PublishSound(callers[c])
    BY <1>2, HandlerHolds DEF PublishSucceeds
  <2>2. PICK t \in Tokens, d \in Decisions :
          /\ t = callers[c].token
          /\ [token |-> t, decision |-> d] \in topic
    BY <1>2, <2>1 DEF PublishSound, PublishSucceeds, IInv, TypeOK, Pair
  <2>3. \A u : Phase(u)' = Phase(u)
    BY <1>2 DEF PublishSucceeds, Phase, VerdictOn, OpenIn
  <2>4. Abstract!Confirm(t)
    BY <1>2, <2>2, <2>3 DEF PublishSucceeds, Abstract!Confirm, Abstract!Pair
  <2> QED BY <2>4 DEF Abstract!Next
<1>3. CASE PublishFails(c)
  BY <1>3, Stutters DEF PublishFails, history
<1>4. CASE NtfyAccepts(c)
  <2>1. PICK m \in verdicts : m = PairOf(c)
    BY <1>4, HandlerHolds DEF NtfyAccepts
  <2> QED BY <1>4, <2>1, PairHears DEF NtfyAccepts, history
<1>5. CASE Marks(c)
  <2>1. PICK p \in Pods : p = callers[c].pod /\ IsStore(stores[p])
    BY <1>5, HandlerHolds DEF Marks
  <2>2. PICK s : s = MarkPublished(stores[p], issued[callers[c].token])
    OBVIOUS
  <2>3. /\ IsStore(s)
        /\ \A n \in DOMAIN s :
             /\ n \in DOMAIN stores[p]
             /\ s[n].token = stores[p][n].token
             /\ s[n].decided = stores[p][n].decided
             /\ s[n].age = stores[p][n].age
    BY <2>1, <2>2, MarkPublishedFacts
  <2>4. /\ stores' = [stores EXCEPT ![p] = s]
        /\ UNCHANGED <<topic, issued, verdicts, acked>>
    BY <1>5, <2>1, <2>2 DEF Marks, history
  <2> QED BY <2>3, <2>4, OneStoreBookkeeping DEF Abstract!Next
<1>6. CASE Releases(c)
  <2>1. PICK p \in Pods : p = callers[c].pod /\ IsStore(stores[p])
    BY <1>6, HandlerHolds DEF Releases
  <2>2. PICK s : s = ReleasePublish(stores[p], issued[callers[c].token])
    OBVIOUS
  <2>3. /\ IsStore(s)
        /\ \A n \in DOMAIN s :
             /\ n \in DOMAIN stores[p]
             /\ s[n].token = stores[p][n].token
             /\ s[n].decided = stores[p][n].decided
             /\ s[n].age = stores[p][n].age
    BY <2>1, <2>2, ReleasePublishFacts
  <2>4. /\ stores' = [stores EXCEPT ![p] = s]
        /\ UNCHANGED <<topic, issued, verdicts, acked>>
    BY <1>6, <2>1, <2>2 DEF Releases
  <2> QED BY <2>3, <2>4, OneStoreBookkeeping DEF Abstract!Next
<1> QED BY <1>1, <1>2, <1>3, <1>4, <1>5, <1>6 DEF HandlerStep

\* An exit and the reaper drop records, and time makes them older.
LEMMA WorldImplements ==
  ASSUME IInv, \/ \E p \in Pods : Exit(p) \/ Reap(p)
               \/ Tick
  PROVE  [Abstract!Next]_Abstract!vars
<1>1. ASSUME NEW p \in Pods, Exit(p)
      PROVE  Abstract!Next
  <2>1. /\ stores' = [stores EXCEPT ![p] = EmptyStore]
        /\ UNCHANGED <<topic, issued, verdicts, acked>>
    BY <1>1 DEF Exit, history
  <2> QED BY <2>1, EmptyStoreFacts, OneStoreBookkeeping DEF Abstract!Next
<1>2. ASSUME NEW p \in Pods, Reap(p)
      PROVE  Abstract!Next
  <2>1. PICK s : s = Reaped(stores[p])
    OBVIOUS
  <2>2. /\ IsStore(s)
        /\ \A n \in DOMAIN s : n \in DOMAIN stores[p] /\ s[n] = stores[p][n]
    BY <2>1, ReapedFacts DEF IInv, TypeOK
  <2>3. /\ stores' = [stores EXCEPT ![p] = s]
        /\ UNCHANGED <<topic, issued, verdicts, acked>>
    BY <1>2, <2>1 DEF Reap, history
  <2> QED BY <2>2, <2>3, OneStoreBookkeeping DEF Abstract!Next
<1>3. CASE Tick
  <2>1. ASSUME NEW p \in Pods, NEW n \in DOMAIN stores'[p]
        PROVE  /\ n \in DOMAIN stores[p]
               /\ stores'[p][n].token = stores[p][n].token
               /\ stores'[p][n].decided = stores[p][n].decided
               /\ stores'[p][n].age <= RequestTTL
                    => stores[p][n].age <= RequestTTL
    <3>1. IsStore(stores[p]) /\ stores'[p] = Aged(stores[p])
      BY <1>3 DEF IInv, TypeOK, Tick
    <3>2. /\ n \in DOMAIN stores[p]
          /\ stores'[p][n].token = stores[p][n].token
          /\ stores'[p][n].decided = stores[p][n].decided
          /\ stores[p][n].age > RequestTTL
               => stores'[p][n].age = stores[p][n].age
      BY <3>1, AgedFacts
    <3>3. stores[p][n].age \in Nat
      BY <3>1, <3>2, StoreAssumption DEF IsStore, Request
    <3> QED BY <3>2, <3>3, StoreAssumption
  <2>2. OnlyBookkeeping
    BY <1>3, <2>1 DEF Tick, history, OnlyBookkeeping
  <2> QED BY <2>2, BookkeepingVoids DEF Abstract!Next
<1> QED BY <1>1, <1>2, <1>3

LEMMA StepImplements ==
  ASSUME IInv, [Next]_vars
  PROVE  [Abstract!Next]_Abstract!vars
<1>0. IInv'
  BY StepSound
<1>1. ASSUME NEW p \in Pods, Surge(p) \/ Terminate(p)
      PROVE  UNCHANGED Abstract!vars
  BY <1>1, Stutters DEF Surge, Terminate, history
<1>2. ASSUME NEW p \in Pods, Exit(p) \/ Reap(p)
      PROVE  [Abstract!Next]_Abstract!vars
  BY <1>2, WorldImplements
<1>3. ASSUME NEW c \in Callers, NEW p \in Pods,
             NEW pc \in {"sendingForm", "sendingTap"}, Connect(c, p, pc)
      PROVE  UNCHANGED Abstract!vars
  BY <1>3, Stutters DEF Connect, history
<1>4. ASSUME NEW c \in Callers, HandlerStep(c) \/ NtfyAccepts(c)
      PROVE  [Abstract!Next]_Abstract!vars
  BY <1>4, HandlerImplements
<1>5. ASSUME NEW c \in Callers, NEW n \in Nonces, NEW tok \in Tokens,
             NEW det \in Details, Register(c, n, tok, det)
      PROVE  Abstract!Next
  BY <1>5, RegisterIssues DEF Abstract!Next
<1>6. ASSUME NEW c \in Callers, NEW n \in Nonces, RegisterDuplicate(c, n)
      PROVE  UNCHANGED Abstract!vars
  BY <1>6, Stutters DEF RegisterDuplicate, history
<1>7. ASSUME NEW c \in Callers, NEW tok \in DOMAIN issued,
             NEW d \in Decisions, Tap(c, tok, d)
      PROVE  [Abstract!Next]_Abstract!vars
  BY <1>0, <1>7, TapImplements
<1>8. CASE LateArrival
  <2>1. PICK m \in verdicts : topic' = topic \cup {m}
    BY <1>8 DEF LateArrival, IInv, VerdictsSound
  <2> QED BY <1>8, <2>1, PairHears DEF LateArrival, history
<1>9. CASE Tick
  BY <1>9, WorldImplements
<1>10. CASE UNCHANGED vars
  BY <1>10, Stutters DEF vars
<1> QED BY <1>1, <1>2, <1>3, <1>4, <1>5, <1>6, <1>7, <1>8, <1>9, <1>10 DEF Next

\* Two pods, each with a store of its own and an end of its own, keep the
\* promise of one: a registration is decided once or void, on whichever pod.
THEOREM ImplementsOneTapHolds == Spec => ImplementsOneTap
<1>1. Init => Abstract!Init
  <2> SUFFICES ASSUME Init PROVE Abstract!Init
    OBVIOUS
  <2>1. \A t : Phase(t) = "unissued"
    BY DEF Init, Phase, VerdictOn, EmptyStore
  <2> QED BY <2>1 DEF Init, Abstract!Init
<1>2. IInv /\ [Next]_vars => [Abstract!Next]_Abstract!vars
  BY StepImplements
<1> QED BY <1>1, <1>2, IInvInvariant, PTL
        DEF Spec, ImplementsOneTap, Abstract!Spec
=============================================================================
