--------------------------- MODULE ApprovalProofs ---------------------------
(***************************************************************************)
(* Proofs, for every value of the constants, of what Approval's runs check *)
(* on small instances: the safety of decisions, then that Approval         *)
(* implements OneTap.                                                      *)
(***************************************************************************)
EXTENDS ApprovalOneTap, StoreProofs, TLAPS

-----------------------------------------------------------------------------
\* A step that writes a whole record changes no other.
LEMMA PutStep ==
  ASSUME IsStore(store), NEW n \in Nonces, NEW r \in Request,
         store' = Put(store, n, r)
  PROVE  /\ DOMAIN store' = DOMAIN store \cup {n}
         /\ store'[n] = r
         /\ \A k \in DOMAIN store : k # n => store'[k] = store[k]
<1>1. /\ DOMAIN Put(store, n, r) = DOMAIN store \cup {n}
      /\ Put(store, n, r)[n] = r
      /\ \A k \in DOMAIN store : k # n => Put(store, n, r)[k] = store[k]
  BY PutFacts
<1> QED BY <1>1

-----------------------------------------------------------------------------
(***************************************************************************)
(* Type correctness.                                                       *)
(***************************************************************************)

\* A POST in the server carries the link it was sent to and a decision.
ClaimTyped ==
  \A c \in Clients :
    InFlight(c) => /\ clients[c].nonce \in Nonces
                   /\ clients[c].token \in Tokens
                   /\ clients[c].decision \in Decisions

TypeInv == TypeOK /\ ClaimTyped

\* Answering a client, or claiming a publish for it, changes that client only.
LEMMA ShowFacts ==
  ASSUME TypeOK,
         NEW c \in Clients,
         NEW pc \in InFlightPcs \cup Pages,
         NEW n \in Nonces \cup {None}, NEW tok \in Tokens \cup {None},
         NEW d \in Decisions \cup {Undecided},
         Show(c, pc, n, tok, d)
  PROVE  /\ clients' \in [Clients -> ClientState]
         /\ clients'[c].pc = pc
         /\ clients'[c].nonce = n
         /\ clients'[c].token = tok
         /\ clients'[c].decision = d
         /\ clients'[c].delivered = FALSE
         /\ \A b \in Clients : b # c => clients'[b] = clients[b]
<1>1. NoDetail \in Details /\ 0 \in 0 .. PublishTimeout
  BY StoreAssumption, ApprovalAssumption
<1>2. [Idle EXCEPT !.pc = pc, !.nonce = n, !.token = tok, !.decision = d]
        \in ClientState
  BY <1>1 DEF Idle, ClientState
<1> QED BY <1>2 DEF TypeOK, Show, Idle

\* A claimed publish is such an answer.
LEMMA ClaimIsShow ==
  ASSUME NEW c, NEW n, NEW tok, NEW d, Claim(c, n, tok, d)
  PROVE  Show(c, "claimed", n, tok, d)
BY DEF Claim, Show

LEMMA ClaimFacts ==
  ASSUME TypeOK,
         NEW c \in Clients, NEW n \in Nonces, NEW tok \in Tokens,
         NEW d \in Decisions, Claim(c, n, tok, d)
  PROVE  /\ clients' \in [Clients -> ClientState]
         /\ clients'[c].pc = "claimed"
         /\ clients'[c].nonce = n
         /\ clients'[c].token = tok
         /\ clients'[c].decision = d
         /\ \A b \in Clients : b # c => clients'[b] = clients[b]
<1>1. Show(c, "claimed", n, tok, d)
  BY ClaimIsShow
<1>2. "claimed" \in InFlightPcs \cup Pages
  BY DEF InFlightPcs
<1> QED BY <1>1, <1>2, ShowFacts

\* What an attempt writes is a message.
LEMMA MessageFacts ==
  ASSUME TypeInv, NEW c \in Clients, InFlight(c)
  PROVE  /\ MessageOf(c) \in Message
         /\ MessageOf(c).token = clients[c].token
         /\ MessageOf(c).nonce = clients[c].nonce
         /\ MessageOf(c).decision = clients[c].decision
BY DEF TypeInv, TypeOK, ClaimTyped, ClientState, MessageOf, Message

\* The detail an attempt sends is one of the registered ones or the empty one.
LEMMA DetailForFacts ==
  ASSUME NEW s, IsStore(s), NEW n
  PROVE  DetailFor(s, n) \in Details
BY StoreAssumption DEF IsStore, DetailFor, Request

\* Answering with a page that is no POST keeps the types.
LEMMA ShowKeepsTypes ==
  ASSUME TypeInv,
         NEW c \in Clients, NEW pc \in Pages,
         NEW n \in Nonces \cup {None}, NEW tok \in Tokens \cup {None},
         NEW d \in Decisions \cup {Undecided},
         Show(c, pc, n, tok, d)
  PROVE  /\ clients' \in [Clients -> ClientState]
         /\ ClaimTyped'
<1>1. /\ clients' \in [Clients -> ClientState]
      /\ clients'[c].pc = pc
      /\ \A b \in Clients : b # c => clients'[b] = clients[b]
  BY ShowFacts DEF TypeInv
<1>2. clients'[c].pc \notin InFlightPcs
  BY <1>1 DEF Pages, InFlightPcs
<1> QED BY <1>1, <1>2 DEF TypeInv, ClaimTyped, InFlight

\* So does claiming a publish.
LEMMA ClaimKeepsTypes ==
  ASSUME TypeInv,
         NEW c \in Clients, NEW n \in Nonces, NEW tok \in Tokens,
         NEW d \in Decisions, Claim(c, n, tok, d)
  PROVE  /\ clients' \in [Clients -> ClientState]
         /\ ClaimTyped'
<1>1. /\ clients' \in [Clients -> ClientState]
      /\ clients'[c].nonce = n
      /\ clients'[c].token = tok
      /\ clients'[c].decision = d
      /\ \A b \in Clients : b # c => clients'[b] = clients[b]
  BY ClaimFacts DEF TypeInv
<1> QED BY <1>1 DEF TypeInv, ClaimTyped, InFlight

\* The operations on the map, the handlers and the world keep the types.
LEMMA TypeStep ==
  ASSUME TypeInv, [Next]_vars
  PROVE  TypeInv'
<1> USE DEF TypeInv, TypeOK
<1>1. ASSUME NEW n \in Nonces, NEW tok \in Tokens, NEW det \in Details,
             Register(n, tok, det)
      PROVE  TypeInv'
  <2>1. IsStore(store)'
    BY <1>1, NewRequestFacts, PutFacts DEF Register
  <2>2. [token |-> tok, nonce |-> n, detail |-> det] \in Registration
    BY DEF Registration
  <2> QED BY <1>1, <2>1, <2>2 DEF Register, ClaimTyped, InFlight
<1>2. ASSUME NEW n \in Nonces, RegisterDuplicate(n)
      PROVE  TypeInv'
  BY <1>2 DEF RegisterDuplicate, ClaimTyped, InFlight
<1>3. ASSUME NEW c \in Clients, NEW n \in Nonces, NEW tok \in Tokens,
             TapConfirm(c, n, tok)
      PROVE  TypeInv'
  <2>1. PICK pc \in Pages, m \in Nonces \cup {None}, t \in Tokens \cup {None},
             d \in Decisions \cup {Undecided} : Show(c, pc, m, t, d)
    <3>1. CASE ConfirmUnknown(c, n, tok)
      BY <3>1 DEF ConfirmUnknown, Pages
    <3>2. CASE ConfirmExpired(c, n, tok)
      BY <3>2 DEF ConfirmExpired, Pages
    <3>3. CASE ConfirmDecided(c, n, tok)
      BY <3>3 DEF ConfirmDecided, Pages, Valid, IsStore, Request
    <3>4. CASE ConfirmForm(c, n, tok)
      BY <3>4 DEF ConfirmForm, Pages
    <3> QED BY <1>3, <3>1, <3>2, <3>3, <3>4 DEF TapConfirm
  <2>2. clients' \in [Clients -> ClientState] /\ ClaimTyped'
    BY <2>1, ShowKeepsTypes
  <2> QED BY <1>3, <2>2 DEF TapConfirm
<1>4. ASSUME NEW c \in Clients, NEW n \in Nonces, NEW tok \in Tokens,
             NEW d \in Decisions, Tap(c, n, tok, d)
      PROVE  TypeInv'
  <2> DEFINE Goal == /\ clients' \in [Clients -> ClientState]
                     /\ ClaimTyped'
                     /\ IsStore(store)'
                     /\ verdicts' \subseteq Verdict
  <2>1. ASSUME TapUnknown(c, n, tok) PROVE Goal
    BY <2>1, ShowKeepsTypes DEF TapUnknown, Pages
  <2>2. ASSUME TapExpired(c, n, tok) PROVE Goal
    BY <2>2, ShowKeepsTypes DEF TapExpired, Pages
  <2>3. ASSUME TapDecides(c, n, tok, d) PROVE Goal
    <3>1. n \in DOMAIN store /\ store[n] \in Request
      BY <2>3 DEF TapDecides, Valid, IsStore
    <3>2. IsStore(store)'
      BY <2>3, <3>1, SettledFacts, PutFacts DEF TapDecides
    <3>3. verdicts' \subseteq Verdict
      BY <2>3 DEF TapDecides, Verdict
    <3> QED BY <2>3, <3>2, <3>3, ClaimKeepsTypes DEF TapDecides
  <2>4. ASSUME TapRetries(c, n, tok, d) PROVE Goal
    <3>1. n \in DOMAIN store /\ store[n] \in Request
      BY <2>4 DEF TapRetries, Valid, IsStore
    <3>2. IsStore(store)'
      BY <2>4, <3>1, ClaimedFacts, PutFacts DEF TapRetries
    <3>3. store[n].decided \in Decisions
      BY <2>4, <3>1 DEF TapRetries, Owes, Request
    <3> QED BY <2>4, <3>2, <3>3, ClaimKeepsTypes DEF TapRetries
  <2>5. ASSUME TapReplayed(c, n, tok, d) PROVE Goal
    <3>1. store[n].decided \in Decisions \cup {Undecided}
      BY <2>5 DEF TapReplayed, Valid, IsStore, Request
    <3> QED BY <2>5, <3>1, ShowKeepsTypes DEF TapReplayed, Pages
  <2> QED BY <1>4, <2>1, <2>2, <2>3, <2>4, <2>5 DEF Tap
<1>5. ASSUME NEW c \in Clients, HandlerStep(c)
      PROVE  TypeInv'
  <2>1. CASE ReadDetail(c)
    <3>1. DetailFor(store, clients[c].nonce) \in Details
      BY DetailForFacts
    <3>2. clients' \in [Clients -> ClientState]
      <4>1. clients[c] \in ClientState /\ "publishing" \in InFlightPcs
        BY DEF InFlightPcs
      <4>2. [clients[c] EXCEPT !.pc = "publishing",
               !.detail = DetailFor(store, clients[c].nonce)] \in ClientState
        BY <3>1, <4>1 DEF ClientState
      <4> QED BY <2>1, <4>2 DEF ReadDetail
    <3>3. ClaimTyped'
      BY <2>1 DEF ReadDetail, ClaimTyped, InFlight, InFlightPcs, ClientState
    <3> QED BY <2>1, <3>2, <3>3 DEF ReadDetail
  <2>2. CASE PublishSucceeds(c)
    <3>1. clients' \in [Clients -> ClientState]
      BY <2>2 DEF PublishSucceeds, ClientState, InFlightPcs
    <3>2. ClaimTyped' /\ clients[c].token \in Tokens
      BY <2>2 DEF PublishSucceeds, ClaimTyped, InFlight, InFlightPcs,
                  ClientState
    <3> QED BY <2>2, <3>1, <3>2 DEF PublishSucceeds
  <2>3. CASE PublishFails(c)
    <3>1. clients' \in [Clients -> ClientState]
      BY <2>3 DEF PublishFails, ClientState, InFlightPcs
    <3>2. ClaimTyped'
      BY <2>3 DEF PublishFails, ClaimTyped, InFlight, InFlightPcs, ClientState
    <3>3. MessageOf(c) \in Message
      BY <2>3, MessageFacts DEF PublishFails, InFlight, InFlightPcs
    <3> QED BY <2>3, <3>1, <3>2, <3>3 DEF PublishFails
  <2>4. CASE Marks(c)
    <3>1. /\ clients[c].nonce \in Nonces
          /\ clients[c].token \in Tokens
          /\ clients[c].decision \in Decisions
      BY <2>4 DEF Marks, ClaimTyped, InFlight, InFlightPcs
    <3>2. clients' \in [Clients -> ClientState] /\ ClaimTyped'
      BY <2>4, <3>1, ShowKeepsTypes DEF Marks, Pages
    <3>3. IsStore(store)'
      BY <2>4, MarkPublishedFacts DEF Marks
    <3> QED BY <2>4, <3>2, <3>3 DEF Marks
  <2>5. CASE Releases(c)
    <3>1. /\ clients[c].nonce \in Nonces
          /\ clients[c].token \in Tokens
          /\ clients[c].decision \in Decisions
      BY <2>5 DEF Releases, ClaimTyped, InFlight, InFlightPcs
    <3>2. clients' \in [Clients -> ClientState] /\ ClaimTyped'
      BY <2>5, <3>1, ShowKeepsTypes DEF Releases, Pages
    <3>3. IsStore(store)'
      BY <2>5, ReleasePublishFacts DEF Releases
    <3> QED BY <2>5, <3>2, <3>3 DEF Releases
  <2> QED BY <1>5, <2>1, <2>2, <2>3, <2>4, <2>5 DEF HandlerStep
<1>6. ASSUME NEW c \in Clients, NtfyAccepts(c)
      PROVE  TypeInv'
  <2>1. clients' \in [Clients -> ClientState]
    BY <1>6 DEF NtfyAccepts, ClientState
  <2>2. ClaimTyped'
    BY <1>6 DEF NtfyAccepts, ClaimTyped, InFlight, ClientState
  <2>3. MessageOf(c) \in Message
    BY <1>6, MessageFacts DEF NtfyAccepts, InFlight, InFlightPcs
  <2> QED BY <1>6, <2>1, <2>2, <2>3 DEF NtfyAccepts
<1>7. CASE LateArrival
  BY <1>7 DEF LateArrival, ClaimTyped, InFlight
<1>8. CASE Reap
  BY <1>8, ReapedFacts DEF Reap, ClaimTyped, InFlight
<1>9. CASE Tick
  <2>1. clients' \in [Clients -> ClientState]
    BY <1>9, ApprovalAssumption DEF Tick, ClientState
  <2>2. ClaimTyped'
    BY <1>9 DEF Tick, ClaimTyped, InFlight, ClientState
  <2> QED BY <1>9, <2>1, <2>2, AgedFacts DEF Tick
<1>10. CASE Crash
  <2>1. Idle \in ClientState /\ Idle.pc \notin InFlightPcs
    BY StoreAssumption, ApprovalAssumption
       DEF Idle, ClientState, Pages, InFlightPcs
  <2>2. clients' \in [Clients -> ClientState]
    BY <1>10, <2>1 DEF Crash
  <2>3. ClaimTyped'
    BY <1>10, <2>1 DEF Crash, ClaimTyped, InFlight
  <2>4. limbo' \subseteq Message
    BY <1>10, MessageFacts DEF Crash, InFlight, InFlightPcs
  <2>5. IsStore(EmptyStore)
    BY DEF IsStore, EmptyStore
  <2> QED BY <1>10, <2>2, <2>3, <2>4, <2>5 DEF Crash
<1>11. CASE UNCHANGED vars
  BY <1>11 DEF vars, ClaimTyped, InFlight
<1> QED BY <1>1, <1>2, <1>3, <1>4, <1>5, <1>6, <1>7, <1>8, <1>9, <1>10, <1>11
        DEF Next

\* Every reachable state is well typed: the store is a map of whole records,
\* whatever crashes, deadlines and reused nonces do to it.
THEOREM TypeCorrect == Spec => []TypeOK
<1>1. Init => TypeInv
  <2> SUFFICES ASSUME Init PROVE TypeInv
    OBVIOUS
  <2>1. Idle \in ClientState /\ Idle.pc \notin InFlightPcs
    BY StoreAssumption, ApprovalAssumption
       DEF Idle, ClientState, Pages, InFlightPcs
  <2>2. IsStore(EmptyStore)
    BY DEF IsStore, EmptyStore
  <2> QED BY <2>1, <2>2 DEF Init, TypeInv, TypeOK, ClaimTyped, InFlight
<1>2. TypeInv /\ [Next]_vars => TypeInv'
  BY TypeStep
<1>3. TypeInv => TypeOK
  BY DEF TypeInv
<1> QED BY <1>1, <1>2, <1>3, PTL DEF Spec

-----------------------------------------------------------------------------
(***************************************************************************)
(* One decision per registration, and everybody is told that one.  The     *)
(* invariant adds what makes it inductive: a token belongs to one record,  *)
(* verdicts are on minted tokens only, an undecided record's token has no  *)
(* verdict, and a link once shown as expired has lapsed for good.          *)
(***************************************************************************)
StoreMinted ==
  \A n \in DOMAIN store :
    \E r \in registrations : r.token = store[n].token /\ r.nonce = n

VerdictsMinted == \A v \in verdicts : v.token \in MintedTokens

TokensUnique ==
  \A m, n \in DOMAIN store : store[m].token = store[n].token => m = n

UndecidedFree ==
  \A n \in DOMAIN store :
    store[n].decided = Undecided
      => \A v \in verdicts : v.token # store[n].token

StoreInv ==
  OneVerdict /\ StoreMinted /\ VerdictsMinted /\ TokensUnique /\ UndecidedFree

\* No tap decided the registration and none will: its record is gone, or is
\* undecided and too old.
Lapsed(t) ==
  /\ \A v \in verdicts : v.token # t
  /\ \A n \in DOMAIN store :
       store[n].token = t => /\ store[n].decided = Undecided
                             /\ store[n].age > RequestTTL

ClientInv(c) ==
  /\ clients[c].decision # Undecided
       => VerdictOn(clients[c].token, clients[c].decision)
  /\ clients[c].pc = "expired"
       => clients[c].token \in MintedTokens /\ Lapsed(clients[c].token)
  /\ clients[c].delivered \/ clients[c].pc \in {"acked", "sent"}
       => Heard(clients[c].token, clients[c].decision)

VerdictInv ==
  TypeInv /\ StoreInv /\ HeardIsVerdict /\ \A c \in Clients : ClientInv(c)

\* The invariant contains what the runs check.
LEMMA VerdictInvImplies ==
  ASSUME VerdictInv
  PROVE  /\ OneVerdict
         /\ HeardIsVerdict
         /\ ShownIsVerdict
         /\ ExpiredIsFinal
         /\ SentWasHeard
BY DEF VerdictInv, StoreInv, ClientInv, ShownIsVerdict, ExpiredIsFinal,
       SentWasHeard, Lapsed

\* The step drops records or changes only their flags and ages.
OnlyBookkeeping ==
  /\ DOMAIN store' \subseteq DOMAIN store
  /\ \A k \in DOMAIN store' :
       /\ store'[k].token = store[k].token
       /\ store'[k].decided = store[k].decided
       /\ store[k].age > RequestTTL => store'[k].age > RequestTTL
  /\ UNCHANGED <<registrations, verdicts>>

\* History only grows, and what has lapsed stays lapsed.
HistoryGrows ==
  /\ verdicts \subseteq verdicts'
  /\ topic \subseteq topic'
  /\ registrations \subseteq registrations'
  /\ \A t \in MintedTokens : Lapsed(t) => Lapsed(t)'

LEMMA BookkeepingKeepsStoreInv ==
  ASSUME StoreInv, OnlyBookkeeping
  PROVE  StoreInv'
<1> USE DEF OnlyBookkeeping
<1>1. OneVerdict'
  BY DEF StoreInv, OneVerdict, VerdictOn
<1>2. StoreMinted' /\ VerdictsMinted'
  BY DEF StoreInv, StoreMinted, VerdictsMinted, MintedTokens
<1>3. TokensUnique' /\ UndecidedFree'
  BY DEF StoreInv, TokensUnique, UndecidedFree
<1> QED BY <1>1, <1>2, <1>3 DEF StoreInv

LEMMA BookkeepingKeepsLapsed ==
  ASSUME OnlyBookkeeping, topic \subseteq topic'
  PROVE  HistoryGrows
BY DEF OnlyBookkeeping, HistoryGrows, Lapsed

\* The operations that are bookkeeping: taking over a publish, ending one, the
\* reaper, the clock, and a restart.
LEMMA RetryIsBookkeeping ==
  ASSUME VerdictInv,
         NEW c \in Clients, NEW n \in Nonces, NEW tok \in Tokens,
         NEW d \in Decisions, TapRetries(c, n, tok, d), UNCHANGED registrations
  PROVE  OnlyBookkeeping
<1>1. n \in DOMAIN store /\ store[n] \in Request /\ IsStore(store)
  BY DEF TapRetries, Valid, VerdictInv, TypeInv, TypeOK, IsStore
<1>2. /\ Claimed(store[n]) \in Request
      /\ Claimed(store[n]).token = store[n].token
      /\ Claimed(store[n]).decided = store[n].decided
      /\ Claimed(store[n]).age = store[n].age
  BY <1>1, ClaimedFacts
<1>3. store' = Put(store, n, Claimed(store[n]))
  BY DEF TapRetries
<1>4. /\ DOMAIN store' = DOMAIN store
      /\ store'[n] = Claimed(store[n])
      /\ \A k \in DOMAIN store : k # n => store'[k] = store[k]
  BY <1>1, <1>2, <1>3, PutStep
<1> QED BY <1>1, <1>2, <1>4 DEF TapRetries, OnlyBookkeeping

LEMMA MarksIsBookkeeping ==
  ASSUME VerdictInv, NEW c \in Clients, Marks(c)
  PROVE  OnlyBookkeeping
<1>1. store' = MarkPublished(store, clients[c].nonce)
  BY DEF Marks
<1>2. /\ DOMAIN MarkPublished(store, clients[c].nonce) = DOMAIN store
      /\ \A k \in DOMAIN store :
           LET r == MarkPublished(store, clients[c].nonce)[k]
           IN  /\ r.token = store[k].token
               /\ r.decided = store[k].decided
               /\ r.age = store[k].age
  BY MarkPublishedFacts DEF VerdictInv, TypeInv, TypeOK
<1> QED BY <1>1, <1>2 DEF Marks, OnlyBookkeeping

LEMMA ReleasesIsBookkeeping ==
  ASSUME VerdictInv, NEW c \in Clients, Releases(c)
  PROVE  OnlyBookkeeping
<1>1. store' = ReleasePublish(store, clients[c].nonce)
  BY DEF Releases
<1>2. /\ DOMAIN ReleasePublish(store, clients[c].nonce) = DOMAIN store
      /\ \A k \in DOMAIN store :
           LET r == ReleasePublish(store, clients[c].nonce)[k]
           IN  /\ r.token = store[k].token
               /\ r.decided = store[k].decided
               /\ r.age = store[k].age
  BY ReleasePublishFacts DEF VerdictInv, TypeInv, TypeOK
<1> QED BY <1>1, <1>2 DEF Releases, OnlyBookkeeping

LEMMA ReapIsBookkeeping ==
  ASSUME VerdictInv, Reap
  PROVE  OnlyBookkeeping
<1>1. /\ DOMAIN Reaped(store) \subseteq DOMAIN store
      /\ \A k \in DOMAIN Reaped(store) : Reaped(store)[k] = store[k]
  BY ReapedFacts DEF VerdictInv, TypeInv, TypeOK
<1> QED BY <1>1 DEF Reap, OnlyBookkeeping

LEMMA TickIsBookkeeping ==
  ASSUME VerdictInv, Tick
  PROVE  OnlyBookkeeping
<1>1. /\ DOMAIN Aged(store) = DOMAIN store
      /\ \A k \in DOMAIN store :
           /\ Aged(store)[k].token = store[k].token
           /\ Aged(store)[k].decided = store[k].decided
           /\ store[k].age > RequestTTL => Aged(store)[k].age = store[k].age
  BY AgedFacts DEF VerdictInv, TypeInv, TypeOK
<1> QED BY <1>1 DEF Tick, OnlyBookkeeping

LEMMA CrashIsBookkeeping == Crash => OnlyBookkeeping
BY DEF Crash, EmptyStore, OnlyBookkeeping

\* A client whose answer does not change keeps its part of the invariant.
LEMMA KeptClient ==
  ASSUME HistoryGrows, NEW c \in Clients, ClientInv(c),
         clients'[c].pc = clients[c].pc,
         clients'[c].token = clients[c].token,
         clients'[c].decision = clients[c].decision,
         clients'[c].delivered = clients[c].delivered
  PROVE  ClientInv(c)'
BY DEF HistoryGrows, ClientInv, VerdictOn, Heard, MintedTokens

\* What an attempt writes carries the decision in force.
LEMMA MessageIsVerdict ==
  ASSUME VerdictInv, NEW c \in Clients, InFlight(c)
  PROVE  VerdictOn(MessageOf(c).token, MessageOf(c).decision)
<1>1. clients[c].decision # Undecided
  BY DEF VerdictInv, TypeInv, ClaimTyped, Decisions, Undecided
<1> QED BY <1>1, MessageFacts DEF VerdictInv, ClientInv

\* A step that leaves the history alone and answers client c with a page or a
\* claim naming the decision in force, or none, keeps the client invariant.
LEMMA AnsweredClients ==
  ASSUME VerdictInv, HistoryGrows,
         NEW c \in Clients,
         NEW pc \in InFlightPcs \cup Pages,
         NEW n \in Nonces \cup {None}, NEW tok \in Tokens \cup {None},
         NEW d \in Decisions \cup {Undecided},
         Show(c, pc, n, tok, d),
         d # Undecided => VerdictOn(tok, d)',
         pc = "expired" => tok \in MintedTokens /\ Lapsed(tok)',
         pc \in {"acked", "sent"} => Heard(tok, d)'
  PROVE  \A b \in Clients : ClientInv(b)'
<1>1. /\ clients'[c].pc = pc
      /\ clients'[c].token = tok
      /\ clients'[c].decision = d
      /\ clients'[c].delivered = FALSE
      /\ \A b \in Clients : b # c => clients'[b] = clients[b]
  BY ShowFacts DEF VerdictInv, TypeInv
<1>2. ClientInv(c)'
  BY <1>1 DEF ClientInv, VerdictOn, Heard, HistoryGrows, MintedTokens
<1>3. ASSUME NEW b \in Clients, b # c PROVE ClientInv(b)'
  BY <1>1, <1>3, KeptClient DEF VerdictInv
<1> QED BY <1>2, <1>3

\* A step that leaves every client's answer alone, but for what it delivered.
LEMMA SameAnswers ==
  ASSUME VerdictInv, HistoryGrows,
         \A c \in Clients :
           /\ clients'[c].pc = clients[c].pc
           /\ clients'[c].token = clients[c].token
           /\ clients'[c].decision = clients[c].decision
           /\ clients'[c].delivered = clients[c].delivered
  PROVE  \A b \in Clients : ClientInv(b)'
BY KeptClient DEF VerdictInv

\* Steps that leave the store, the registrations and the verdicts alone.
LEMMA SameStore ==
  ASSUME VerdictInv, topic \subseteq topic',
         UNCHANGED <<store, registrations, verdicts>>
  PROVE  StoreInv' /\ HistoryGrows
<1>1. OnlyBookkeeping
  BY DEF OnlyBookkeeping
<1> QED BY <1>1, BookkeepingKeepsStoreInv, BookkeepingKeepsLapsed
        DEF VerdictInv

\* Nothing on the topic or on its way changes, and no verdict is lost.
LEMMA SameMessages ==
  ASSUME VerdictInv, HistoryGrows, UNCHANGED <<topic, limbo>>
  PROVE  HeardIsVerdict'
BY DEF VerdictInv, HistoryGrows, HeardIsVerdict, VerdictOn

LEMMA RegisterKeepsVerdicts ==
  ASSUME VerdictInv, TypeInv',
         NEW n \in Nonces, NEW tok \in Tokens, NEW det \in Details,
         Register(n, tok, det)
  PROVE  VerdictInv'
<1> USE DEF VerdictInv, TypeInv, TypeOK
<1> DEFINE reg == [token |-> tok, nonce |-> n, detail |-> det]
<1>1. /\ DOMAIN store' = DOMAIN store \cup {n}
      /\ store'[n] = NewRequest(tok, det)
      /\ \A k \in DOMAIN store : store'[k] = store[k]
  <2>1. NewRequest(tok, det) \in Request
    BY NewRequestFacts
  <2>2. IsStore(store) /\ store' = Put(store, n, NewRequest(tok, det))
    BY DEF Register
  <2>3. n \notin DOMAIN store
    BY DEF Register
  <2> QED BY <2>1, <2>2, <2>3, PutStep
<1>2. /\ store'[n].token = tok
      /\ store'[n].decided = Undecided
  BY <1>1 DEF NewRequest
<1>3. /\ registrations' = registrations \cup {reg}
      /\ verdicts' = verdicts
      /\ tok \notin MintedTokens
      /\ n \notin DOMAIN store
  BY DEF Register
<1>4. \A k \in DOMAIN store : store[k].token # tok
  BY <1>3 DEF StoreInv, StoreMinted, MintedTokens
<1>5. \A v \in verdicts : v.token # tok
  BY <1>3 DEF StoreInv, VerdictsMinted
<1>6. StoreInv'
  <2>1. OneVerdict'
    BY <1>1, <1>2, <1>3 DEF StoreInv, OneVerdict, VerdictOn
  <2>2. StoreMinted'
    <3>1. reg \in registrations' /\ reg.token = tok /\ reg.nonce = n
      BY <1>3
    <3> QED BY <1>1, <1>2, <1>3, <3>1 DEF StoreInv, StoreMinted
  <2>3. VerdictsMinted'
    BY <1>3 DEF StoreInv, VerdictsMinted, MintedTokens
  <2>4. TokensUnique'
    BY <1>1, <1>2, <1>4 DEF StoreInv, TokensUnique
  <2>5. UndecidedFree'
    BY <1>1, <1>2, <1>3, <1>5 DEF StoreInv, UndecidedFree
  <2> QED BY <2>1, <2>2, <2>3, <2>4, <2>5 DEF StoreInv
<1>7. HistoryGrows
  BY <1>1, <1>2, <1>3 DEF Register, HistoryGrows, Lapsed
<1>8. HeardIsVerdict'
  BY <1>7, SameMessages DEF Register
<1>9. \A b \in Clients : ClientInv(b)'
  BY <1>7, SameAnswers DEF Register
<1> QED BY <1>6, <1>8, <1>9

LEMMA TapDecidesKeepsVerdicts ==
  ASSUME VerdictInv, TypeInv',
         NEW c \in Clients, NEW n \in Nonces, NEW tok \in Tokens,
         NEW d \in Decisions,
         TapDecides(c, n, tok, d),
         UNCHANGED <<topic, limbo, reply, registrations, acked>>
  PROVE  VerdictInv'
<1> USE DEF VerdictInv, TypeInv, TypeOK
<1>1. /\ n \in DOMAIN store
      /\ store[n] \in Request
      /\ store[n].token = tok
      /\ store[n].decided = Undecided
      /\ store[n].age <= RequestTTL
  BY DEF TapDecides, Valid, IsStore, Decidable
<1>2. /\ DOMAIN store' = DOMAIN store
      /\ store'[n].token = tok
      /\ store'[n].decided = d
      /\ \A k \in DOMAIN store : k # n => store'[k] = store[k]
  <2>1. /\ Settled(store[n], d) \in Request
        /\ Settled(store[n], d).token = tok
        /\ Settled(store[n], d).decided = d
    BY <1>1, SettledFacts
  <2>2. IsStore(store) /\ store' = Put(store, n, Settled(store[n], d))
    BY DEF TapDecides
  <2> QED BY <1>1, <2>1, <2>2, PutStep
<1>3. verdicts' = verdicts \cup {[token |-> tok, decision |-> d]}
  BY DEF TapDecides
<1>4. \A v \in verdicts : v.token # tok
  BY <1>1 DEF StoreInv, UndecidedFree
<1>5. tok \in MintedTokens
  BY <1>1 DEF StoreInv, StoreMinted, MintedTokens
<1>6. VerdictOn(tok, d)'
  BY <1>3 DEF VerdictOn
<1>7. StoreInv'
  <2>1. OneVerdict'
    <3>1. \A v, w \in verdicts' : v.token = w.token => v = w
      BY <1>3, <1>4 DEF StoreInv, OneVerdict
    <3>2. \A k \in DOMAIN store' : store'[k].decided # Undecided
            => [token |-> store'[k].token, decision |-> store'[k].decided]
                 \in verdicts'
      BY <1>1, <1>2, <1>3 DEF StoreInv, OneVerdict, VerdictOn
    <3> QED BY <3>1, <3>2 DEF OneVerdict, VerdictOn
  <2>2. StoreMinted'
    BY <1>1, <1>2 DEF StoreInv, StoreMinted
  <2>3. VerdictsMinted'
    BY <1>3, <1>5 DEF StoreInv, VerdictsMinted, MintedTokens
  <2>4. TokensUnique'
    BY <1>1, <1>2 DEF StoreInv, TokensUnique
  <2>5. UndecidedFree'
    BY <1>1, <1>2, <1>3, <2>4 DEF StoreInv, UndecidedFree, TokensUnique,
                                  Decisions, Undecided
  <2> QED BY <2>1, <2>2, <2>3, <2>4, <2>5 DEF StoreInv
<1>8. HistoryGrows
  <2>1. ASSUME NEW t \in MintedTokens, Lapsed(t) PROVE Lapsed(t)'
    <3>1. t # tok
      BY <1>1, <2>1, StoreAssumption DEF Lapsed, Request
    <3> QED BY <1>1, <1>2, <1>3, <2>1, <3>1 DEF Lapsed
  <2> QED BY <1>3, <2>1 DEF HistoryGrows
<1>9. HeardIsVerdict'
  BY <1>8, SameMessages
<1>10. \A b \in Clients : ClientInv(b)'
  <2>1. Show(c, "claimed", n, tok, d) /\ "claimed" \in InFlightPcs \cup Pages
    BY ClaimIsShow DEF TapDecides, InFlightPcs
  <2> QED BY <1>6, <1>8, <2>1, AnsweredClients
<1> QED BY <1>7, <1>9, <1>10

LEMMA TapKeepsVerdicts ==
  ASSUME VerdictInv, TypeInv',
         NEW c \in Clients, NEW n \in Nonces, NEW tok \in Tokens,
         NEW d \in Decisions, Tap(c, n, tok, d)
  PROVE  VerdictInv'
<1>1. UNCHANGED <<topic, limbo, reply, registrations, acked>>
  BY DEF Tap
<1>2. CASE TapUnknown(c, n, tok)
  <2>1. StoreInv' /\ HistoryGrows
    BY <1>1, <1>2, SameStore DEF TapUnknown
  <2>2. \A b \in Clients : ClientInv(b)'
    BY <1>2, <2>1, AnsweredClients DEF TapUnknown, Pages
  <2> QED BY <1>1, <2>1, <2>2, SameMessages DEF VerdictInv
<1>3. CASE TapExpired(c, n, tok)
  <2>1. StoreInv' /\ HistoryGrows
    BY <1>1, <1>3, SameStore DEF TapExpired
  <2>2. tok \in MintedTokens /\ Lapsed(tok)'
    <3>1. /\ n \in DOMAIN store
          /\ store[n].token = tok
          /\ store[n].decided = Undecided
          /\ store[n].age \in Nat
      BY <1>3, StoreAssumption
         DEF TapExpired, Valid, VerdictInv, TypeInv, TypeOK, IsStore, Request
    <3>2. store[n].age > RequestTTL
      BY <1>3, <3>1, StoreAssumption DEF TapExpired, Decidable
    <3>3. Lapsed(tok)
      BY <3>1, <3>2
         DEF Lapsed, VerdictInv, StoreInv, UndecidedFree, TokensUnique
    <3>4. tok \in MintedTokens
      BY <3>1 DEF VerdictInv, StoreInv, StoreMinted, MintedTokens
    <3> QED BY <2>1, <3>3, <3>4 DEF HistoryGrows
  <2>3. Show(c, "expired", n, tok, Undecided) /\ "expired" \in Pages
    BY <1>3 DEF TapExpired, Pages
  <2>4. \A b \in Clients : ClientInv(b)'
    BY <2>1, <2>2, <2>3, AnsweredClients
  <2> QED BY <1>1, <2>1, <2>4, SameMessages DEF VerdictInv
<1>4. CASE TapDecides(c, n, tok, d)
  BY <1>1, <1>4, TapDecidesKeepsVerdicts
<1>5. CASE TapRetries(c, n, tok, d)
  <2>1. /\ n \in DOMAIN store
        /\ store[n] \in Request
        /\ store[n].token = tok
        /\ store[n].decided \in Decisions
    BY <1>5 DEF TapRetries, Owes, Valid, VerdictInv, TypeInv, TypeOK, IsStore,
                Request
  <2>2. OnlyBookkeeping
    BY <1>1, <1>5, RetryIsBookkeeping
  <2>3. StoreInv' /\ HistoryGrows
    BY <1>1, <2>2, BookkeepingKeepsStoreInv, BookkeepingKeepsLapsed
       DEF VerdictInv
  <2>4. VerdictOn(tok, store[n].decided)
    BY <2>1 DEF VerdictInv, StoreInv, OneVerdict, Decisions, Undecided
  <2>5. /\ Show(c, "claimed", n, tok, store[n].decided)
        /\ "claimed" \in InFlightPcs \cup Pages
    BY <1>5, ClaimIsShow DEF TapRetries, InFlightPcs
  <2>6. [token |-> tok, decision |-> store[n].decided] \in verdicts'
    BY <2>3, <2>4 DEF HistoryGrows, VerdictOn
  <2>7. \A b \in Clients : ClientInv(b)'
    <3> DEFINE e == store[n].decided
    <3>1. e \in Decisions \cup {Undecided} /\ Show(c, "claimed", n, tok, e)
      BY <2>1, <2>5
    <3>2. [token |-> tok, decision |-> e] \in verdicts'
      BY <2>6
    <3> HIDE DEF e
    <3> QED BY <2>3, <2>5, <3>1, <3>2, AnsweredClients DEF VerdictOn
  <2> QED BY <1>1, <2>3, <2>7, SameMessages DEF VerdictInv
<1>6. CASE TapReplayed(c, n, tok, d)
  <2>1. StoreInv' /\ HistoryGrows
    BY <1>1, <1>6, SameStore DEF TapReplayed
  <2>2. /\ store[n].decided \in Decisions \cup {Undecided}
        /\ VerdictOn(tok, store[n].decided)
    BY <1>6 DEF TapReplayed, Valid, VerdictInv, TypeInv, TypeOK, IsStore,
                Request, StoreInv, OneVerdict
  <2>3. \A b \in Clients : ClientInv(b)'
    <3> DEFINE e == store[n].decided
    <3>1. /\ e \in Decisions \cup {Undecided}
          /\ Show(c, "alreadyDecided", n, tok, e)
          /\ "alreadyDecided" \in Pages
      BY <1>6, <2>2 DEF TapReplayed, Pages
    <3>2. [token |-> tok, decision |-> e] \in verdicts'
      BY <2>1, <2>2 DEF HistoryGrows, VerdictOn
    <3> HIDE DEF e
    <3> QED BY <2>1, <3>1, <3>2, AnsweredClients DEF VerdictOn
  <2> QED BY <1>1, <2>1, <2>3, SameMessages DEF VerdictInv
<1> QED BY <1>2, <1>3, <1>4, <1>5, <1>6 DEF Tap

LEMMA TapConfirmKeepsVerdicts ==
  ASSUME VerdictInv, TypeInv',
         NEW c \in Clients, NEW n \in Nonces, NEW tok \in Tokens,
         TapConfirm(c, n, tok)
  PROVE  VerdictInv'
<1>1. UNCHANGED <<store, topic, limbo, registrations, verdicts>>
  BY DEF TapConfirm
<1>2. StoreInv' /\ HistoryGrows
  BY <1>1, SameStore
<1>3. HeardIsVerdict'
  BY <1>1, <1>2, SameMessages
<1>4. \A b \in Clients : ClientInv(b)'
  <2>1. CASE ConfirmUnknown(c, n, tok)
    BY <1>2, <2>1, AnsweredClients DEF ConfirmUnknown, Pages
  <2>2. CASE ConfirmExpired(c, n, tok)
    <3>1. /\ n \in DOMAIN store
          /\ store[n].token = tok
          /\ store[n].decided = Undecided
          /\ store[n].age > RequestTTL
      BY <2>2, StoreAssumption
         DEF ConfirmExpired, Valid, Decidable, VerdictInv, TypeInv, TypeOK,
             IsStore, Request
    <3>2. Lapsed(tok)
      BY <3>1 DEF Lapsed, VerdictInv, StoreInv, UndecidedFree, TokensUnique
    <3>3. tok \in MintedTokens
      BY <3>1 DEF VerdictInv, StoreInv, StoreMinted, MintedTokens
    <3>4. Lapsed(tok)'
      BY <1>2, <3>2, <3>3 DEF HistoryGrows
    <3>5. Show(c, "expired", n, tok, Undecided) /\ "expired" \in Pages
      BY <2>2 DEF ConfirmExpired, Pages
    <3> QED BY <1>2, <3>3, <3>4, <3>5, AnsweredClients
  <2>3. CASE ConfirmDecided(c, n, tok)
    <3> DEFINE e == store[n].decided
    <3>1. /\ e \in Decisions \cup {Undecided}
          /\ [token |-> tok, decision |-> e] \in verdicts'
      BY <1>1, <2>3
         DEF ConfirmDecided, Valid, VerdictInv, TypeInv, TypeOK, IsStore,
             Request, StoreInv, OneVerdict, VerdictOn
    <3>2. Show(c, "wasDecided", n, tok, e) /\ "wasDecided" \in Pages
      BY <2>3 DEF ConfirmDecided, Pages
    <3> HIDE DEF e
    <3> QED BY <1>2, <3>1, <3>2, AnsweredClients DEF VerdictOn
  <2>4. CASE ConfirmForm(c, n, tok)
    BY <1>2, <2>4, AnsweredClients DEF ConfirmForm, Pages
  <2> QED BY <2>1, <2>2, <2>3, <2>4 DEF TapConfirm
<1> QED BY <1>2, <1>3, <1>4 DEF VerdictInv

\* Marks, Releases: the answer names the decision the goroutine published.
LEMMA FinishKeepsVerdicts ==
  ASSUME VerdictInv, TypeInv',
         NEW c \in Clients, InFlight(c), OnlyBookkeeping,
         UNCHANGED <<topic, limbo>>,
         NEW pc \in {"sent", "couldNotNotify"},
         pc = "sent" => clients[c].pc = "acked",
         Show(c, pc, clients[c].nonce, clients[c].token, clients[c].decision)
  PROVE  VerdictInv'
<1> DEFINE n == clients[c].nonce
           tok == clients[c].token
           d == clients[c].decision
<1>1. /\ n \in Nonces \cup {None}
      /\ tok \in Tokens \cup {None}
      /\ d \in Decisions \cup {Undecided}
      /\ pc \in InFlightPcs \cup Pages
      /\ pc # "expired"
  BY DEF VerdictInv, TypeInv, TypeOK, ClaimTyped, Pages
<1>2. StoreInv' /\ HistoryGrows
  BY BookkeepingKeepsStoreInv, BookkeepingKeepsLapsed DEF VerdictInv
<1>3. HeardIsVerdict'
  BY <1>2, SameMessages
<1>4. d # Undecided => [token |-> tok, decision |-> d] \in verdicts'
  BY <1>2 DEF VerdictInv, ClientInv, VerdictOn, HistoryGrows
<1>5. pc = "sent" => \E m \in topic' : m.token = tok /\ m.decision = d
  BY DEF VerdictInv, ClientInv, Heard
<1>6. Show(c, pc, n, tok, d)
  OBVIOUS
<1>7. \A b \in Clients : ClientInv(b)'
  <2> HIDE DEF n, tok, d
  <2>1. pc \in {"acked", "sent"} => pc = "sent"
    OBVIOUS
  <2> QED BY <1>1, <1>2, <1>4, <1>5, <1>6, <2>1, AnsweredClients
          DEF VerdictOn, Heard
<1> QED BY <1>2, <1>3, <1>7 DEF VerdictInv

\* The steps of an attempt that touch no record.
LEMMA AttemptKeepsVerdicts ==
  ASSUME VerdictInv, TypeInv',
         NEW c \in Clients, clients[c].pc \in {"claimed", "publishing"},
         UNCHANGED <<store, registrations, verdicts>>,
         topic \subseteq topic',
         NEW pc \in InFlightPcs,
         \A b \in Clients : b # c => clients'[b] = clients[b],
         clients'[c].pc = pc,
         clients'[c].token = clients[c].token,
         clients'[c].decision = clients[c].decision,
         clients'[c].delivered \/ pc = "acked"
           => clients[c].delivered \/ MessageOf(c) \in topic',
         topic' \cup limbo' \subseteq topic \cup limbo \cup {MessageOf(c)}
  PROVE  VerdictInv'
<1>1. InFlight(c)
  BY DEF InFlight, InFlightPcs
<1>2. StoreInv' /\ HistoryGrows
  BY SameStore
<1>3. HeardIsVerdict'
  BY <1>1, MessageIsVerdict DEF VerdictInv, HeardIsVerdict, VerdictOn
<1>4. ClientInv(c)'
  <2>1. pc # "expired" /\ pc # "sent"
    BY DEF InFlightPcs
  <2>2. MessageOf(c) \in topic' => Heard(clients[c].token, clients[c].decision)'
    BY DEF Heard, MessageOf
  <2>3. clients[c].delivered => Heard(clients[c].token, clients[c].decision)'
    BY DEF VerdictInv, ClientInv, Heard
  <2>4. clients[c].decision # Undecided
          => VerdictOn(clients[c].token, clients[c].decision)'
    BY DEF VerdictInv, ClientInv, VerdictOn
  <2> QED BY <2>1, <2>2, <2>3, <2>4 DEF ClientInv, Heard, VerdictOn
<1>5. ASSUME NEW b \in Clients, b # c PROVE ClientInv(b)'
  BY <1>2, <1>5, KeptClient DEF VerdictInv
<1> QED BY <1>2, <1>3, <1>4, <1>5 DEF VerdictInv

LEMMA HandlerKeepsVerdicts ==
  ASSUME VerdictInv, TypeInv', NEW c \in Clients, HandlerStep(c)
  PROVE  VerdictInv'
<1> USE DEF VerdictInv, TypeInv, TypeOK
<1>1. CASE ReadDetail(c)
  <2>1. /\ \A b \in Clients : b # c => clients'[b] = clients[b]
        /\ clients'[c].pc = "publishing"
        /\ clients'[c].token = clients[c].token
        /\ clients'[c].decision = clients[c].decision
        /\ clients'[c].delivered = clients[c].delivered
    BY <1>1 DEF ReadDetail, ClientState
  <2> HIDE DEF VerdictInv, TypeInv, TypeOK
  <2> QED BY <1>1, <2>1, AttemptKeepsVerdicts DEF ReadDetail, InFlightPcs
<1>2. CASE PublishSucceeds(c)
  <2>1. /\ \A b \in Clients : b # c => clients'[b] = clients[b]
        /\ clients'[c].pc = "acked"
        /\ clients'[c].token = clients[c].token
        /\ clients'[c].decision = clients[c].decision
        /\ clients[c].delivered
    BY <1>2 DEF PublishSucceeds, ClientState
  <2> HIDE DEF VerdictInv, TypeInv, TypeOK
  <2> QED BY <1>2, <2>1, AttemptKeepsVerdicts DEF PublishSucceeds, InFlightPcs
<1>3. CASE PublishFails(c)
  <2>1. /\ \A b \in Clients : b # c => clients'[b] = clients[b]
        /\ clients'[c].pc = "errored"
        /\ clients'[c].token = clients[c].token
        /\ clients'[c].decision = clients[c].decision
        /\ clients'[c].delivered = clients[c].delivered
    BY <1>3 DEF PublishFails, ClientState
  <2>2. topic' \cup limbo' \subseteq topic \cup limbo \cup {MessageOf(c)}
    BY <1>3 DEF PublishFails
  <2> HIDE DEF VerdictInv, TypeInv, TypeOK
  <2> QED BY <1>3, <2>1, <2>2, AttemptKeepsVerdicts
          DEF PublishFails, InFlightPcs
<1>4. CASE Marks(c)
  <2>1. OnlyBookkeeping
    BY <1>4, MarksIsBookkeeping
  <2>2. InFlight(c) /\ clients[c].pc = "acked"
    BY <1>4 DEF Marks, InFlight, InFlightPcs
  <2> HIDE DEF VerdictInv, TypeInv, TypeOK
  <2> QED BY <1>4, <2>1, <2>2, FinishKeepsVerdicts DEF Marks
<1>5. CASE Releases(c)
  <2>1. OnlyBookkeeping
    BY <1>5, ReleasesIsBookkeeping
  <2>2. InFlight(c)
    BY <1>5 DEF Releases, InFlight, InFlightPcs
  <2> HIDE DEF VerdictInv, TypeInv, TypeOK
  <2> QED BY <1>5, <2>1, <2>2, FinishKeepsVerdicts DEF Releases
<1> HIDE DEF VerdictInv, TypeInv, TypeOK
<1> QED BY <1>1, <1>2, <1>3, <1>4, <1>5 DEF HandlerStep

LEMMA VerdictStep ==
  ASSUME VerdictInv, [Next]_vars
  PROVE  VerdictInv'
<1>0. TypeInv'
  BY TypeStep DEF VerdictInv
<1>1. ASSUME NEW n \in Nonces, NEW tok \in Tokens, NEW det \in Details,
             Register(n, tok, det)
      PROVE  VerdictInv'
  BY <1>0, <1>1, RegisterKeepsVerdicts
<1>2. ASSUME NEW n \in Nonces, RegisterDuplicate(n)
      PROVE  VerdictInv'
  <2>1. UNCHANGED <<store, clients, topic, limbo, registrations, verdicts>>
    BY <1>2 DEF RegisterDuplicate
  <2>2. StoreInv' /\ HistoryGrows
    BY <2>1, SameStore
  <2> QED BY <1>0, <2>1, <2>2, SameMessages, SameAnswers DEF VerdictInv
<1>3. ASSUME NEW c \in Clients, NEW n \in Nonces, NEW tok \in Tokens,
             TapConfirm(c, n, tok)
      PROVE  VerdictInv'
  BY <1>0, <1>3, TapConfirmKeepsVerdicts
<1>4. ASSUME NEW c \in Clients, NEW n \in Nonces, NEW tok \in Tokens,
             NEW d \in Decisions, Tap(c, n, tok, d)
      PROVE  VerdictInv'
  BY <1>0, <1>4, TapKeepsVerdicts
<1>5. ASSUME NEW c \in Clients, HandlerStep(c)
      PROVE  VerdictInv'
  BY <1>0, <1>5, HandlerKeepsVerdicts
<1>6. ASSUME NEW c \in Clients, NtfyAccepts(c)
      PROVE  VerdictInv'
  <2>1. /\ \A b \in Clients : b # c => clients'[b] = clients[b]
        /\ clients'[c].pc = "publishing"
        /\ clients'[c].token = clients[c].token
        /\ clients'[c].decision = clients[c].decision
    BY <1>6 DEF NtfyAccepts, VerdictInv, TypeInv, TypeOK, ClientState
  <2>2. topic' \cup limbo' \subseteq topic \cup limbo \cup {MessageOf(c)}
    BY <1>6 DEF NtfyAccepts
  <2> QED BY <1>0, <1>6, <2>1, <2>2, AttemptKeepsVerdicts
          DEF NtfyAccepts, InFlightPcs
<1>7. CASE LateArrival
  <2>1. /\ UNCHANGED <<store, clients, registrations, verdicts>>
        /\ topic \subseteq topic'
        /\ topic' \cup limbo' \subseteq topic \cup limbo
    BY <1>7 DEF LateArrival
  <2>2. StoreInv' /\ HistoryGrows
    BY <2>1, SameStore
  <2>3. HeardIsVerdict'
    BY <2>1 DEF VerdictInv, HeardIsVerdict, VerdictOn
  <2> QED BY <1>0, <2>1, <2>2, <2>3, SameAnswers DEF VerdictInv
<1>8. CASE Reap
  <2>1. OnlyBookkeeping
    BY <1>8, ReapIsBookkeeping
  <2>2. UNCHANGED <<clients, topic, limbo>>
    BY <1>8 DEF Reap
  <2>3. StoreInv' /\ HistoryGrows
    BY <2>1, <2>2, BookkeepingKeepsStoreInv, BookkeepingKeepsLapsed
       DEF VerdictInv
  <2> QED BY <1>0, <2>2, <2>3, SameMessages, SameAnswers DEF VerdictInv
<1>9. CASE Tick
  <2>1. OnlyBookkeeping
    BY <1>9, TickIsBookkeeping
  <2>2. UNCHANGED <<topic, limbo>>
    BY <1>9 DEF Tick
  <2>3. \A c \in Clients :
          /\ clients'[c].pc = clients[c].pc
          /\ clients'[c].token = clients[c].token
          /\ clients'[c].decision = clients[c].decision
          /\ clients'[c].delivered = clients[c].delivered
    BY <1>9 DEF Tick, VerdictInv, TypeInv, TypeOK, ClientState
  <2>4. StoreInv' /\ HistoryGrows
    BY <2>1, <2>2, BookkeepingKeepsStoreInv, BookkeepingKeepsLapsed
       DEF VerdictInv
  <2> QED BY <1>0, <2>2, <2>3, <2>4, SameMessages, SameAnswers DEF VerdictInv
<1>10. CASE Crash
  <2>1. OnlyBookkeeping
    BY <1>10, CrashIsBookkeeping
  <2>2. StoreInv' /\ HistoryGrows
    BY <1>10, <2>1, BookkeepingKeepsStoreInv, BookkeepingKeepsLapsed
       DEF VerdictInv, Crash
  <2>3. HeardIsVerdict'
    <3>1. ASSUME NEW m \in limbo', m \notin limbo
          PROVE  VerdictOn(m.token, m.decision)
      <4>1. PICK c \in Clients : InFlight(c) /\ m = MessageOf(c)
        BY <1>10, <3>1 DEF Crash, InFlight, InFlightPcs
      <4> QED BY <4>1, MessageIsVerdict
    <3>2. verdicts' = verdicts /\ topic' = topic
      BY <1>10 DEF Crash
    <3> QED BY <3>1, <3>2 DEF VerdictInv, HeardIsVerdict, VerdictOn
  <2>4. ASSUME NEW c \in Clients PROVE ClientInv(c)'
    <3>1. CASE InFlight(c)
      BY <1>10, <3>1 DEF Crash, Idle, ClientInv
    <3>2. CASE ~ InFlight(c)
      <4>1. clients'[c] = clients[c]
        BY <1>10, <3>2 DEF Crash
      <4> QED BY <2>2, <4>1, KeptClient DEF VerdictInv
    <3> QED BY <3>1, <3>2
  <2> QED BY <1>0, <2>2, <2>3, <2>4 DEF VerdictInv
<1>11. CASE UNCHANGED vars
  <2>1. UNCHANGED <<store, clients, topic, limbo, registrations, verdicts>>
    BY <1>11 DEF vars
  <2>2. StoreInv' /\ HistoryGrows
    BY <2>1, SameStore
  <2> QED BY <1>0, <2>1, <2>2, SameMessages, SameAnswers DEF VerdictInv
<1> QED BY <1>1, <1>2, <1>3, <1>4, <1>5, <1>6, <1>7, <1>8, <1>9, <1>10, <1>11
        DEF Next

LEMMA VerdictInvInvariant == Spec => []VerdictInv
<1>1. Init => VerdictInv
  <2> SUFFICES ASSUME Init PROVE VerdictInv
    OBVIOUS
  <2>1. TypeInv
    <3>1. Idle \in ClientState /\ Idle.pc \notin InFlightPcs
      BY StoreAssumption, ApprovalAssumption
         DEF Idle, ClientState, Pages, InFlightPcs
    <3>2. IsStore(EmptyStore)
      BY DEF IsStore, EmptyStore
    <3> QED BY <3>1, <3>2 DEF Init, TypeInv, TypeOK, ClaimTyped, InFlight
  <2>2. StoreInv /\ HeardIsVerdict
    BY DEF Init, EmptyStore, StoreInv, OneVerdict, StoreMinted,
           VerdictsMinted, TokensUnique, UndecidedFree, HeardIsVerdict
  <2>3. \A c \in Clients : ClientInv(c)
    BY DEF Init, Idle, ClientInv
  <2> QED BY <2>1, <2>2, <2>3 DEF VerdictInv
<1>2. VerdictInv /\ [Next]_vars => VerdictInv'
  BY VerdictStep
<1> QED BY <1>1, <1>2, PTL DEF Spec

\* A registration never gets two decisions, whoever taps and whatever crashes,
\* expires, is reaped or registered again in between.
THEOREM OneVerdictHolds == Spec => []OneVerdict
BY VerdictInvInvariant, VerdictInvImplies, PTL

\* Nothing the machine can hear contradicts the decision in force.
THEOREM HeardIsVerdictHolds == Spec => []HeardIsVerdict
BY VerdictInvInvariant, VerdictInvImplies, PTL

\* No page and no goroutine names another decision than the one in force.
THEOREM ShownIsVerdictHolds == Spec => []ShownIsVerdict
BY VerdictInvInvariant, VerdictInvImplies, PTL

\* A registration shown as expired is never decided afterwards.
THEOREM ExpiredIsFinalHolds == Spec => []ExpiredIsFinal
BY VerdictInvInvariant, VerdictInvImplies, PTL

\* Whoever reads "Sent" can rely on the machine having been told.
THEOREM SentWasHeardHolds == Spec => []SentWasHeard
BY VerdictInvInvariant, VerdictInvImplies, PTL

-----------------------------------------------------------------------------
(***************************************************************************)
(* Initial states map to initial states of OneTap, and every step to a     *)
(* step of OneTap or a stutter.                                            *)
(***************************************************************************)
\* A decided registration has the phase of its one decision.
LEMMA DecidedPhase ==
  ASSUME OneVerdict, NEW t, NEW d \in Decisions, VerdictOn(t, d)
  PROVE  Phase(t) = d
<1>1. \A e \in Decisions : VerdictOn(t, e) => e = d
  BY DEF OneVerdict, VerdictOn
<1> QED BY <1>1 DEF Phase, Decisions

\* A registration without a decision has a phase of its own.
LEMMA UndecidedPhase ==
  ASSUME NEW t, \A v \in verdicts : v.token # t
  PROVE  Phase(t) = IF t \notin MintedTokens THEN "unissued"
                    ELSE IF OpenIn(store, t) THEN "open" ELSE "void"
<1>1. \A d : ~ VerdictOn(t, d)
  BY DEF VerdictOn
<1> QED BY <1>1 DEF Phase

\* Nothing a registration's phase depends on changed.
LEMMA SamePhase ==
  ASSUME NEW t,
         \A d : VerdictOn(t, d)' <=> VerdictOn(t, d),
         (t \in MintedTokens)' <=> t \in MintedTokens,
         OpenIn(store, t)' <=> OpenIn(store, t)
  PROVE  Phase(t)' = Phase(t)
BY DEF Phase

-----------------------------------------------------------------------------
\* Bookkeeping closes open registrations, by dropping them or by letting them
\* grow too old, and touches no other.
LEMMA BookkeepingVoids ==
  ASSUME VerdictInv, TypeInv', OnlyBookkeeping, UNCHANGED <<topic, acked>>
  PROVE  Abstract!Void
<1> DEFINE S == {t \in Tokens : Phase(t) = "open" /\ Phase(t)' # "open"}
<1>1. \A n \in DOMAIN store' :
        /\ n \in DOMAIN store
        /\ store'[n].token = store[n].token
        /\ store'[n].decided = store[n].decided
        /\ store'[n].age <= RequestTTL => store[n].age <= RequestTTL
  <2>1. ASSUME NEW n \in DOMAIN store', store'[n].age <= RequestTTL
        PROVE  store[n].age <= RequestTTL
    <3>1. n \in DOMAIN store /\ store[n].age \in Nat /\ store'[n].age \in Nat
      BY StoreAssumption
         DEF OnlyBookkeeping, VerdictInv, TypeInv, TypeOK, IsStore, Request
    <3>2. store[n].age > RequestTTL => store'[n].age > RequestTTL
      BY DEF OnlyBookkeeping
    <3> QED BY <2>1, <3>1, <3>2, StoreAssumption
  <2> QED BY <2>1 DEF OnlyBookkeeping
<1>2. \A t : OpenIn(store', t) => OpenIn(store, t)
  BY <1>1 DEF OpenIn
<1>3. ASSUME NEW t \in Tokens
      PROVE  Phase(t)' = IF t \in S THEN "void" ELSE Phase(t)
  <2>1. \A d : VerdictOn(t, d)' <=> VerdictOn(t, d)
    BY DEF OnlyBookkeeping, VerdictOn
  <2>2. (t \in MintedTokens)' <=> t \in MintedTokens
    BY DEF OnlyBookkeeping, MintedTokens
  <2>3. OpenIn(store, t)' => OpenIn(store, t)
    BY <1>2 DEF OpenIn
  <2> QED BY <2>1, <2>2, <2>3 DEF Phase
<1>4. [t \in Tokens |-> Phase(t)']
        = [t \in Tokens |-> IF t \in S THEN "void" ELSE [u \in Tokens |-> Phase(u)][t]]
  BY <1>3
<1>5. S \in SUBSET {t \in Tokens : [u \in Tokens |-> Phase(u)][t] = "open"}
  OBVIOUS
<1> QED BY <1>4, <1>5 DEF Abstract!Void

\* A registration becomes open.
LEMMA RegisterIssues ==
  ASSUME VerdictInv, NEW n \in Nonces, NEW tok \in Tokens, NEW det \in Details,
         Register(n, tok, det)
  PROVE  Abstract!Issue(tok)
<1>1. /\ DOMAIN store' = DOMAIN store \cup {n}
      /\ store'[n] = NewRequest(tok, det)
      /\ \A k \in DOMAIN store : k # n => store'[k] = store[k]
  BY NewRequestFacts, PutStep DEF Register, VerdictInv, TypeInv, TypeOK
<1>2. /\ store'[n].token = tok
      /\ store'[n].decided = Undecided
      /\ store'[n].age = 0
  BY <1>1 DEF NewRequest
<1>3. /\ n \notin DOMAIN store
      /\ tok \notin MintedTokens
      /\ verdicts' = verdicts
      /\ MintedTokens' = MintedTokens \cup {tok}
  <2>1. registrations'
          = registrations \cup {[token |-> tok, nonce |-> n, detail |-> det]}
    BY DEF Register
  <2> DEFINE reg == [token |-> tok, nonce |-> n, detail |-> det]
  <2>2. reg.token = tok /\ registrations' = registrations \cup {reg}
    BY <2>1
  <2>3. MintedTokens' = MintedTokens \cup {tok}
    <3> HIDE DEF reg
    <3> QED BY <2>2 DEF MintedTokens
  <2> QED BY <2>3 DEF Register
<1>4. \A v \in verdicts : v.token # tok
  BY <1>3 DEF VerdictInv, StoreInv, VerdictsMinted
<1>5. Phase(tok) = "unissued"
  BY <1>3, <1>4, UndecidedPhase
<1>6. Phase(tok)' = "open"
  <2>1. OpenIn(store, tok)'
    BY <1>1, <1>2, StoreAssumption DEF OpenIn
  <2>2. \A d : ~ VerdictOn(tok, d)'
    BY <1>3, <1>4 DEF VerdictOn
  <2> QED BY <1>3, <2>1, <2>2 DEF Phase
<1>7. ASSUME NEW t \in Tokens, t # tok PROVE Phase(t)' = Phase(t)
  <2>1. OpenIn(store, t)' <=> OpenIn(store, t)
    BY <1>1, <1>2, <1>3, <1>7 DEF OpenIn
  <2>2. \A d : VerdictOn(t, d)' <=> VerdictOn(t, d)
    BY <1>3 DEF VerdictOn
  <2>3. (t \in MintedTokens)' <=> t \in MintedTokens
    BY <1>3, <1>7
  <2> QED BY <2>1, <2>2, <2>3 DEF Phase
<1> QED BY <1>5, <1>6, <1>7 DEF Abstract!Issue, Register

\* The first tap in time decides it.
LEMMA TapDecidesDecides ==
  ASSUME VerdictInv, VerdictInv',
         NEW c \in Clients, NEW n \in Nonces, NEW tok \in Tokens,
         NEW d \in Decisions, TapDecides(c, n, tok, d),
         UNCHANGED <<topic, limbo, reply, registrations, acked>>
  PROVE  Abstract!Decide(tok, d)
<1>1. /\ n \in DOMAIN store
      /\ store[n] \in Request
      /\ store[n].token = tok
      /\ store[n].decided = Undecided
      /\ store[n].age <= RequestTTL
      /\ IsStore(store)
  BY DEF TapDecides, Valid, Decidable, VerdictInv, TypeInv, TypeOK, IsStore
<1>2. /\ Settled(store[n], d) \in Request
      /\ Settled(store[n], d).token = tok
  BY <1>1, SettledFacts
<1>3. /\ DOMAIN store' = DOMAIN store
      /\ store'[n].token = tok
      /\ \A k \in DOMAIN store : k # n => store'[k] = store[k]
  BY <1>1, <1>2, PutStep DEF TapDecides
<1>4. verdicts' = verdicts \cup {[token |-> tok, decision |-> d]}
  BY DEF TapDecides
<1>5. Phase(tok) = "open"
  <2>1. \A v \in verdicts : v.token # tok
    BY <1>1 DEF VerdictInv, StoreInv, UndecidedFree
  <2>2. tok \in MintedTokens
    BY <1>1 DEF VerdictInv, StoreInv, StoreMinted, MintedTokens
  <2>3. OpenIn(store, tok)
    BY <1>1 DEF OpenIn
  <2> QED BY <2>1, <2>2, <2>3, UndecidedPhase
<1>6. Phase(tok)' = d
  <2>1. OneVerdict'
    BY DEF VerdictInv, StoreInv
  <2>2. \A e \in Decisions : VerdictOn(tok, e)' <=> e = d
    BY <1>4, <2>1 DEF OneVerdict, VerdictOn
  <2> QED BY <2>2 DEF Phase, Decisions
<1>7. ASSUME NEW t \in Tokens, t # tok PROVE Phase(t)' = Phase(t)
  <2>1. OpenIn(store, t)' <=> OpenIn(store, t)
    BY <1>1, <1>3, <1>7 DEF OpenIn
  <2>2. \A e : VerdictOn(t, e)' <=> VerdictOn(t, e)
    BY <1>4, <1>7 DEF VerdictOn
  <2>3. (t \in MintedTokens)' <=> t \in MintedTokens
    BY DEF MintedTokens
  <2> QED BY <2>1, <2>2, <2>3 DEF Phase
<1> QED BY <1>5, <1>6, <1>7 DEF Abstract!Decide

\* A message is heard: it carries the decision its registration has.
LEMMA MessageHears ==
  ASSUME VerdictInv, NEW m \in Message, VerdictOn(m.token, m.decision),
         topic' = topic \cup {m},
         UNCHANGED <<store, registrations, verdicts, acked>>
  PROVE  Abstract!Hear(m.token, m.decision)
<1>1. m.token \in Tokens /\ m.decision \in Decisions
  BY DEF Message
<1>2. Phase(m.token) = m.decision
  BY <1>1, DecidedPhase DEF VerdictInv, StoreInv
<1>3. \A t : Phase(t)' = Phase(t)
  BY DEF Phase, VerdictOn, MintedTokens, OpenIn
<1>4. {[token |-> k.token, decision |-> k.decision] : k \in topic'}
        = {[token |-> k.token, decision |-> k.decision] : k \in topic}
            \cup {[token |-> m.token, decision |-> m.decision]}
  OBVIOUS
<1> QED BY <1>1, <1>2, <1>3, <1>4 DEF Abstract!Hear, Abstract!Pair

\* An acknowledged publish confirms what can be heard.
LEMMA SuccessConfirms ==
  ASSUME VerdictInv, NEW c \in Clients, PublishSucceeds(c)
  PROVE  Abstract!Confirm(clients[c].token)
<1>1. InFlight(c) /\ clients[c].delivered
  BY DEF PublishSucceeds, InFlight, InFlightPcs
<1>2. clients[c].decision \in Decisions
  BY <1>1 DEF VerdictInv, TypeInv, ClaimTyped
<1>3. PICK m \in topic : m.token = clients[c].token /\ m.decision = clients[c].decision
  BY <1>1 DEF VerdictInv, ClientInv, Heard
<1>4. \A t : Phase(t)' = Phase(t)
  BY DEF PublishSucceeds, Phase, VerdictOn, MintedTokens, OpenIn
<1>5. Abstract!Pair(clients[c].token, clients[c].decision)
        \in {[token |-> k.token, decision |-> k.decision] : k \in topic}
  BY <1>3 DEF Abstract!Pair
<1> QED BY <1>2, <1>4, <1>5 DEF Abstract!Confirm, PublishSucceeds

\* Everything else leaves what the promise speaks of alone.
LEMMA StoreUnchangedStutters ==
  ASSUME UNCHANGED <<store, topic, registrations, verdicts, acked>>
  PROVE  UNCHANGED Abstract!vars
<1>1. \A t : Phase(t)' = Phase(t)
  BY DEF Phase, VerdictOn, MintedTokens, OpenIn
<1> QED BY <1>1 DEF Abstract!vars

LEMMA TapImplements ==
  ASSUME VerdictInv, VerdictInv',
         NEW c \in Clients, NEW n \in Nonces, NEW tok \in Tokens,
         NEW d \in Decisions, Tap(c, n, tok, d)
  PROVE  [Abstract!Next]_Abstract!vars
<1>1. UNCHANGED <<topic, limbo, reply, registrations, acked>>
  BY DEF Tap
<1>2. CASE TapUnknown(c, n, tok)
  BY <1>1, <1>2, StoreUnchangedStutters DEF TapUnknown
<1>3. CASE TapExpired(c, n, tok)
  BY <1>1, <1>3, StoreUnchangedStutters DEF TapExpired
<1>4. CASE TapDecides(c, n, tok, d)
  BY <1>1, <1>4, TapDecidesDecides DEF Abstract!Next
<1>5. CASE TapRetries(c, n, tok, d)
  <2>1. OnlyBookkeeping
    BY <1>1, <1>5, RetryIsBookkeeping
  <2> QED BY <1>1, <2>1, BookkeepingVoids DEF VerdictInv, Abstract!Next
<1>6. CASE TapReplayed(c, n, tok, d)
  BY <1>1, <1>6, StoreUnchangedStutters DEF TapReplayed
<1> QED BY <1>2, <1>3, <1>4, <1>5, <1>6 DEF Tap

LEMMA HandlerImplements ==
  ASSUME VerdictInv, VerdictInv', NEW c \in Clients, HandlerStep(c)
  PROVE  [Abstract!Next]_Abstract!vars
<1>1. CASE ReadDetail(c)
  BY <1>1, StoreUnchangedStutters DEF ReadDetail
<1>2. CASE PublishSucceeds(c)
  <2>1. clients[c].token \in Tokens
    BY <1>2 DEF PublishSucceeds, InFlight, InFlightPcs, VerdictInv, TypeInv,
                ClaimTyped
  <2> QED BY <1>2, <2>1, SuccessConfirms DEF Abstract!Next
<1>3. CASE PublishFails(c)
  BY <1>3, StoreUnchangedStutters DEF PublishFails
<1>4. CASE Marks(c)
  <2>1. OnlyBookkeeping /\ UNCHANGED <<topic, acked>>
    BY <1>4, MarksIsBookkeeping DEF Marks
  <2> QED BY <2>1, BookkeepingVoids DEF VerdictInv, Abstract!Next
<1>5. CASE Releases(c)
  <2>1. OnlyBookkeeping /\ UNCHANGED <<topic, acked>>
    BY <1>5, ReleasesIsBookkeeping DEF Releases
  <2> QED BY <2>1, BookkeepingVoids DEF VerdictInv, Abstract!Next
<1> QED BY <1>1, <1>2, <1>3, <1>4, <1>5 DEF HandlerStep

LEMMA StepImplements ==
  ASSUME VerdictInv, [Next]_vars
  PROVE  [Abstract!Next]_Abstract!vars
<1>0. VerdictInv' /\ TypeInv'
  BY VerdictStep DEF VerdictInv
<1>1. ASSUME NEW n \in Nonces, NEW tok \in Tokens, NEW det \in Details,
             Register(n, tok, det)
      PROVE  Abstract!Next
  BY <1>1, RegisterIssues DEF Abstract!Next
<1>2. ASSUME NEW n \in Nonces, RegisterDuplicate(n)
      PROVE  UNCHANGED Abstract!vars
  BY <1>2, StoreUnchangedStutters DEF RegisterDuplicate
<1>3. ASSUME NEW c \in Clients, NEW n \in Nonces, NEW tok \in Tokens,
             TapConfirm(c, n, tok)
      PROVE  UNCHANGED Abstract!vars
  BY <1>3, StoreUnchangedStutters DEF TapConfirm
<1>4. ASSUME NEW c \in Clients, NEW n \in Nonces, NEW tok \in Tokens,
             NEW d \in Decisions, Tap(c, n, tok, d)
      PROVE  [Abstract!Next]_Abstract!vars
  BY <1>0, <1>4, TapImplements
<1>5. ASSUME NEW c \in Clients, HandlerStep(c)
      PROVE  [Abstract!Next]_Abstract!vars
  BY <1>0, <1>5, HandlerImplements
<1>6. ASSUME NEW c \in Clients, NtfyAccepts(c)
      PROVE  Abstract!Next
  <2>1. InFlight(c) /\ topic' = topic \cup {MessageOf(c)}
    BY <1>6 DEF NtfyAccepts, InFlight, InFlightPcs
  <2>2. /\ MessageOf(c) \in Message
        /\ VerdictOn(MessageOf(c).token, MessageOf(c).decision)
    BY <2>1, MessageFacts, MessageIsVerdict DEF VerdictInv
  <2>3. PICK m \in Message : /\ VerdictOn(m.token, m.decision)
                            /\ topic' = topic \cup {m}
    BY <2>1, <2>2
  <2>4. UNCHANGED <<store, registrations, verdicts, acked>>
    BY <1>6 DEF NtfyAccepts
  <2>5. Abstract!Hear(m.token, m.decision)
    BY <2>3, <2>4, MessageHears
  <2> QED BY <2>3, <2>5 DEF Abstract!Next, Message
<1>7. CASE LateArrival
  <2>1. PICK m \in limbo : topic' = topic \cup {m}
    BY <1>7 DEF LateArrival
  <2>2. m \in Message /\ VerdictOn(m.token, m.decision)
    BY DEF VerdictInv, TypeInv, TypeOK, HeardIsVerdict
  <2>3. Abstract!Hear(m.token, m.decision)
    BY <1>7, <2>1, <2>2, MessageHears DEF LateArrival
  <2> QED BY <2>2, <2>3 DEF Abstract!Next, Message
<1>8. CASE Reap
  <2>1. OnlyBookkeeping /\ UNCHANGED <<topic, acked>>
    BY <1>8, ReapIsBookkeeping DEF Reap
  <2> QED BY <1>0, <2>1, BookkeepingVoids DEF Abstract!Next
<1>9. CASE Tick
  <2>1. OnlyBookkeeping /\ UNCHANGED <<topic, acked>>
    BY <1>9, TickIsBookkeeping DEF Tick
  <2> QED BY <1>0, <2>1, BookkeepingVoids DEF Abstract!Next
<1>10. CASE Crash
  <2>1. OnlyBookkeeping /\ UNCHANGED <<topic, acked>>
    BY <1>10, CrashIsBookkeeping DEF Crash
  <2> QED BY <1>0, <2>1, BookkeepingVoids DEF Abstract!Next
<1>11. CASE UNCHANGED vars
  BY <1>11, StoreUnchangedStutters DEF vars
<1> QED BY <1>1, <1>2, <1>3, <1>4, <1>5, <1>6, <1>7, <1>8, <1>9, <1>10, <1>11
        DEF Next

\* Whatever nonces, clocks, goroutines, failures and restarts do, each
\* registration is open, then decided once or void, and only its decision is
\* ever heard.
THEOREM ImplementsOneTapHolds == Spec => ImplementsOneTap
<1>1. Init => Abstract!Init
  <2> SUFFICES ASSUME Init PROVE Abstract!Init
    OBVIOUS
  <2>1. \A t : Phase(t) = "unissued"
    BY DEF Init, Phase, VerdictOn, MintedTokens
  <2> QED BY <2>1 DEF Init, Abstract!Init
<1>2. VerdictInv /\ [Next]_vars => [Abstract!Next]_Abstract!vars
  BY StepImplements
<1> QED BY <1>1, <1>2, VerdictInvInvariant, PTL
        DEF Spec, ImplementsOneTap, Abstract!Spec
=============================================================================
