------------------------ MODULE ApprovalClaimProofs -------------------------
(***************************************************************************)
(* Proofs about the publish claim.  markPublished, releasePublish and      *)
(* detailFor find their record by nonce alone, so these hold when the      *)
(* machine never registers a nonce twice (FreshNonces); the run            *)
(* MCApproval_marked shows that PublishedWasHeard fails when it does.      *)
(***************************************************************************)
EXTENDS ApprovalProofs

OneRegistration ==
  \A r, q \in registrations : r.nonce = q.nonce \/ r.token = q.token => r = q

\* A POST in the server was sent to a link the server issued.
ClaimRegistered ==
  \A c \in Clients :
    InFlight(c) => \E r \in registrations :
                     r.token = clients[c].token /\ r.nonce = clients[c].nonce

FlagsOfDecided ==
  \A n \in DOMAIN store :
    store[n].publishing \/ store[n].published => store[n].decided # Undecided

\* The record of an acknowledged publish is marked, or about to be.
AckedSettled ==
  \A n \in DOMAIN store :
    store[n].token \in acked
      => \/ store[n].published
         \/ \E c \in Clients : /\ clients[c].pc = "acked"
                               /\ clients[c].token = store[n].token

AckedDecided == \A t \in acked : \E v \in verdicts : v.token = t

ClaimInv ==
  /\ OneRegistration
  /\ ClaimRegistered
  /\ ClaimHeld
  /\ FlagsOfDecided
  /\ PublishedWasHeard
  /\ AckedSettled
  /\ AckedOnce
  /\ AckedDecided

-----------------------------------------------------------------------------
\* With fresh nonces, a goroutine's nonce and its token name one record.
LEMMA ClaimedRecord ==
  ASSUME VerdictInv, OneRegistration, ClaimRegistered,
         NEW c \in Clients, InFlight(c), NEW n \in DOMAIN store
  PROVE  store[n].token = clients[c].token <=> clients[c].nonce = n
<1>1. PICK r \in registrations :
        r.token = clients[c].token /\ r.nonce = clients[c].nonce
  BY DEF ClaimRegistered
<1>2. PICK q \in registrations : q.token = store[n].token /\ q.nonce = n
  BY DEF VerdictInv, StoreInv, StoreMinted
<1> QED BY <1>1, <1>2 DEF OneRegistration

\* The decision a goroutine publishes is the one recorded for its token.
LEMMA ClaimedVerdict ==
  ASSUME VerdictInv, NEW c \in Clients, InFlight(c)
  PROVE  VerdictOn(clients[c].token, clients[c].decision)
BY DEF VerdictInv, TypeInv, ClaimTyped, ClientInv, Decisions, Undecided

\* Steps that take or give back no claim and change no flag of a record.
ClaimsKept ==
  /\ DOMAIN store' \subseteq DOMAIN store
  /\ \A k \in DOMAIN store' :
       /\ store'[k].token = store[k].token
       /\ store'[k].decided = store[k].decided
       /\ store'[k].publishing = store[k].publishing
       /\ store'[k].published = store[k].published
  /\ \A c \in Clients : InFlight(c)' <=> InFlight(c)
  /\ \A c \in Clients :
       InFlight(c) => /\ clients'[c].token = clients[c].token
                      /\ clients'[c].nonce = clients[c].nonce
                      /\ clients'[c].pc = "acked" <=> clients[c].pc = "acked"
  /\ topic \subseteq topic'
  /\ verdicts \subseteq verdicts'
  /\ UNCHANGED <<registrations, acked>>

LEMMA KeptClaims ==
  ASSUME ClaimInv, ClaimsKept
  PROVE  ClaimInv'
<1> USE DEF ClaimsKept
<1>1. OneRegistration' /\ ClaimRegistered'
  BY DEF ClaimInv, OneRegistration, ClaimRegistered
<1>2. ClaimHeld'
  BY DEF ClaimInv, ClaimHeld
<1>3. FlagsOfDecided' /\ PublishedWasHeard'
  BY DEF ClaimInv, FlagsOfDecided, PublishedWasHeard, Heard
<1>4. AckedSettled'
  <2>1. \A c \in Clients : clients[c].pc = "acked" => InFlight(c)
    BY DEF InFlight, InFlightPcs
  <2> QED BY <2>1 DEF ClaimInv, AckedSettled
<1>5. AckedOnce' /\ AckedDecided'
  BY DEF ClaimInv, AckedOnce, AckedDecided
<1> QED BY <1>1, <1>2, <1>3, <1>4, <1>5 DEF ClaimInv

\* Answering one client that had no POST in the server with a page.
LEMMA PageKeepsClaims ==
  ASSUME VerdictInv, ClaimInv,
         NEW c \in Clients, ~ InFlight(c),
         NEW pc \in Pages,
         NEW n \in Nonces \cup {None}, NEW tok \in Tokens \cup {None},
         NEW d \in Decisions \cup {Undecided},
         Show(c, pc, n, tok, d),
         UNCHANGED <<store, topic, registrations, verdicts, acked>>
  PROVE  ClaimInv'
<1>1. /\ clients'[c].pc = pc
      /\ \A b \in Clients : b # c => clients'[b] = clients[b]
  BY ShowFacts DEF VerdictInv, TypeInv
<1>2. pc \notin InFlightPcs /\ pc # "acked"
  BY DEF Pages, InFlightPcs
<1>3. ClaimsKept
  BY <1>1, <1>2 DEF ClaimsKept, InFlight
<1> QED BY <1>3, KeptClaims

-----------------------------------------------------------------------------
LEMMA RegisterKeepsClaims ==
  ASSUME FreshNonces, VerdictInv, ClaimInv,
         NEW n \in Nonces, NEW tok \in Tokens, NEW det \in Details,
         Register(n, tok, det)
  PROVE  ClaimInv'
<1> DEFINE reg == [token |-> tok, nonce |-> n, detail |-> det]
<1>1. /\ DOMAIN store' = DOMAIN store \cup {n}
      /\ store'[n] = NewRequest(tok, det)
      /\ \A k \in DOMAIN store : k # n => store'[k] = store[k]
  BY NewRequestFacts, PutStep DEF Register, VerdictInv, TypeInv, TypeOK
<1>2. /\ store'[n].token = tok
      /\ store'[n].decided = Undecided
      /\ store'[n].publishing = FALSE
      /\ store'[n].published = FALSE
  BY <1>1 DEF NewRequest
<1>3. /\ registrations' = registrations \cup {reg}
      /\ n \notin DOMAIN store
      /\ \A r \in registrations : r.token # tok /\ r.nonce # n
      /\ UNCHANGED <<clients, topic, verdicts, acked>>
  BY DEF Register, MintedTokens, UsedNonces
<1>4. OneRegistration' /\ ClaimRegistered'
  BY <1>3 DEF ClaimInv, OneRegistration, ClaimRegistered, InFlight
<1>5. \A c \in Clients : InFlight(c) => clients[c].token # tok
  BY <1>3 DEF ClaimInv, ClaimRegistered
<1>6. ClaimHeld'
  BY <1>1, <1>2, <1>3, <1>5 DEF ClaimInv, ClaimHeld, InFlight
<1>7. FlagsOfDecided' /\ PublishedWasHeard'
  BY <1>1, <1>2, <1>3 DEF ClaimInv, FlagsOfDecided, PublishedWasHeard, Heard
<1>8. tok \notin acked
  BY <1>3 DEF ClaimInv, AckedDecided, VerdictInv, StoreInv, VerdictsMinted,
              MintedTokens
<1>9. AckedSettled'
  BY <1>1, <1>2, <1>3, <1>8 DEF ClaimInv, AckedSettled
<1>10. AckedOnce' /\ AckedDecided'
  BY <1>3 DEF ClaimInv, AckedOnce, AckedDecided, InFlight
<1> QED BY <1>4, <1>6, <1>7, <1>9, <1>10 DEF ClaimInv

\* decide hands the publish of a record nobody holds to one goroutine.
LEMMA ClaimTaken ==
  ASSUME VerdictInv, ClaimInv,
         NEW c \in Clients, ~ InFlight(c),
         NEW n \in DOMAIN store, NEW d \in Decisions,
         Claim(c, n, store[n].token, d),
         ~ store[n].publishing, ~ store[n].published,
         DOMAIN store' = DOMAIN store,
         store'[n].token = store[n].token,
         store'[n].decided # Undecided,
         store'[n].publishing,
         store'[n].published = store[n].published,
         \A k \in DOMAIN store : k # n => store'[k] = store[k],
         store[n].token \notin acked,
         verdicts \subseteq verdicts',
         UNCHANGED <<topic, registrations, acked>>
  PROVE  ClaimInv'
<1> DEFINE tok == store[n].token
<1>1. n \in Nonces /\ tok \in Tokens
  BY DEF VerdictInv, TypeInv, TypeOK, IsStore, Request
<1>2. /\ clients'[c].pc = "claimed"
      /\ clients'[c].nonce = n
      /\ clients'[c].token = tok
      /\ \A b \in Clients : b # c => clients'[b] = clients[b]
  <2> HIDE DEF tok
  <2>1. Claim(c, n, tok, d)
    BY DEF tok
  <2>2. TypeOK
    BY DEF VerdictInv, TypeInv
  <2> QED BY <1>1, <2>1, <2>2, ClaimFacts
<1>3. InFlight(c)' /\ \A b \in Clients : b # c => (InFlight(b)' <=> InFlight(b))
  BY <1>2 DEF InFlight, InFlightPcs
<1>4. \A b \in Clients : InFlight(b) => clients[b].token # tok
  BY DEF ClaimInv, ClaimHeld
<1>5. \A k \in DOMAIN store : k # n => store[k].token # tok
  BY DEF VerdictInv, StoreInv, TokensUnique
<1>6. OneRegistration' /\ ClaimRegistered'
  <2>1. PICK r \in registrations : r.token = tok /\ r.nonce = n
    BY DEF VerdictInv, StoreInv, StoreMinted
  <2> QED BY <1>2, <1>3, <2>1 DEF ClaimInv, OneRegistration, ClaimRegistered
<1>7. ClaimHeld'
  <2>1. \A k \in DOMAIN store :
          store'[k].publishing
            <=> \E b \in Clients : InFlight(b)' /\ clients'[b].token = store'[k].token
    <3>1. ASSUME NEW k \in DOMAIN store, k # n
          PROVE  store'[k].publishing
                   <=> \E b \in Clients :
                         InFlight(b)' /\ clients'[b].token = store'[k].token
      BY <1>2, <1>3, <1>5, <3>1 DEF ClaimInv, ClaimHeld
    <3>2. \E b \in Clients : InFlight(b)' /\ clients'[b].token = store'[n].token
      BY <1>2, <1>3
    <3> QED BY <3>1, <3>2
  <2>2. \A a, b \in Clients :
          InFlight(a)' /\ InFlight(b)' /\ clients'[a].token = clients'[b].token
            => a = b
    BY <1>2, <1>3, <1>4 DEF ClaimInv, ClaimHeld
  <2> QED BY <2>1, <2>2 DEF ClaimHeld
<1>8. FlagsOfDecided' /\ PublishedWasHeard'
  BY DEF ClaimInv, FlagsOfDecided, PublishedWasHeard, Heard
<1>9. AckedSettled'
  <2>1. clients[c].pc # "acked"
    BY DEF InFlight, InFlightPcs
  <2> QED BY <1>2, <2>1 DEF ClaimInv, AckedSettled
<1>10. AckedOnce' /\ AckedDecided'
  BY <1>2, <1>3 DEF ClaimInv, AckedOnce, AckedDecided
<1> QED BY <1>6, <1>7, <1>8, <1>9, <1>10 DEF ClaimInv

LEMMA TapKeepsClaims ==
  ASSUME VerdictInv, ClaimInv,
         NEW c \in Clients, NEW n \in Nonces, NEW tok \in Tokens,
         NEW d \in Decisions, Tap(c, n, tok, d)
  PROVE  ClaimInv'
<1>1. ~ InFlight(c) /\ UNCHANGED <<topic, limbo, reply, registrations, acked>>
  BY DEF Tap
<1>2. TypeOK /\ IsStore(store)
  BY DEF VerdictInv, TypeInv, TypeOK
<1>3. CASE TapUnknown(c, n, tok)
  BY <1>1, <1>3, PageKeepsClaims DEF TapUnknown, Pages
<1>4. CASE TapExpired(c, n, tok)
  BY <1>1, <1>4, PageKeepsClaims DEF TapExpired, Pages
<1>5. CASE TapDecides(c, n, tok, d)
  <2>1. /\ n \in DOMAIN store
        /\ store[n] \in Request
        /\ store[n].token = tok
        /\ store[n].decided = Undecided
    BY <1>2, <1>5 DEF TapDecides, Valid, Decidable, IsStore
  <2>2. /\ Settled(store[n], d) \in Request
        /\ Settled(store[n], d).token = tok
        /\ Settled(store[n], d).decided = d
        /\ Settled(store[n], d).publishing
        /\ Settled(store[n], d).published = store[n].published
    BY <2>1, SettledFacts
  <2>3. /\ DOMAIN store' = DOMAIN store
        /\ store'[n] = Settled(store[n], d)
        /\ \A k \in DOMAIN store : k # n => store'[k] = store[k]
    BY <1>2, <1>5, <2>1, <2>2, PutStep DEF TapDecides
  <2>4. ~ store[n].publishing /\ ~ store[n].published
    BY <2>1 DEF ClaimInv, FlagsOfDecided
  <2>5. tok \notin acked
    BY <2>1 DEF ClaimInv, AckedDecided, VerdictInv, StoreInv, UndecidedFree
  <2>6. Claim(c, n, store[n].token, d) /\ verdicts \subseteq verdicts'
    BY <1>5, <2>1 DEF TapDecides
  <2>7. d # Undecided
    BY DEF Decisions, Undecided
  <2> QED BY <1>1, <2>1, <2>2, <2>3, <2>4, <2>5, <2>6, <2>7, ClaimTaken
<1>6. CASE TapRetries(c, n, tok, d)
  <2>1. /\ n \in DOMAIN store
        /\ store[n] \in Request
        /\ store[n].token = tok
        /\ store[n].decided \in Decisions
        /\ store[n].decided # Undecided
        /\ ~ store[n].publishing
        /\ ~ store[n].published
    BY <1>2, <1>6 DEF TapRetries, Valid, Owes, IsStore, Request
  <2>2. /\ Claimed(store[n]) \in Request
        /\ Claimed(store[n]).token = tok
        /\ Claimed(store[n]).decided = store[n].decided
        /\ Claimed(store[n]).publishing
        /\ Claimed(store[n]).published = store[n].published
    BY <2>1, ClaimedFacts
  <2>3. /\ DOMAIN store' = DOMAIN store
        /\ store'[n] = Claimed(store[n])
        /\ \A k \in DOMAIN store : k # n => store'[k] = store[k]
    BY <1>2, <1>6, <2>1, <2>2, PutStep DEF TapRetries
  <2>4. tok \notin acked
    <3>1. \A b \in Clients : InFlight(b) => clients[b].token # tok
      BY <2>1 DEF ClaimInv, ClaimHeld
    <3>2. \A b \in Clients : clients[b].pc = "acked" => InFlight(b)
      BY DEF InFlight, InFlightPcs
    <3> QED BY <2>1, <3>1, <3>2 DEF ClaimInv, AckedSettled
  <2>5. Claim(c, n, store[n].token, store[n].decided) /\ verdicts' = verdicts
    BY <1>6, <2>1 DEF TapRetries
  <2> QED BY <1>1, <2>1, <2>2, <2>3, <2>4, <2>5, ClaimTaken
<1>7. CASE TapReplayed(c, n, tok, d)
  <2> DEFINE e == store[n].decided
  <2>1. /\ e \in Decisions \cup {Undecided}
        /\ Show(c, "alreadyDecided", n, tok, e)
        /\ "alreadyDecided" \in Pages
        /\ UNCHANGED <<store, verdicts>>
    BY <1>2, <1>7 DEF TapReplayed, Valid, IsStore, Request, Pages
  <2> HIDE DEF e
  <2> QED BY <1>1, <2>1, PageKeepsClaims
<1> QED BY <1>3, <1>4, <1>5, <1>6, <1>7 DEF Tap

\* Marks, Releases: a goroutine gives its claim back.
LEMMA ClaimReturned ==
  ASSUME VerdictInv, ClaimInv,
         NEW c \in Clients, InFlight(c),
         NEW pc \in Pages, clients'[c].pc = pc,
         \A b \in Clients : b # c => clients'[b] = clients[b],
         DOMAIN store' = DOMAIN store,
         \A k \in DOMAIN store :
           /\ store'[k].token = store[k].token
           /\ store'[k].decided = store[k].decided
           /\ k # clients[c].nonce => store'[k] = store[k]
           /\ k = clients[c].nonce => ~ store'[k].publishing
           /\ store[k].published => store'[k].published
           /\ store'[k].published /\ ~ store[k].published
                => clients[c].pc = "acked"
           /\ clients[c].pc = "acked" /\ k = clients[c].nonce
                => store'[k].published,
         UNCHANGED <<topic, registrations, verdicts, acked>>
  PROVE  ClaimInv'
<1>1. ~ InFlight(c)' /\ \A b \in Clients : b # c => (InFlight(b)' <=> InFlight(b))
  BY DEF InFlight, InFlightPcs, Pages
<1>2. \A k \in DOMAIN store :
        store[k].token = clients[c].token <=> clients[c].nonce = k
  BY ClaimedRecord DEF ClaimInv
<1>3. OneRegistration' /\ ClaimRegistered'
  BY <1>1 DEF ClaimInv, OneRegistration, ClaimRegistered
<1>4. ClaimHeld'
  <2>1. ASSUME NEW k \in DOMAIN store
        PROVE  store'[k].publishing
                 <=> \E b \in Clients :
                       InFlight(b)' /\ clients'[b].token = store'[k].token
    <3>1. CASE k = clients[c].nonce
      <4>1. \A b \in Clients : InFlight(b)' => clients'[b].token # store[k].token
        BY <1>1, <1>2, <3>1 DEF ClaimInv, ClaimHeld
      <4> QED BY <3>1, <4>1
    <3>2. CASE k # clients[c].nonce
      BY <1>1, <1>2, <3>2 DEF ClaimInv, ClaimHeld
    <3> QED BY <3>1, <3>2
  <2>2. \A a, b \in Clients :
          InFlight(a)' /\ InFlight(b)' /\ clients'[a].token = clients'[b].token
            => a = b
    BY <1>1 DEF ClaimInv, ClaimHeld
  <2> QED BY <2>1, <2>2 DEF ClaimHeld
<1>5. FlagsOfDecided'
  <2>1. \A k \in DOMAIN store :
          k = clients[c].nonce => store[k].decided # Undecided
    BY <1>2 DEF ClaimInv, ClaimHeld, FlagsOfDecided
  <2> QED BY <2>1 DEF ClaimInv, FlagsOfDecided
<1>6. PublishedWasHeard'
  <2>1. ASSUME NEW k \in DOMAIN store, store'[k].published, ~ store[k].published
        PROVE  Heard(store[k].token, store[k].decided)
    <3>1. k = clients[c].nonce /\ clients[c].pc = "acked"
      BY <2>1
    <3>2. Heard(clients[c].token, clients[c].decision)
      BY <3>1 DEF VerdictInv, ClientInv
    <3>3. VerdictOn(clients[c].token, clients[c].decision)
      BY ClaimedVerdict
    <3>4. /\ store[k].token = clients[c].token
          /\ store[k].decided # Undecided
      BY <1>2, <3>1 DEF ClaimInv, ClaimHeld, FlagsOfDecided
    <3>5. VerdictOn(store[k].token, store[k].decided)
      BY <3>4 DEF VerdictInv, StoreInv, OneVerdict
    <3>6. store[k].decided = clients[c].decision
      <4>1. \A v, w \in verdicts : v.token = w.token => v = w
        BY DEF VerdictInv, StoreInv, OneVerdict
      <4> QED BY <3>3, <3>4, <3>5, <4>1 DEF VerdictOn
    <3> QED BY <3>2, <3>4, <3>6
  <2> QED BY <2>1 DEF ClaimInv, PublishedWasHeard, Heard
<1>7. AckedSettled'
  <2>1. ASSUME NEW k \in DOMAIN store, store[k].token \in acked,
               ~ store'[k].published
        PROVE  \E b \in Clients : /\ clients'[b].pc = "acked"
                                  /\ clients'[b].token = store[k].token
    <3>1. PICK b \in Clients : /\ clients[b].pc = "acked"
                               /\ clients[b].token = store[k].token
      BY <2>1 DEF ClaimInv, AckedSettled
    <3>2. b # c
      BY <1>2, <2>1, <3>1
    <3> QED BY <3>1, <3>2
  <2> QED BY <2>1 DEF AckedSettled
<1>8. AckedOnce' /\ AckedDecided'
  BY <1>1 DEF ClaimInv, AckedOnce, AckedDecided
<1> QED BY <1>3, <1>4, <1>5, <1>6, <1>7, <1>8 DEF ClaimInv

LEMMA AcknowledgedKeepsClaims ==
  ASSUME VerdictInv, ClaimInv, NEW c \in Clients, PublishSucceeds(c)
  PROVE  ClaimInv'
<1>1. /\ \A b \in Clients : b # c => clients'[b] = clients[b]
      /\ clients'[c].pc = "acked"
      /\ clients'[c].token = clients[c].token
      /\ clients'[c].nonce = clients[c].nonce
  BY DEF PublishSucceeds, VerdictInv, TypeInv, TypeOK, ClientState
<1>2. /\ UNCHANGED <<store, topic, registrations, verdicts>>
      /\ acked' = acked \cup {clients[c].token}
      /\ clients[c].pc = "publishing"
  BY DEF PublishSucceeds
<1>3. InFlight(c) /\ \A b \in Clients : InFlight(b)' <=> InFlight(b)
  BY <1>1, <1>2 DEF InFlight, InFlightPcs
<1>4. OneRegistration' /\ ClaimRegistered' /\ ClaimHeld'
  BY <1>1, <1>2, <1>3
     DEF ClaimInv, OneRegistration, ClaimRegistered, ClaimHeld
<1>5. FlagsOfDecided' /\ PublishedWasHeard'
  BY <1>2 DEF ClaimInv, FlagsOfDecided, PublishedWasHeard, Heard
<1>6. AckedSettled'
  BY <1>1, <1>2 DEF ClaimInv, AckedSettled
<1>7. AckedOnce'
  BY <1>1, <1>2, <1>3 DEF ClaimInv, AckedOnce, ClaimHeld
<1>8. AckedDecided'
  BY <1>2, <1>3, ClaimedVerdict DEF ClaimInv, AckedDecided, VerdictOn
<1> QED BY <1>4, <1>5, <1>6, <1>7, <1>8 DEF ClaimInv

LEMMA HandlerKeepsClaims ==
  ASSUME VerdictInv, ClaimInv, NEW c \in Clients, HandlerStep(c)
  PROVE  ClaimInv'
<1>1. TypeOK /\ IsStore(store) /\ clients[c] \in ClientState
  BY DEF VerdictInv, TypeInv, TypeOK
<1>2. CASE ReadDetail(c)
  <2>1. /\ \A b \in Clients : b # c => clients'[b] = clients[b]
        /\ clients'[c].pc = "publishing"
        /\ clients'[c].token = clients[c].token
        /\ clients'[c].nonce = clients[c].nonce
    BY <1>1, <1>2 DEF ReadDetail, TypeOK, ClientState
  <2>2. ClaimsKept
    BY <1>2, <2>1 DEF ReadDetail, ClaimsKept, InFlight, InFlightPcs
  <2> QED BY <2>2, KeptClaims
<1>3. CASE PublishSucceeds(c)
  BY <1>3, AcknowledgedKeepsClaims
<1>4. CASE PublishFails(c)
  <2>1. /\ \A b \in Clients : b # c => clients'[b] = clients[b]
        /\ clients'[c].pc = "errored"
        /\ clients'[c].token = clients[c].token
        /\ clients'[c].nonce = clients[c].nonce
    BY <1>1, <1>4 DEF PublishFails, TypeOK, ClientState
  <2>2. ClaimsKept
    BY <1>4, <2>1 DEF PublishFails, ClaimsKept, InFlight, InFlightPcs
  <2> QED BY <2>2, KeptClaims
<1>5. CASE Marks(c)
  <2> DEFINE s2 == MarkPublished(store, clients[c].nonce)
  <2>1. InFlight(c) /\ clients[c].pc = "acked"
    BY <1>5 DEF Marks, InFlight, InFlightPcs
  <2>2. /\ clients'[c].pc = "sent"
        /\ \A b \in Clients : b # c => clients'[b] = clients[b]
    BY <1>1, <1>5 DEF Marks, Show, Idle, TypeOK
  <2>3. /\ DOMAIN s2 = DOMAIN store
        /\ \A k \in DOMAIN store :
             /\ s2[k].token = store[k].token
             /\ s2[k].decided = store[k].decided
             /\ k # clients[c].nonce => s2[k] = store[k]
             /\ k = clients[c].nonce => s2[k].published /\ ~ s2[k].publishing
    BY <1>1, MarkPublishedFacts
  <2>4. store' = s2 /\ UNCHANGED <<topic, registrations, verdicts, acked>>
    BY <1>5 DEF Marks
  <2>5. "sent" \in Pages
    BY DEF Pages
  <2> HIDE DEF s2
  <2> QED BY <2>1, <2>2, <2>3, <2>4, <2>5, ClaimReturned
<1>6. CASE Releases(c)
  <2> DEFINE s2 == ReleasePublish(store, clients[c].nonce)
  <2>1. InFlight(c) /\ clients[c].pc = "errored"
    BY <1>6 DEF Releases, InFlight, InFlightPcs
  <2>2. /\ clients'[c].pc = "couldNotNotify"
        /\ \A b \in Clients : b # c => clients'[b] = clients[b]
    BY <1>1, <1>6 DEF Releases, Show, Idle, TypeOK
  <2>3. /\ DOMAIN s2 = DOMAIN store
        /\ \A k \in DOMAIN store :
             /\ s2[k].token = store[k].token
             /\ s2[k].decided = store[k].decided
             /\ s2[k].published = store[k].published
             /\ k # clients[c].nonce => s2[k] = store[k]
             /\ k = clients[c].nonce => ~ s2[k].publishing
    BY <1>1, ReleasePublishFacts
  <2>4. store' = s2 /\ UNCHANGED <<topic, registrations, verdicts, acked>>
    BY <1>6 DEF Releases
  <2>5. "couldNotNotify" \in Pages
    BY DEF Pages
  <2> HIDE DEF s2
  <2> QED BY <2>1, <2>2, <2>3, <2>4, <2>5, ClaimReturned
<1> QED BY <1>2, <1>3, <1>4, <1>5, <1>6 DEF HandlerStep

LEMMA TapConfirmKeepsClaims ==
  ASSUME VerdictInv, ClaimInv,
         NEW c \in Clients, NEW n \in Nonces, NEW tok \in Tokens,
         TapConfirm(c, n, tok)
  PROVE  ClaimInv'
<1>1. ~ InFlight(c) /\ UNCHANGED <<store, topic, registrations, verdicts, acked>>
  BY DEF TapConfirm
<1>2. PICK pc \in Pages, m \in Nonces \cup {None}, t \in Tokens \cup {None},
           d \in Decisions \cup {Undecided} : Show(c, pc, m, t, d)
  <2>1. CASE ConfirmUnknown(c, n, tok)
    BY <2>1 DEF ConfirmUnknown, Pages
  <2>2. CASE ConfirmExpired(c, n, tok)
    BY <2>2 DEF ConfirmExpired, Pages
  <2>3. CASE ConfirmDecided(c, n, tok)
    BY <2>3 DEF ConfirmDecided, Pages, Valid, VerdictInv, TypeInv, TypeOK,
                IsStore, Request
  <2>4. CASE ConfirmForm(c, n, tok)
    BY <2>4 DEF ConfirmForm, Pages
  <2> QED BY <2>1, <2>2, <2>3, <2>4 DEF TapConfirm
<1> QED BY <1>1, <1>2, PageKeepsClaims

LEMMA CrashKeepsClaims ==
  ASSUME VerdictInv, ClaimInv, Crash
  PROVE  ClaimInv'
<1>1. /\ DOMAIN store' = {}
      /\ UNCHANGED <<registrations, verdicts, acked>>
  BY DEF Crash, EmptyStore
<1>2. \A c \in Clients : ~ InFlight(c)'
  BY DEF Crash, InFlight, Idle, InFlightPcs
<1> QED BY <1>1, <1>2
        DEF ClaimInv, OneRegistration, ClaimRegistered, ClaimHeld,
            FlagsOfDecided, PublishedWasHeard, AckedSettled, AckedOnce,
            AckedDecided

LEMMA ClaimStep ==
  ASSUME FreshNonces, VerdictInv, ClaimInv, [Next]_vars
  PROVE  ClaimInv'
<1>0. TypeOK /\ IsStore(store)
  BY DEF VerdictInv, TypeInv, TypeOK
<1>1. ASSUME NEW n \in Nonces, NEW tok \in Tokens, NEW det \in Details,
             Register(n, tok, det)
      PROVE  ClaimInv'
  BY <1>1, RegisterKeepsClaims
<1>2. ASSUME NEW n \in Nonces, RegisterDuplicate(n)
      PROVE  ClaimInv'
  <2>1. ClaimsKept
    BY <1>2 DEF RegisterDuplicate, ClaimsKept, InFlight
  <2> QED BY <2>1, KeptClaims
<1>3. ASSUME NEW c \in Clients, NEW n \in Nonces, NEW tok \in Tokens,
             TapConfirm(c, n, tok)
      PROVE  ClaimInv'
  BY <1>3, TapConfirmKeepsClaims
<1>4. ASSUME NEW c \in Clients, NEW n \in Nonces, NEW tok \in Tokens,
             NEW d \in Decisions, Tap(c, n, tok, d)
      PROVE  ClaimInv'
  BY <1>4, TapKeepsClaims
<1>5. ASSUME NEW c \in Clients, HandlerStep(c)
      PROVE  ClaimInv'
  BY <1>5, HandlerKeepsClaims
<1>6. ASSUME NEW c \in Clients, NtfyAccepts(c)
      PROVE  ClaimInv'
  <2>1. \A b \in Clients : /\ clients'[b].pc = clients[b].pc
                           /\ clients'[b].token = clients[b].token
                           /\ clients'[b].nonce = clients[b].nonce
    BY <1>0, <1>6 DEF NtfyAccepts, TypeOK, ClientState
  <2>2. ClaimsKept
    BY <1>6, <2>1 DEF NtfyAccepts, ClaimsKept, InFlight
  <2> QED BY <2>2, KeptClaims
<1>7. CASE LateArrival
  <2>1. ClaimsKept
    BY <1>7 DEF LateArrival, ClaimsKept, InFlight
  <2> QED BY <2>1, KeptClaims
<1>8. CASE Reap
  <2>1. /\ DOMAIN Reaped(store) \subseteq DOMAIN store
        /\ \A k \in DOMAIN Reaped(store) : Reaped(store)[k] = store[k]
    BY <1>0, ReapedFacts
  <2>2. ClaimsKept
    BY <1>8, <2>1 DEF Reap, ClaimsKept, InFlight
  <2> QED BY <2>2, KeptClaims
<1>9. CASE Tick
  <2>1. \A b \in Clients : /\ clients'[b].pc = clients[b].pc
                           /\ clients'[b].token = clients[b].token
                           /\ clients'[b].nonce = clients[b].nonce
    BY <1>0, <1>9 DEF Tick, TypeOK, ClientState
  <2>2. /\ DOMAIN Aged(store) = DOMAIN store
        /\ \A k \in DOMAIN store :
             /\ Aged(store)[k].token = store[k].token
             /\ Aged(store)[k].decided = store[k].decided
             /\ Aged(store)[k].publishing = store[k].publishing
             /\ Aged(store)[k].published = store[k].published
    BY <1>0, AgedFacts
  <2>3. ClaimsKept
    BY <1>9, <2>1, <2>2 DEF Tick, ClaimsKept, InFlight
  <2> QED BY <2>3, KeptClaims
<1>10. CASE Crash
  BY <1>10, CrashKeepsClaims
<1>11. CASE UNCHANGED vars
  <2>1. ClaimsKept
    BY <1>11 DEF vars, ClaimsKept, InFlight
  <2> QED BY <2>1, KeptClaims
<1> QED BY <1>1, <1>2, <1>3, <1>4, <1>5, <1>6, <1>7, <1>8, <1>9, <1>10, <1>11
        DEF Next

LEMMA ClaimInvInvariant == ASSUME FreshNonces PROVE Spec => []ClaimInv
<1>1. Init => ClaimInv
  BY DEF Init, EmptyStore, Idle, InFlight, InFlightPcs,
         ClaimInv, OneRegistration, ClaimRegistered, ClaimHeld,
         FlagsOfDecided, PublishedWasHeard, AckedSettled, AckedOnce,
         AckedDecided
<1>2. VerdictInv /\ ClaimInv /\ [Next]_vars => ClaimInv'
  BY ClaimStep
<1> QED BY <1>1, <1>2, VerdictInvInvariant, PTL DEF Spec

\* With fresh nonces the publishing flag is a lock one goroutine holds: it is
\* set exactly while an attempt is under way, and two never run at once.
THEOREM ClaimHeldHolds == ASSUME FreshNonces PROVE Spec => []ClaimHeld
<1>1. ClaimInv => ClaimHeld
  BY DEF ClaimInv
<1> QED BY <1>1, ClaimInvInvariant, PTL

\* With fresh nonces a record is marked published only if the machine could
\* hear its decision, so a tap turned away owes nothing.
THEOREM PublishedWasHeardHolds ==
  ASSUME FreshNonces PROVE Spec => []PublishedWasHeard
<1>1. ClaimInv => PublishedWasHeard
  BY DEF ClaimInv
<1> QED BY <1>1, ClaimInvInvariant, PTL

\* With fresh nonces an acknowledged decision is never published again.
THEOREM AckedOnceHolds == ASSUME FreshNonces PROVE Spec => []AckedOnce
<1>1. ClaimInv => AckedOnce
  BY DEF ClaimInv
<1> QED BY <1>1, ClaimInvInvariant, PTL

=============================================================================
