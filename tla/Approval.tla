------------------------------ MODULE Approval ------------------------------
(***************************************************************************)
(* One approvald process: the waiting machine registers nonces, clients    *)
(* open and submit tap links, handler goroutines publish decisions to the  *)
(* ntfy response topic, the reaper drops records, time passes, and the     *)
(* process may die and come back with an empty store (approval.go,         *)
(* server.go).                                                             *)
(*                                                                         *)
(* Every critical section of the store's mutex is one action.  A POST that *)
(* owes a publish is a chain of actions of its own goroutine, so taps, the *)
(* reaper and new registrations interleave with it.                        *)
(***************************************************************************)
EXTENDS ApprovalStore, FiniteSets

CONSTANTS
  Clients,          \* whatever sends GET and POST: phones, previews, scripts
  None,             \* no nonce, no token
  PublishTimeout,   \* ticks an attempt can last: the publish deadline
  FreshNonces       \* TRUE: the machine never registers a nonce twice

ASSUME ApprovalAssumption ==
  /\ None \notin Nonces \cup Tokens
  /\ PublishTimeout \in Nat
  /\ FreshNonces \in BOOLEAN

VARIABLES
  store,          \* the server's map, nonce -> record
  clients,        \* each client's page, or its POST in the server
  topic,          \* messages ntfy accepted: what the machine can hear
  limbo,          \* messages sent by attempts that failed, not yet accepted
  reply,          \* the last answer to POST /register, per nonce
  registrations,  \* history: every registration the server accepted
  verdicts,       \* history: every decision a tap recorded, per token
  acked           \* history: tokens whose publish ntfy acknowledged

vars == <<store, clients, topic, limbo, reply, registrations, verdicts, acked>>

(***************************************************************************)
(* A client's pc is the page it shows, or the point its POST has reached.  *)
(***************************************************************************)
InFlightPcs == {"claimed", "publishing", "acked", "errored"}
Pages == { "idle", "form", "wasDecided", "alreadyDecided", "sent",
           "couldNotNotify", "expired", "notFound" }

Idle ==
  [ pc |-> "idle", nonce |-> None, token |-> None, decision |-> Undecided,
    detail |-> NoDetail, age |-> 0, delivered |-> FALSE ]

ClientState ==
  [ pc        : InFlightPcs \cup Pages,
    nonce     : Nonces \cup {None},
    token     : Tokens \cup {None},
    decision  : Decisions \cup {Undecided},
    detail    : Details,
    age       : 0 .. PublishTimeout,
    delivered : BOOLEAN ]

Registration == [token : Tokens, nonce : Nonces, detail : Details]
Verdict == [token : Tokens, decision : Decisions]
Message ==
  [token : Tokens, nonce : Nonces, decision : Decisions, detail : Details]

InFlight(c) == clients[c].pc \in InFlightPcs

\* What an attempt writes to the topic.  The token is the registration the
\* attempt was claimed for; it is not on the wire.
MessageOf(c) ==
  [ token    |-> clients[c].token,
    nonce    |-> clients[c].nonce,
    decision |-> clients[c].decision,
    detail   |-> clients[c].detail ]

MintedTokens == {r.token : r \in registrations}
UsedNonces == {r.nonce : r \in registrations}

Init ==
  /\ store = EmptyStore
  /\ clients = [c \in Clients |-> Idle]
  /\ topic = {}
  /\ limbo = {}
  /\ reply = [n \in Nonces |-> "none"]
  /\ registrations = {}
  /\ verdicts = {}
  /\ acked = {}

-----------------------------------------------------------------------------
(***************************************************************************)
(* POST /register.  randHex(32) never repeats a token.                     *)
(***************************************************************************)
Register(n, tok, det) ==
  /\ n \notin DOMAIN store
  /\ tok \notin MintedTokens
  /\ FreshNonces => n \notin UsedNonces
  /\ store' = Put(store, n, NewRequest(tok, det))
  /\ reply' = [reply EXCEPT ![n] = "created"]
  /\ registrations' =
       registrations \cup {[token |-> tok, nonce |-> n, detail |-> det]}
  /\ UNCHANGED <<clients, topic, limbo, verdicts, acked>>

RegisterDuplicate(n) ==
  /\ n \in DOMAIN store
  /\ reply' = [reply EXCEPT ![n] = "conflict"]
  /\ UNCHANGED <<store, clients, topic, limbo, registrations, verdicts, acked>>

-----------------------------------------------------------------------------
(***************************************************************************)
(* GET /d/{nonce}/{token}/{verb}: peek, then a page.  The store is only    *)
(* read.  Any client that is not waiting for a POST may send any link.     *)
(***************************************************************************)
Show(c, page, n, tok, d) ==
  clients' = [clients EXCEPT ![c] =
    [Idle EXCEPT !.pc = page, !.nonce = n, !.token = tok, !.decision = d]]

ConfirmUnknown(c, n, tok) ==
  /\ ~ Valid(store, n, tok)
  /\ Show(c, "notFound", None, None, Undecided)

ConfirmExpired(c, n, tok) ==
  /\ Valid(store, n, tok)
  /\ store[n].decided = Undecided
  /\ ~ Decidable(store[n])
  /\ Show(c, "expired", n, tok, Undecided)

ConfirmDecided(c, n, tok) ==
  /\ Valid(store, n, tok)
  /\ store[n].decided # Undecided
  /\ Show(c, "wasDecided", n, tok, store[n].decided)

ConfirmForm(c, n, tok) ==
  /\ Valid(store, n, tok)
  /\ Decidable(store[n])
  /\ Show(c, "form", n, tok, Undecided)

TapConfirm(c, n, tok) ==
  /\ ~ InFlight(c)
  /\ \/ ConfirmUnknown(c, n, tok)
     \/ ConfirmExpired(c, n, tok)
     \/ ConfirmDecided(c, n, tok)
     \/ ConfirmForm(c, n, tok)
  /\ UNCHANGED <<store, topic, limbo, reply, registrations, verdicts, acked>>

-----------------------------------------------------------------------------
(***************************************************************************)
(* POST /d/{nonce}/{token}/{verb}: store.decide under the lock.  It either *)
(* answers at once or leaves the goroutine owing a publish.                *)
(***************************************************************************)
Claim(c, n, tok, d) ==
  clients' = [clients EXCEPT ![c] =
    [Idle EXCEPT !.pc = "claimed", !.nonce = n, !.token = tok, !.decision = d]]

TapUnknown(c, n, tok) ==
  /\ ~ Valid(store, n, tok)
  /\ Show(c, "notFound", None, None, Undecided)
  /\ UNCHANGED <<store, verdicts>>

TapExpired(c, n, tok) ==
  /\ Valid(store, n, tok)
  /\ store[n].decided = Undecided
  /\ ~ Decidable(store[n])
  /\ Show(c, "expired", n, tok, Undecided)
  /\ UNCHANGED <<store, verdicts>>

MutantTapDecidesLate(c, n, tok, d) ==
  /\ Valid(store, n, tok)
  /\ store[n].decided = Undecided
  /\ store' = Put(store, n, Settled(store[n], d))
  /\ verdicts' = verdicts \cup {[token |-> tok, decision |-> d]}
  /\ Claim(c, n, tok, d)
\* The first tap in time sets the decision and claims the publish.
TapDecides(c, n, tok, d) ==
  /\ Valid(store, n, tok)
  /\ Decidable(store[n])
  /\ store' = Put(store, n, Settled(store[n], d))
  /\ verdicts' = verdicts \cup {[token |-> tok, decision |-> d]}
  /\ Claim(c, n, tok, d)

\* A later tap takes over a failed publish, with the decision in force.
MutantTapRetriesWithOwnVerb(c, n, tok, d) ==
  /\ Valid(store, n, tok)
  /\ Owes(store[n])
  /\ store' = Put(store, n, Claimed(store[n]))
  /\ Claim(c, n, tok, d)
  /\ UNCHANGED verdicts
TapRetries(c, n, tok, d) ==
  /\ Valid(store, n, tok)
  /\ Owes(store[n])
  /\ store' = Put(store, n, Claimed(store[n]))
  /\ Claim(c, n, tok, store[n].decided)
  /\ UNCHANGED verdicts

MutantReplayNamesOwnVerb(c, n, tok, d) ==
  /\ Valid(store, n, tok)
  /\ store[n].decided # Undecided
  /\ ~ Owes(store[n])
  /\ Show(c, "alreadyDecided", n, tok, d)
  /\ UNCHANGED <<store, verdicts>>
TapReplayed(c, n, tok, d) ==
  /\ Valid(store, n, tok)
  /\ store[n].decided # Undecided
  /\ ~ Owes(store[n])
  /\ Show(c, "alreadyDecided", n, tok, store[n].decided)
  /\ UNCHANGED <<store, verdicts>>

Tap(c, n, tok, d) ==
  /\ ~ InFlight(c)
  /\ \/ TapUnknown(c, n, tok)
     \/ TapExpired(c, n, tok)
     \/ TapDecides(c, n, tok, d)
     \/ TapRetries(c, n, tok, d)
     \/ TapReplayed(c, n, tok, d)
  /\ UNCHANGED <<topic, limbo, reply, registrations, acked>>

-----------------------------------------------------------------------------
(***************************************************************************)
(* The rest of server.decide for a claimed publish: detailFor, the POST to *)
(* ntfy, then markPublished or releasePublish, each on its own.            *)
(***************************************************************************)
ReadDetail(c) ==
  /\ clients[c].pc = "claimed"
  /\ clients' = [clients EXCEPT
       ![c].pc = "publishing",
       ![c].detail = DetailFor(store, clients[c].nonce)]
  /\ UNCHANGED <<store, topic, limbo, reply, registrations, verdicts, acked>>

\* ntfy accepts the message; its answer is still on the way.
NtfyAccepts(c) ==
  /\ clients[c].pc = "publishing"
  /\ ~ clients[c].delivered
  /\ topic' = topic \cup {MessageOf(c)}
  /\ clients' = [clients EXCEPT ![c].delivered = TRUE]
  /\ UNCHANGED <<store, limbo, reply, registrations, verdicts, acked>>

PublishSucceeds(c) ==
  /\ clients[c].pc = "publishing"
  /\ clients[c].delivered
  /\ clients' = [clients EXCEPT ![c].pc = "acked"]
  /\ acked' = acked \cup {clients[c].token}
  /\ UNCHANGED <<store, topic, limbo, reply, registrations, verdicts>>

MutantPublishWithoutDeadline(c) ==
  /\ clients[c].pc = "publishing"
  /\ clients[c].delivered
  /\ clients' = [clients EXCEPT ![c].pc = "errored"]
  /\ UNCHANGED <<store, topic, limbo, reply, registrations, verdicts, acked>>
\* Refused, unreachable or timed out: the message may have been accepted
\* already, may be lost, or may still reach ntfy after the server gave up.
PublishFails(c) ==
  /\ clients[c].pc = "publishing"
  /\ clients' = [clients EXCEPT ![c].pc = "errored"]
  /\ \/ UNCHANGED limbo
     \/ ~ clients[c].delivered /\ limbo' = limbo \cup {MessageOf(c)}
  /\ UNCHANGED <<store, topic, reply, registrations, verdicts, acked>>

Marks(c) ==
  /\ clients[c].pc = "acked"
  /\ store' = MarkPublished(store, clients[c].nonce)
  /\ Show(c, "sent", clients[c].nonce, clients[c].token, clients[c].decision)
  /\ UNCHANGED <<topic, limbo, reply, registrations, verdicts, acked>>

MutantReleasesSaysSent(c) ==
  /\ clients[c].pc = "errored"
  /\ store' = ReleasePublish(store, clients[c].nonce)
  /\ Show(c, "sent", clients[c].nonce, clients[c].token, clients[c].decision)
  /\ UNCHANGED <<topic, limbo, reply, registrations, verdicts, acked>>
Releases(c) ==
  /\ clients[c].pc = "errored"
  /\ store' = ReleasePublish(store, clients[c].nonce)
  /\ Show(c, "couldNotNotify",
          clients[c].nonce, clients[c].token, clients[c].decision)
  /\ UNCHANGED <<topic, limbo, reply, registrations, verdicts, acked>>

HandlerStep(c) ==
  \/ ReadDetail(c)
  \/ PublishSucceeds(c)
  \/ PublishFails(c)
  \/ Marks(c)
  \/ Releases(c)

-----------------------------------------------------------------------------
(***************************************************************************)
(* The world around the handlers.                                          *)
(***************************************************************************)
LateArrival ==
  /\ \E m \in limbo :
       /\ limbo' = limbo \ {m}
       /\ topic' = topic \cup {m}
  /\ UNCHANGED <<store, clients, reply, registrations, verdicts, acked>>

Reap ==
  /\ \E n \in DOMAIN store : Collectable(store[n])
  /\ store' = Reaped(store)
  /\ UNCHANGED <<clients, topic, limbo, reply, registrations, verdicts, acked>>

\* An attempt is over when its deadline passes, so time waits for it; the
\* steps of a handler outside the HTTP call take no time worth a tick.
Tick ==
  /\ \A c \in Clients : InFlight(c) => clients[c].age < PublishTimeout
  /\ store' = Aged(store)
  /\ clients' = [c \in Clients |->
       IF InFlight(c) THEN [clients[c] EXCEPT !.age = @ + 1] ELSE clients[c]]
  /\ UNCHANGED <<topic, limbo, reply, registrations, verdicts, acked>>

\* The process dies and restarts: the map and the goroutines are gone, and
\* requests already written to ntfy may still arrive.
Crash ==
  /\ store' = EmptyStore
  /\ clients' = [c \in Clients |-> IF InFlight(c) THEN Idle ELSE clients[c]]
  /\ \E S \in SUBSET {c \in Clients : clients[c].pc = "publishing"
                                      /\ ~ clients[c].delivered} :
       limbo' = limbo \cup {MessageOf(c) : c \in S}
  /\ UNCHANGED <<topic, reply, registrations, verdicts, acked>>

Next ==
  \/ \E n \in Nonces, tok \in Tokens, det \in Details : Register(n, tok, det)
  \/ \E n \in Nonces : RegisterDuplicate(n)
  \/ \E c \in Clients, n \in Nonces, tok \in Tokens : TapConfirm(c, n, tok)
  \/ \E c \in Clients, n \in Nonces, tok \in Tokens, d \in Decisions :
       Tap(c, n, tok, d)
  \/ \E c \in Clients : HandlerStep(c)
  \/ \E c \in Clients : NtfyAccepts(c)
  \/ LateArrival
  \/ Reap
  \/ Tick
  \/ Crash

Spec == Init /\ [][Next]_vars

-----------------------------------------------------------------------------
(***************************************************************************)
(* Fairness: the clock runs, the reaper's ticker fires, and the scheduler  *)
(* runs every handler goroutine; the HTTP client's deadline ends a publish *)
(* that ntfy never answers.  Nothing is assumed of ntfy or of people.      *)
(***************************************************************************)
Fairness ==
  /\ WF_vars(Tick)
  /\ WF_vars(Reap)
  /\ \A c \in Clients : WF_vars(HandlerStep(c))

FairSpec == Spec /\ Fairness

-----------------------------------------------------------------------------
TypeOK ==
  /\ IsStore(store)
  /\ clients \in [Clients -> ClientState]
  /\ topic \subseteq Message
  /\ limbo \subseteq Message
  /\ reply \in [Nonces -> {"none", "created", "conflict"}]
  /\ registrations \subseteq Registration
  /\ verdicts \subseteq Verdict
  /\ acked \subseteq Tokens

VerdictOn(tok, d) == [token |-> tok, decision |-> d] \in verdicts
Heard(tok, d) == \E m \in topic : m.token = tok /\ m.decision = d

\* However many taps race, and across crashes, reaping and re-registration,
\* a registration gets at most one decision, and its record keeps that one.
OneVerdict ==
  /\ \A v, w \in verdicts : v.token = w.token => v = w
  /\ \A n \in DOMAIN store :
       store[n].decided # Undecided
         => VerdictOn(store[n].token, store[n].decided)

\* Every copy of a message the machine can ever hear, late and repeated ones
\* included, carries the decision recorded for the registration it answers.
HeardIsVerdict ==
  \A m \in topic \cup limbo : VerdictOn(m.token, m.decision)

\* Whatever decision a page names, or a goroutine is publishing, is the one in
\* force: two people who tapped different buttons read the same outcome.
ShownIsVerdict ==
  \A c \in Clients :
    clients[c].decision # Undecided
      => VerdictOn(clients[c].token, clients[c].decision)

\* A record says publishing exactly while a goroutine is publishing it: no
\* claim is left behind by a failed attempt, and none is taken twice.
ClaimHeld ==
  /\ \A n \in DOMAIN store :
       store[n].publishing
         <=> \E c \in Clients :
               InFlight(c) /\ clients[c].token = store[n].token
  /\ \A b, c \in Clients :
       InFlight(b) /\ InFlight(c) /\ clients[b].token = clients[c].token
         => b = c

\* A record marked published was heard, so the taps it turns away with
\* "already decided" owe the machine nothing.
PublishedWasHeard ==
  \A n \in DOMAIN store :
    store[n].published => Heard(store[n].token, store[n].decided)

\* Once ntfy has acknowledged a decision no attempt to publish it again is
\* under way or starts: a replayed tap is recognised, not re-published.
AckedOnce ==
  \A c \in Clients :
    InFlight(c) /\ clients[c].pc # "acked" => clients[c].token \notin acked

\* A person told that the request expired can rely on it: no other tap, early
\* or late, has decided or will decide it.
ExpiredIsFinal ==
  \A c \in Clients :
    clients[c].pc = "expired"
      => \A v \in verdicts : v.token # clients[c].token

\* The page that says "Sent" is shown only after the machine could hear it.
SentWasHeard ==
  \A c \in Clients :
    clients[c].pc = "sent" => Heard(clients[c].token, clients[c].decision)

\* Every POST is answered, whether or not ntfy ever answers.
Answered == \A c \in Clients : InFlight(c) ~> ~ InFlight(c)

\* Every registration leaves the store, decided or not, published or not, so
\* its nonce can be registered again and the map does not grow without end.
NonceFreed ==
  \A tok \in Tokens :
    (\E n \in DOMAIN store : store[n].token = tok)
      ~> ~ (\E n \in DOMAIN store : store[n].token = tok)

-----------------------------------------------------------------------------
(***************************************************************************)
(* What a page says, and the code does not do.                             *)
(***************************************************************************)
\* "Could not reach the notification service. Tap again to retry.": opening
\* the link of a decision that is owed a publish leads to a retry.
TapAgainRetries ==
  [][\A c \in Clients :
       clients'[c].pc = "wasDecided" /\ clients'[c] # clients[c]
         => ~ Owes(store[clients'[c].nonce])]_vars
=============================================================================
