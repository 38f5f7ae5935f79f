---------------------------- MODULE ApprovalStore ----------------------------
(***************************************************************************)
(* The in-memory request store of approval.go: the record kept for a nonce *)
(* and the operations the service applies to the map under its one mutex.  *)
(*                                                                         *)
(* A store is a partial function from nonces to records, as the Go map is. *)
(* Only differences of times reach a condition in the code, so a record    *)
(* keeps the time elapsed since createdAt and decidedAt (age, decidedAge)  *)
(* in ticks.  Both stop one tick past the longest duration they are        *)
(* compared with: every later value answers each comparison the same way.  *)
(***************************************************************************)
EXTENDS Naturals

CONSTANTS
  Nonces,               \* identifiers the waiting machine chooses
  Tokens,               \* capability tokens randHex may mint
  Details,              \* sanitised detail strings, NoDetail among them
  NoDetail,             \* the empty detail
  RequestTTL,           \* requestTTL, in ticks
  RetainAfterDecision   \* retainAfterDecision, in ticks

ASSUME StoreAssumption ==
  /\ NoDetail \in Details
  /\ RequestTTL \in Nat
  /\ RetainAfterDecision \in Nat

Decisions == {"approve", "deny"}
Undecided == "none"

Request ==
  [ token      : Tokens,
    age        : 0 .. RequestTTL + 1,
    decided    : Decisions \cup {Undecided},
    decidedAge : 0 .. RetainAfterDecision + 1,
    publishing : BOOLEAN,
    published  : BOOLEAN,
    detail     : Details ]

IsStore(s) ==
  /\ DOMAIN s \subseteq Nonces
  /\ s \in [DOMAIN s -> Request]

EmptyStore == [n \in {} |-> NoDetail]

NewRequest(tok, det) ==
  [ token      |-> tok,
    age        |-> 0,
    decided    |-> Undecided,
    decidedAge |-> 0,
    publishing |-> FALSE,
    published  |-> FALSE,
    detail     |-> det ]

(***************************************************************************)
(* What the code asks of a record or of the map.                           *)
(***************************************************************************)
\* A tap may still set a decision.
MutantDecidableTwice(r) == r.age <= RequestTTL
Decidable(r) == r.decided = Undecided /\ r.age <= RequestTTL

\* The record may be dropped by the reaper.
MutantCollectableNeverUndecided(r) ==
  r.decided # Undecided /\ r.decidedAge > RetainAfterDecision
Collectable(r) ==
  \/ r.decided # Undecided /\ r.decidedAge > RetainAfterDecision
  \/ r.decided = Undecided /\ r.age > RequestTTL

\* The nonce is registered and the link's token is the one minted for it.
Valid(s, n, tok) == n \in DOMAIN s /\ s[n].token = tok

\* A decision whose last publish attempt is over and failed.
MutantOwesWhilePublishing(r) == r.decided # Undecided /\ ~ r.published
Owes(r) == r.decided # Undecided /\ ~ r.published /\ ~ r.publishing

(***************************************************************************)
(* What the code does to the map.  The bookkeeping after an attempt finds  *)
(* its record by nonce alone, and does nothing when the nonce is gone.     *)
(***************************************************************************)
Put(s, n, r) == [k \in DOMAIN s \cup {n} |-> IF k = n THEN r ELSE s[k]]

MutantSettledAsPublished(r, d) ==
  [r EXCEPT !.decided = d, !.decidedAge = 0, !.publishing = TRUE,
            !.published = TRUE]
Settled(r, d) ==
  [r EXCEPT !.decided = d, !.decidedAge = 0, !.publishing = TRUE]

Claimed(r) == [r EXCEPT !.publishing = TRUE]

MutantMarkOnlyReleases(s, n) ==
  IF n \in DOMAIN s
  THEN [s EXCEPT ![n] = [@ EXCEPT !.publishing = FALSE]]
  ELSE s
MarkPublished(s, n) ==
  IF n \in DOMAIN s
  THEN [s EXCEPT ![n] = [@ EXCEPT !.published = TRUE, !.publishing = FALSE]]
  ELSE s

MutantReleaseResurrects(s, n) ==
  Put(s, n, IF n \in DOMAIN s
            THEN [s[n] EXCEPT !.publishing = FALSE]
            ELSE [NewRequest("", NoDetail) EXCEPT !.publishing = FALSE])
ReleasePublish(s, n) ==
  IF n \in DOMAIN s
  THEN [s EXCEPT ![n] = [@ EXCEPT !.publishing = FALSE]]
  ELSE s

DetailFor(s, n) == IF n \in DOMAIN s THEN s[n].detail ELSE NoDetail

Reaped(s) == [n \in {k \in DOMAIN s : ~ Collectable(s[k])} |-> s[n]]

(***************************************************************************)
(* The passage of one tick.                                                *)
(***************************************************************************)
Later(t, bound) == IF t > bound THEN t ELSE t + 1

Older(r) ==
  [r EXCEPT !.age = Later(r.age, RequestTTL),
            !.decidedAge = IF r.decided = Undecided
                           THEN r.decidedAge
                           ELSE Later(r.decidedAge, RetainAfterDecision)]

Aged(s) == [n \in DOMAIN s |-> Older(s[n])]

=============================================================================
