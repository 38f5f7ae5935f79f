---------------------------- MODULE StoreProofs ----------------------------
(***************************************************************************)
(* What the operations of ApprovalStore return and preserve: facts cited   *)
(* in the proofs about one process and about a rollout.                    *)
(***************************************************************************)
EXTENDS ApprovalStore, TLAPS

\* register and decide write a whole record: the map stays a map of records.
LEMMA PutFacts ==
  ASSUME NEW s, IsStore(s), NEW n \in Nonces, NEW r \in Request
  PROVE  /\ IsStore(Put(s, n, r))
         /\ DOMAIN Put(s, n, r) = DOMAIN s \cup {n}
         /\ Put(s, n, r)[n] = r
         /\ \A k \in DOMAIN s : k # n => Put(s, n, r)[k] = s[k]
BY DEF IsStore, Put

\* The record a decision leaves behind.
LEMMA SettledFacts ==
  ASSUME NEW r \in Request, NEW d \in Decisions
  PROVE  /\ Settled(r, d) \in Request
         /\ Settled(r, d).token = r.token
         /\ Settled(r, d).decided = d
         /\ Settled(r, d).age = r.age
         /\ Settled(r, d).publishing
         /\ Settled(r, d).published = r.published
         /\ Settled(r, d).detail = r.detail
<1>1. 0 \in 0 .. RetainAfterDecision + 1
  BY StoreAssumption
<1>2. d \in Decisions \cup {Undecided}
  OBVIOUS
<1> QED BY <1>1, <1>2 DEF Settled, Request

\* The record a retried publish leaves behind.
LEMMA ClaimedFacts ==
  ASSUME NEW r \in Request
  PROVE  /\ Claimed(r) \in Request
         /\ Claimed(r).token = r.token
         /\ Claimed(r).decided = r.decided
         /\ Claimed(r).age = r.age
         /\ Claimed(r).publishing
         /\ Claimed(r).published = r.published
         /\ Claimed(r).detail = r.detail
BY DEF Claimed, Request

\* A new registration is a record.
LEMMA NewRequestFacts ==
  ASSUME NEW tok \in Tokens, NEW det \in Details
  PROVE  NewRequest(tok, det) \in Request
BY StoreAssumption DEF NewRequest, Request, Undecided

\* markPublished touches the two flags of one record and nothing else.
LEMMA MarkPublishedFacts ==
  ASSUME NEW s, IsStore(s), NEW n
  PROVE  /\ IsStore(MarkPublished(s, n))
         /\ DOMAIN MarkPublished(s, n) = DOMAIN s
         /\ \A k \in DOMAIN s :
              /\ MarkPublished(s, n)[k].token = s[k].token
              /\ MarkPublished(s, n)[k].decided = s[k].decided
              /\ MarkPublished(s, n)[k].age = s[k].age
              /\ MarkPublished(s, n)[k].detail = s[k].detail
              /\ k # n => MarkPublished(s, n)[k] = s[k]
              /\ k = n => /\ MarkPublished(s, n)[k].published
                          /\ ~ MarkPublished(s, n)[k].publishing
BY DEF IsStore, MarkPublished, Request

\* releasePublish touches one flag of one record and nothing else.
LEMMA ReleasePublishFacts ==
  ASSUME NEW s, IsStore(s), NEW n
  PROVE  /\ IsStore(ReleasePublish(s, n))
         /\ DOMAIN ReleasePublish(s, n) = DOMAIN s
         /\ \A k \in DOMAIN s :
              /\ ReleasePublish(s, n)[k].token = s[k].token
              /\ ReleasePublish(s, n)[k].decided = s[k].decided
              /\ ReleasePublish(s, n)[k].age = s[k].age
              /\ ReleasePublish(s, n)[k].detail = s[k].detail
              /\ ReleasePublish(s, n)[k].published = s[k].published
              /\ k # n => ReleasePublish(s, n)[k] = s[k]
              /\ k = n => ~ ReleasePublish(s, n)[k].publishing
BY DEF IsStore, ReleasePublish, Request

\* The reaper keeps what it keeps unchanged.
LEMMA ReapedFacts ==
  ASSUME NEW s, IsStore(s)
  PROVE  /\ IsStore(Reaped(s))
         /\ DOMAIN Reaped(s) \subseteq DOMAIN s
         /\ \A k \in DOMAIN Reaped(s) : Reaped(s)[k] = s[k]
BY DEF IsStore, Reaped

\* A counter that stops one past its bound stays within it and never falls.
LEMMA LaterFacts ==
  ASSUME NEW b \in Nat, NEW t \in 0 .. b + 1
  PROVE  /\ Later(t, b) \in 0 .. b + 1
         /\ t > b => Later(t, b) = t
BY DEF Later

\* Time changes the two ages and nothing else, and no age ever falls back.
LEMMA AgedFacts ==
  ASSUME NEW s, IsStore(s)
  PROVE  /\ IsStore(Aged(s))
         /\ DOMAIN Aged(s) = DOMAIN s
         /\ \A k \in DOMAIN s :
              /\ Aged(s)[k].token = s[k].token
              /\ Aged(s)[k].decided = s[k].decided
              /\ Aged(s)[k].publishing = s[k].publishing
              /\ Aged(s)[k].published = s[k].published
              /\ Aged(s)[k].detail = s[k].detail
              /\ s[k].age > RequestTTL => Aged(s)[k].age = s[k].age
<1>1. ASSUME NEW r \in Request
      PROVE  /\ Older(r) \in Request
             /\ Older(r).token = r.token
             /\ Older(r).decided = r.decided
             /\ Older(r).publishing = r.publishing
             /\ Older(r).published = r.published
             /\ Older(r).detail = r.detail
             /\ r.age > RequestTTL => Older(r).age = r.age
  <2>1. /\ Later(r.age, RequestTTL) \in 0 .. RequestTTL + 1
        /\ r.age > RequestTTL => Later(r.age, RequestTTL) = r.age
    BY LaterFacts, StoreAssumption DEF Request
  <2>2. Later(r.decidedAge, RetainAfterDecision)
          \in 0 .. RetainAfterDecision + 1
    BY LaterFacts, StoreAssumption DEF Request
  <2> QED BY <2>1, <2>2 DEF Older, Request
<1> QED BY <1>1 DEF IsStore, Aged

\* An empty map is a store.
LEMMA EmptyStoreFacts ==
  IsStore(EmptyStore) /\ DOMAIN EmptyStore = {}
BY DEF IsStore, EmptyStore
=============================================================================
