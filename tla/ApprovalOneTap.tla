--------------------------- MODULE ApprovalOneTap ---------------------------
(***************************************************************************)
(* Approval implements OneTap, even when nonces are registered again.      *)
(***************************************************************************)
EXTENDS Approval

OpenIn(s, t) ==
  \E n \in DOMAIN s :
    /\ s[n].token = t
    /\ s[n].decided = Undecided
    /\ s[n].age <= RequestTTL

\* A registration that is neither decided nor open is void: too old, reaped or
\* lost with the process that held it.
Phase(t) ==
  IF VerdictOn(t, "approve") THEN "approve"
  ELSE IF VerdictOn(t, "deny") THEN "deny"
  ELSE IF t \notin MintedTokens THEN "unissued"
  ELSE IF OpenIn(store, t) THEN "open" ELSE "void"

Abstract == INSTANCE OneTap WITH
  phase     <- [t \in Tokens |-> Phase(t)],
  heard     <- {[token |-> m.token, decision |-> m.decision] : m \in topic},
  confirmed <- acked

\* Every step of the service is a step of the promise, or changes nothing the
\* promise speaks of: decisions made in time, once, and only those heard.
ImplementsOneTap == Abstract!Spec
=============================================================================
