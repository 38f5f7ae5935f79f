----------------------------- MODULE MCRollout -----------------------------
(***************************************************************************)
(* Small instances of Rollout for TLC.                                     *)
(***************************************************************************)
EXTENDS Rollout, TLC

Symmetry == Permutations(Pods) \cup Permutations(Callers) \cup Permutations(Tokens)
=============================================================================
