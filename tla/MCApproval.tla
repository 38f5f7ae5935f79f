----------------------------- MODULE MCApproval -----------------------------
(***************************************************************************)
(* Small instances of Approval for TLC.                                    *)
(***************************************************************************)
EXTENDS ApprovalOneTap, TLC

\* Clients, tokens and nonces are interchangeable; liveness runs do not use this.
Symmetry == Permutations(Clients) \cup Permutations(Tokens)
            \cup Permutations(Nonces)
=============================================================================
