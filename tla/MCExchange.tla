----------------------------- MODULE MCExchange -----------------------------
(***************************************************************************)
(* Instances of Exchange.  Two attempts let one overtake another.          *)
(***************************************************************************)
EXTENDS Exchange
=============================================================================
