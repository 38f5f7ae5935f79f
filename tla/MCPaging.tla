------------------------------ MODULE MCPaging ------------------------------
(***************************************************************************)
(* Small instances of Paging for TLC; the .cfg files give the constants.   *)
(***************************************************************************)
EXTENDS Paging
=============================================================================
