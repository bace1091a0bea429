----------------------------- MODULE MCBulkPipe -----------------------------
(***************************************************************************)
(* For a careful host that clears both pipes BulkPipe is finite, and TLC   *)
(* explores it completely.                                                 *)
(***************************************************************************)
EXTENDS BulkPipe
=============================================================================
