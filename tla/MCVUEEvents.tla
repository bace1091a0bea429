----------------------------- MODULE MCVUEEvents -----------------------------
(***************************************************************************)
(* Small instances of VUEEvents for TLC: commands that fill half a packet, *)
(* as in the program, and transfers of no byte, of less than a packet, of  *)
(* exactly one, and of one and a part of another.                          *)
(***************************************************************************)
EXTENDS VUEEvents
=============================================================================
