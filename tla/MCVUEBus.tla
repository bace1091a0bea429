------------------------------ MODULE MCVUEBus ------------------------------
(***************************************************************************)
(* Small instances of VUEBus for TLC.  Two words per load of the upper     *)
(* latch and two values of A15-A22 give every address function a word at   *)
(* which it loads both latches, one at which it loads the lower one, a     *)
(* carry into A15 and the wrap of the 23 bit address; a buffer of two      *)
(* bytes gives chunks that are full, short and of odd length.              *)
(***************************************************************************)
EXTENDS VUEBus

\* Every transfer but the 8 bit write to the upper lane.
MCTransfers == (Ops \X Modes) \ {<<"write", "8BIT_HI">>}

\* The 8 bit write to the upper lane on its own.
MCUpperWrite == {<<"write", "8BIT_HI">>}

\* One loop of each step and operation.
MCReturningTransfers == {<<"read", "16BIT">>, <<"write", "8BIT_LO">>}

\* The header is in the last load of the upper latch, as in the cartridge.
MCHeader == [hi |-> HiSize - 1, lo |-> 0]
=============================================================================
