------------------------------- MODULE Transfer -------------------------------
(***************************************************************************)
(* What the firmware promises of a transfer, without its endpoints: one at *)
(* a time, in chunks of a packet and a shorter rest, each of its bytes     *)
(* accessed once, ended by its last byte or by a reset, and left alone     *)
(* from the moment the reset is asked for.                                 *)
(***************************************************************************)
EXTENDS Naturals

CONSTANT EPSize

VARIABLES
    state,      \* "IDLE", "READ" or "WRITE"
    length,     \* of the transfer that runs, 0 when none does
    done,       \* bytes of it that were accessed
    resetting   \* a reset is due

vars == <<state, length, done, resetting>>

\* The firmware starts with a reset.
Init == state = "IDLE" /\ length = 0 /\ done = 0 /\ resetting = TRUE

Over == state' = "IDLE" /\ length' = 0 /\ done' = 0

Start ==
    /\ state = "IDLE" /\ ~resetting
    /\ state' \in {"READ", "WRITE"}
    /\ length' \in Nat \ {0} /\ done' = 0
    /\ UNCHANGED resetting

\* A chunk that is not the last ...
FullChunk ==
    /\ state # "IDLE" /\ ~resetting
    /\ done' = done + EPSize /\ done' < length
    /\ UNCHANGED <<state, length, resetting>>

\* ... and the one with which the transfer ends.
LastChunk ==
    /\ state # "IDLE" /\ ~resetting
    /\ length - done \in 1 .. EPSize
    /\ Over
    /\ UNCHANGED resetting

AskReset ==
    /\ ~resetting /\ resetting' = TRUE
    /\ UNCHANGED <<state, length, done>>

Reset ==
    /\ resetting
    /\ Over
    /\ UNCHANGED resetting

ResetDone ==
    /\ resetting /\ resetting' = FALSE
    /\ state = "IDLE"
    /\ UNCHANGED <<state, length, done>>

Next == Start \/ FullChunk \/ LastChunk \/ AskReset \/ Reset \/ ResetDone

Spec == Init /\ [][Next]_vars
=============================================================================
