----------------------------- MODULE CartAccess -----------------------------
(***************************************************************************)
(* What the access functions of vue.c promise their callers: a transfer    *)
(* has one chip, one operation and a position that moves by one word per   *)
(* access and wraps at the end of the 23 bit range; a chunk makes exactly  *)
(* the accesses its length needs, and each of them reaches the chip of the *)
(* transfer at the position of the transfer with the bytes of the buffer.  *)
(* Pins, latches and the two address functions are not visible here.       *)
(***************************************************************************)
EXTENDS Naturals

CONSTANTS
    WordCount,        \* words of the address range: 2^23
    Byte, PullUp,     \* values of a byte, and the one the buffer starts with
    BufSize,          \* bytes of the buffer
    HeaderFirst,      \* first word of the ROM header
    HeaderWords,      \* and how many it has
    Transfers,        \* the <<op, mode>> pairs the host asks for
    HeaderWhileBusy   \* may the header be read during a transfer?

VARIABLES
    chip,             \* the line of the selected chip, "none" between transfers
    ptr,              \* the next word
    kind,             \* <<op, mode>> of the transfer
    buffer,
    todo, done,       \* length of the running chunk, and how far it is
    last              \* the last cycle on the connector

vars == <<chip, ptr, kind, buffer, todo, done, last>>

\* Which lane of the data bus takes which of the next bytes of the buffer.
Lane(mode) == CASE mode = "16BIT"   -> [L |-> 1, H |-> 2]
                [] mode = "8BIT_LO" -> [L |-> 1]
                [] mode = "8BIT_HI" -> [H |-> 1]

Size(mode) == IF mode = "16BIT" THEN 2 ELSE 1

Init ==
    /\ chip = "none" /\ ptr = 0
    /\ kind = <<"read", "16BIT">>
    /\ buffer = [k \in 1 .. BufSize |-> PullUp]
    /\ todo = 0 /\ done = 0
    /\ last = [kind |-> "none"]

\* A transfer starts at a word of a chip.
Open ==
    /\ chip = "none"
    /\ chip' \in {"nROM_CE", "nRAM_CS", "nES"}
    /\ ptr' \in 0 .. WordCount - 1
    /\ kind' \in Transfers
    /\ UNCHANGED <<buffer, todo, done, last>>

\* The caller asks for n bytes to be read, or hands n bytes to write.
Chunk(n) ==
    /\ chip # "none" /\ todo = 0
    /\ todo' = n /\ done' = 0
    /\ IF kind[1] = "read"
       THEN buffer' = buffer
       ELSE \E data \in [1 .. n -> Byte] :
              buffer' = [k \in 1 .. BufSize |-> IF k <= n THEN data[k] ELSE buffer[k]]
    /\ UNCHANGED <<chip, ptr, kind, last>>

\* One access of the transfer: the lanes carry the next bytes of the buffer.
Access ==
    /\ done < todo
    /\ LET lane == Lane(kind[2])
       IN \E data \in [DOMAIN lane -> Byte] :
            /\ kind[1] = "write" =>
                  \A x \in DOMAIN lane : data[x] = buffer[done + lane[x]]
            /\ buffer' = [k \in 1 .. BufSize |->
                            IF \E x \in DOMAIN lane : k = done + lane[x]
                            THEN data[CHOOSE x \in DOMAIN lane : k = done + lane[x]]
                            ELSE buffer[k]]
            /\ last' = [kind |-> kind[1], low |-> {chip, "nSTATUS"},
                        word |-> ptr, data |-> data]
    /\ ptr' = (ptr + 1) % WordCount
    /\ done' = done + Size(kind[2])
    /\ UNCHANGED <<chip, kind, todo>>

Finish ==
    /\ todo > 0 /\ done >= todo
    /\ todo' = 0 /\ done' = 0
    /\ UNCHANGED <<chip, ptr, kind, buffer, last>>

\* The transfer ends, or is aborted.
Close ==
    /\ chip # "none" /\ todo = 0
    /\ chip' = "none" /\ ptr' = 0
    /\ UNCHANGED <<kind, buffer, todo, done, last>>

\* A word of the header is read from the ROM.
HeaderWord ==
    /\ todo = 0
    /\ chip = "none" \/ HeaderWhileBusy
    /\ \E w \in HeaderFirst .. HeaderFirst + HeaderWords - 1, l, h \in Byte :
         last' = [kind |-> "read", low |-> {"nROM_CE"},
                  word |-> w, data |-> [L |-> l, H |-> h]]
    /\ UNCHANGED <<chip, ptr, kind, buffer, todo, done>>

Next ==
    \/ Open \/ Close \/ HeaderWord
    \/ \E n \in 1 .. BufSize : Chunk(n)
    \/ Access \/ Finish

Spec == Init /\ [][Next]_vars
=============================================================================
