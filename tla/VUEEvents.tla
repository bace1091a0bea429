------------------------------ MODULE VUEEvents ------------------------------
(***************************************************************************)
(* The main loop of main.c, the command state machine of VUEEvents.c, the  *)
(* endpoint banks it shares with the USB hardware, and the host behind     *)
(* them.                                                                   *)
(*                                                                         *)
(* Bytes are numbered, not valued: a byte is known by what it belongs to,  *)
(* so a byte that is lost, repeated, left over or taken for something else *)
(* shows.  The program has one thread (USB_USBTask is called from the main *)
(* loop and from inside the streams); the hardware and the host move       *)
(* between any two of its steps.                                           *)
(*                                                                         *)
(* Of enumeration this module has the step that matters here: the device   *)
(* is configured anew while a transfer runs.  While it is suspended, or    *)
(* not configured, VUE_Task returns at once (USBDevice).                   *)
(***************************************************************************)
EXTENDS Naturals, Sequences

CONSTANTS
    EPSize,     \* VUE_CART_READER_EP_SIZE: bytes of a packet, a bank, bulk_buffer
    CmdSize,    \* sizeof(struct vue_command)
    Lens,       \* lengths the host asks for
    Invalid,    \* may the host send an invalid command?
    Splits,     \* may the host split a chunk over several packets?
    Unruly,     \* may the host send to the OUT endpoint during a read?
    HostWaits,  \* does the host wait for a reset to be over, or only for its ack?
    Opens       \* does its program start anew in the middle of a transfer, and
                \* with a reset then?  "never", "resetting" or "plain"

ASSUME SizeAssumption ==
    /\ EPSize \in Nat \ {0} /\ CmdSize \in 1 .. EPSize
    /\ Lens \subseteq Nat /\ 0 \in Lens
ASSUME HostAssumption == {Invalid, Splits, Unruly, HostWaits} \subseteq BOOLEAN
ASSUME OpensAssumption == Opens \in {"never", "resetting", "plain"}

VARIABLES
    \* the firmware
    cur_vue_state,      \* "IDLE", "READ", "WRITE"
    cur_command,        \* as it was received
    left,               \* cur_command.length, which counts down
    pos,                \* bytes the access functions have been asked for
    selected,           \* is a chip selected and the lamp on?
    bulk_reset, tmp_bulk_reset,
    got,                \* what the running stream has put in its buffer
    pc,
    \* the endpoint hardware
    outFull, outBank,   \* RXOUTI, and the bytes not read yet
    inReady, inBank,    \* TXINI, and the bytes written, or on their way
    outStall,           \* STALLRQ of the OUT endpoint
    setup,              \* the control request waiting on endpoint 0
    \* the host
    host,               \* what it is doing
    hcmd, hpos          \* its command, and bytes it has sent or received for it

firmware == <<cur_vue_state, cur_command, left, pos, selected, bulk_reset,
              tmp_bulk_reset, got>>
banks == <<outFull, outBank, inReady, inBank, outStall>>
hostVars == <<setup, host, hcmd, hpos>>
vars == <<firmware, pc, banks, hostVars>>

States == {"IDLE", "READ", "WRITE"}
Commands == [gen : {0, 1}, operation : {"READ", "WRITE"}, length : Lens, valid : BOOLEAN]
Requests == {"RESET_ALL", "READ_HEADER", "CLEAR_HALT", "SET_CONFIGURATION"}

Smaller(a, b) == IF a < b THEN a ELSE b

\* Byte j of command c itself, and of the data that goes with it.
CmdByte(c, j) == <<"cmd", c, j>>
DataByte(c, j) == <<"data", c, j>>
JunkByte(c) == <<"junk", c, 0>>

CmdBytes(c) == [j \in 1 .. CmdSize |-> CmdByte(c, j)]
DataBytes(c, first, n) == [j \in 1 .. n |-> DataByte(c, first + j)]

\* Mutants of Chunk and LastChunk.
WholeChunk == EPSize
LastIsShort == left - Smaller(left, EPSize) < EPSize
NoFallThrough == cur_vue_state = "READ" /\ left <= EPSize

\* The length of a chunk, is it the last, and the length of the stream that
\* is running.
Chunk == Smaller(left, EPSize)
LastChunk == left = Chunk
Wanted == IF cur_vue_state = "IDLE" THEN CmdSize ELSE Chunk

Init ==
    /\ cur_vue_state = "IDLE" /\ left = 0 /\ pos = 0 /\ selected = FALSE
    /\ cur_command = [gen |-> 0, operation |-> "READ", length |-> 0, valid |-> TRUE]
    /\ bulk_reset = TRUE /\ tmp_bulk_reset = FALSE
    /\ got = <<>> /\ pc = "usb"
    /\ outFull = FALSE /\ outBank = <<>> /\ outStall = FALSE
    /\ inReady = TRUE /\ inBank = <<>>
    /\ setup = "none" /\ host = "settle"
    /\ hcmd = cur_command /\ hpos = 0

-----------------------------------------------------------------------------
(* Endpoint primitives of the hardware.                                    *)

EmptyOUT == outFull' = FALSE /\ outBank' = <<>>
EmptyIN == inReady' = TRUE /\ inBank' = <<>>

\* Mutants of FlushBanks and InReadWriteAllowed.
FlushOUTOnly == EmptyOUT /\ UNCHANGED <<inReady, inBank>>
FlushINOnly == EmptyIN /\ UNCHANGED <<outFull, outBank>>
NeverFull == inReady

\* Endpoint_ResetEndpoint of both.
FlushBanks == EmptyOUT /\ EmptyIN

\* An IN bank the firmware owns can be written unless it is full; one that
\* is on its way to the host cannot.
InReadWriteAllowed == inReady /\ Len(inBank) < EPSize

\* USB_USBTask: serve the control request that waits, if one does.
ServeControl ==
    CASE setup = "none" ->
           UNCHANGED <<bulk_reset, selected, banks, setup, host>>
      [] setup = "RESET_ALL" ->
           /\ bulk_reset' = TRUE
           /\ setup' = "none"
           /\ host' = IF HostWaits THEN "settle" ELSE "ready"
           /\ UNCHANGED <<selected, banks>>
      [] setup = "READ_HEADER" ->     \* leaves nothing selected
           /\ selected' = FALSE
           /\ setup' = "none"
           /\ UNCHANGED <<bulk_reset, banks, host>>
      [] setup = "CLEAR_HALT" ->
           /\ outStall' = FALSE
           /\ EmptyOUT
           /\ setup' = "none" /\ host' = "ready"
           /\ UNCHANGED <<bulk_reset, selected, inReady, inBank>>
      [] setup = "SET_CONFIGURATION" ->   \* configures both endpoints anew
           /\ outStall' = FALSE
           /\ FlushBanks
           /\ setup' = "none"
           /\ host' = IF Opens = "resetting" THEN "opened" ELSE "ready"
           /\ UNCHANGED <<bulk_reset, selected>>

-----------------------------------------------------------------------------
(* The main loop, and the OUT half of VUE_Task.                            *)

\* Mutants of MainUSBTask, StreamUSBTask, StreamTimeout and ResetDevice.
MainIgnoresReset ==
    /\ pc = "usb"
    /\ ServeControl
    /\ tmp_bulk_reset' = bulk_reset'
    /\ pc' = "out"
    /\ UNCHANGED <<cur_vue_state, cur_command, left, pos, got, hcmd, hpos>>
StreamIgnoresReset ==
    /\ pc = "stream_usb"
    /\ ServeControl
    /\ pc' = "stream"
    /\ UNCHANGED <<cur_vue_state, cur_command, left, pos, tmp_bulk_reset, got,
                   hcmd, hpos>>
WaitsForever == pc = "stream" /\ ~outFull /\ UNCHANGED vars
ResetKeepsState ==
    /\ pc = "check" /\ tmp_bulk_reset
    /\ selected' = FALSE
    /\ FlushBanks
    /\ pc' = "unstall"
    /\ UNCHANGED <<cur_vue_state, cur_command, left, pos, bulk_reset, tmp_bulk_reset,
                   got, outStall, hostVars>>

\* USB_USBTask(); tmp_bulk_reset = bulk_reset; VUE_Task() returns at once
\* while a reset is due.
MainUSBTask ==
    /\ pc = "usb"
    /\ ServeControl
    /\ tmp_bulk_reset' = bulk_reset'
    /\ pc' = IF bulk_reset' THEN "check" ELSE "out"
    /\ UNCHANGED <<cur_vue_state, cur_command, left, pos, got, hcmd, hpos>>

NoOUT ==
    /\ pc = "out" /\ ~outFull
    /\ pc' = "in"
    /\ UNCHANGED <<firmware, banks, hostVars>>

\* A command, or data of a write: start the stream, with nothing got yet.
StartStream ==
    /\ pc = "out" /\ outFull
    /\ cur_vue_state \in {"IDLE", "WRITE"}
    /\ pc' = "stream"
    /\ UNCHANGED <<firmware, banks, hostVars>>

\* Break: a packet on OUT while reading is flushed.
BreakRead ==
    /\ pc = "out" /\ outFull
    /\ cur_vue_state = "READ"
    /\ EmptyOUT
    /\ pc' = "stall"
    /\ UNCHANGED <<firmware, inReady, inBank, outStall, hostVars>>

StallTransaction ==
    /\ pc = "stall"
    /\ outStall' = TRUE
    /\ pc' = "clear"
    /\ UNCHANGED <<firmware, outFull, outBank, inReady, inBank, hostVars>>

\* Endpoint_Read_Stream_LE with a packet in the bank: take what is there; if
\* that is not enough, release the bank.
ReadStream ==
    LET n == Smaller(Wanted - Len(got), Len(outBank))
    IN /\ pc = "stream" /\ outFull
       /\ got' = got \o SubSeq(outBank, 1, n)
       /\ IF Len(got) + n = Wanted
          THEN /\ outBank' = SubSeq(outBank, n + 1, Len(outBank))
               /\ pc' = "exec"
               /\ UNCHANGED outFull
          ELSE /\ EmptyOUT
               /\ pc' = "stream_usb"
       /\ UNCHANGED <<cur_vue_state, cur_command, left, pos, selected, bulk_reset,
                      tmp_bulk_reset, inReady, inBank, outStall, hostVars>>

\* USB_USBTask inside the stream, and the caller's look at bulk_reset.
StreamUSBTask ==
    /\ pc = "stream_usb"
    /\ ServeControl
    /\ IF bulk_reset'
       THEN pc' = "clear" /\ got' = <<>>
       ELSE pc' = "stream" /\ UNCHANGED got
    /\ UNCHANGED <<cur_vue_state, cur_command, left, pos, tmp_bulk_reset, hcmd, hpos>>

\* 100 ms without a packet: the stream gives up with an error that is not
\* IncompleteTransfer, so its caller goes on as if it were complete.
StreamTimeout ==
    /\ pc = "stream" /\ ~outFull
    /\ pc' = "exec"
    /\ UNCHANGED <<firmware, banks, hostVars>>

\* What the bytes of cur_command amount to: the command they are the bytes
\* of; any command when they are not those of one (gen names none then).
Decoded == IF \E c \in Commands : got = CmdBytes(c)
           THEN {c \in Commands : got = CmdBytes(c)}
           ELSE {c \in Commands : c.gen = 0}

\* VUE_Command_Task after its stream: an invalid command is flushed, one
\* without a length does nothing, any other selects its target.
ExecCommand ==
    /\ pc = "exec" /\ cur_vue_state = "IDLE"
    /\ \E c \in Decoded :
         /\ cur_command' = c /\ left' = c.length
         /\ \/ /\ ~c.valid
               /\ EmptyOUT
               /\ pc' = "stall"
               /\ UNCHANGED <<cur_vue_state, pos, selected>>
            \/ /\ c.valid /\ c.length = 0
               /\ pc' = "clear"
               /\ UNCHANGED <<cur_vue_state, pos, selected, outFull, outBank>>
            \/ /\ c.valid /\ c.length > 0
               /\ cur_vue_state' = c.operation
               /\ pos' = 0 /\ selected' = TRUE
               /\ pc' = "clear"
               /\ UNCHANGED <<outFull, outBank>>
    /\ got' = <<>>
    /\ UNCHANGED <<bulk_reset, tmp_bulk_reset, inReady, inBank, outStall, hostVars>>

\* VUE_BulkWrite_Task after its stream: the chunk goes to the cartridge.
ExecWrite ==
    /\ pc = "exec" /\ cur_vue_state = "WRITE"
    /\ pos' = pos + Chunk
    /\ left' = left - Chunk
    /\ IF LastChunk
       THEN cur_vue_state' = "IDLE" /\ selected' = FALSE
       ELSE UNCHANGED <<cur_vue_state, selected>>
    /\ pc' = "clear" /\ got' = <<>>
    /\ UNCHANGED <<cur_command, bulk_reset, tmp_bulk_reset, banks, hostVars>>

\* What is left of the packet goes with the bank.
ClearOUT ==
    /\ pc = "clear"
    /\ EmptyOUT
    /\ pc' = "in"
    /\ UNCHANGED <<firmware, inReady, inBank, outStall, hostVars>>

-----------------------------------------------------------------------------
(* The IN half of VUE_Task.                                                *)

NoIN ==
    /\ pc = "in" /\ ~inReady
    /\ pc' = "check"
    /\ UNCHANGED <<firmware, banks, hostVars>>

NothingToRead ==
    /\ pc = "in" /\ inReady
    /\ cur_vue_state # "READ"
    /\ pc' = "tail"
    /\ UNCHANGED <<firmware, banks, hostVars>>

\* VUE_BulkRead_Task: a chunk goes from the cartridge to the bank; the last
\* one is sent at once.
BulkRead ==
    /\ pc = "in" /\ inReady
    /\ cur_vue_state = "READ"
    /\ inBank' = inBank \o DataBytes(cur_command, pos, Chunk)
    /\ pos' = pos + Chunk
    /\ left' = left - Chunk
    /\ IF LastChunk
       THEN cur_vue_state' = "IDLE" /\ selected' = FALSE /\ inReady' = FALSE
       ELSE UNCHANGED <<cur_vue_state, selected, inReady>>
    /\ pc' = "tail"
    /\ UNCHANGED <<cur_command, bulk_reset, tmp_bulk_reset, got, outFull, outBank,
                   outStall, hostVars>>

\* If the endpoint is full, ...
TestFull ==
    /\ pc = "tail"
    /\ pc' = IF InReadWriteAllowed THEN "check" ELSE "send"
    /\ UNCHANGED <<firmware, banks, hostVars>>

\* ... send its contents.  A bank that is on its way already stays that way.
ClearIN ==
    /\ pc = "send"
    /\ inReady' = FALSE
    /\ pc' = "check"
    /\ UNCHANGED <<firmware, outFull, outBank, inBank, outStall, hostVars>>

-----------------------------------------------------------------------------
(* The rest of the main loop: the bulk reset.                              *)

NoReset ==
    /\ pc = "check" /\ ~tmp_bulk_reset
    /\ pc' = "usb"
    /\ UNCHANGED <<firmware, banks, hostVars>>

\* Write default state, reset FSM, flush both endpoints.
ResetDevice ==
    /\ pc = "check" /\ tmp_bulk_reset
    /\ selected' = FALSE
    /\ cur_vue_state' = "IDLE"
    /\ FlushBanks
    /\ pc' = "unstall"
    /\ UNCHANGED <<cur_command, left, pos, bulk_reset, tmp_bulk_reset, got,
                   outStall, hostVars>>

ResetDone ==
    /\ pc = "unstall"
    /\ outStall' = FALSE
    /\ bulk_reset' = FALSE
    /\ pc' = "usb"
    /\ UNCHANGED <<cur_vue_state, cur_command, left, pos, selected, tmp_bulk_reset,
                   got, outFull, outBank, inReady, inBank, hostVars>>

Device ==
    \/ MainUSBTask \/ NoOUT \/ StartStream \/ BreakRead \/ StallTransaction
    \/ ReadStream \/ StreamUSBTask \/ StreamTimeout \/ ExecCommand \/ ExecWrite
    \/ ClearOUT \/ NoIN \/ NothingToRead \/ BulkRead \/ TestFull \/ ClearIN
    \/ NoReset \/ ResetDevice \/ ResetDone

-----------------------------------------------------------------------------
(* The host, with the bus between.                                         *)

\* A new command; gen tells it from the one before.
Begin ==
    /\ host = "ready"
    /\ hcmd' \in {c \in Commands : c.gen = 1 - hcmd.gen /\ (c.valid \/ Invalid)}
    /\ hpos' = 0
    /\ host' = "command"
    /\ UNCHANGED <<firmware, pc, banks, setup>>

\* The OUT endpoint takes a packet when its bank is free.  Packets line up
\* with the chunks of the firmware.
Send ==
    LET total == IF host = "command" THEN CmdSize ELSE hcmd.length
        most  == Smaller(total - hpos, EPSize - (hpos % EPSize))
    IN /\ host \in {"command", "writing"}
       /\ ~outFull /\ ~outStall
       /\ \E n \in 1 .. most :
            /\ Splits \/ n = most
            /\ outFull' = TRUE
            /\ outBank' = IF host = "command"
                          THEN SubSeq(CmdBytes(hcmd), hpos + 1, hpos + n)
                          ELSE DataBytes(hcmd, hpos, n)
            /\ IF hpos + n < total
               THEN hpos' = hpos + n /\ host' = host
               ELSE /\ hpos' = 0
                    /\ host' = IF host = "writing" \/ hcmd.length = 0 THEN "ready"
                               ELSE IF hcmd.operation = "READ" THEN "reading"
                               ELSE "writing"
       /\ UNCHANGED <<firmware, pc, inReady, inBank, outStall, setup, hcmd>>

\* The host collects the packet that waits on the IN endpoint.
Receive ==
    /\ host = "reading"
    /\ ~inReady
    /\ EmptyIN
    /\ IF hpos + Len(inBank) < hcmd.length
       THEN hpos' = hpos + Len(inBank) /\ host' = host
       ELSE hpos' = 0 /\ host' = "ready"
    /\ UNCHANGED <<firmware, pc, outFull, outBank, outStall, setup, hcmd>>

\* A STALL instead of an ACK.
SeeStall ==
    /\ host \in {"command", "writing"}
    /\ outStall /\ setup = "none"
    /\ setup' = "CLEAR_HALT" /\ host' = "clearing"
    /\ UNCHANGED <<firmware, pc, banks, hcmd, hpos>>

\* REQ_RESET_ALL, at any time.
Abort ==
    /\ host \in {"ready", "command", "writing", "reading", "opened"}
    /\ setup = "none"
    /\ setup' = "RESET_ALL" /\ host' = "resetting"
    /\ UNCHANGED <<firmware, pc, banks, hcmd, hpos>>

\* The host's program starts anew in the middle of anything, and the device
\* is configured again; its state machine is not told.
Open ==
    /\ Opens # "never"
    /\ host \in {"ready", "command", "writing", "reading"}
    /\ setup = "none"
    /\ setup' = "SET_CONFIGURATION" /\ host' = "opening"
    /\ UNCHANGED <<firmware, pc, banks, hcmd, hpos>>

Settle ==
    /\ host = "settle" /\ ~bulk_reset
    /\ host' = "ready"
    /\ UNCHANGED <<firmware, pc, banks, setup, hcmd, hpos>>

\* REQ_READ_HEADER, whatever the bulk endpoints are doing.
AskHeader ==
    /\ setup = "none"
    /\ setup' = "READ_HEADER"
    /\ UNCHANGED <<firmware, pc, banks, host, hcmd, hpos>>

\* A packet nobody asked for.
Junk ==
    /\ Unruly
    /\ host = "reading" /\ ~outFull /\ ~outStall
    /\ outFull' = TRUE /\ outBank' = <<JunkByte(hcmd)>>
    /\ UNCHANGED <<firmware, pc, inReady, inBank, outStall, hostVars>>

Host == Begin \/ Send \/ Receive \/ SeeStall \/ Abort \/ Open \/ Settle \/ AskHeader \/ Junk

Next == Device \/ Host

Spec == Init /\ [][Next]_vars

\* The processor runs, the 100 ms timer included.
FairDevice == Spec /\ WF_vars(Device)

\* And a host that goes on with the transfer it has begun.
FairSpec == FairDevice /\ WF_vars(Send) /\ WF_vars(Receive)

-----------------------------------------------------------------------------

TypeOK ==
    /\ cur_vue_state \in States
    /\ cur_command \in Commands /\ hcmd \in Commands
    /\ left \in Nat /\ pos \in Nat /\ hpos \in Nat
    /\ {selected, bulk_reset, tmp_bulk_reset, outFull, inReady, outStall} \subseteq BOOLEAN
    /\ \A q \in {got, outBank, inBank} :
         /\ Len(q) <= EPSize
         /\ \A j \in 1 .. Len(q) : /\ q[j][1] \in {"cmd", "data", "junk"}
                                   /\ q[j][2] \in Commands
    /\ pc \in {"usb", "out", "stream", "stream_usb", "exec", "stall", "clear",
               "in", "tail", "send", "check", "unstall"}
    /\ setup \in Requests \cup {"none"}
    /\ host \in {"ready", "command", "writing", "reading", "clearing", "resetting", "settle",
                "opening", "opened"}

\* The stream of VUE_Command_Task ends with the bytes of one command, none
\* of them data of a transfer.
CommandFraming ==
    pc = "exec" /\ cur_vue_state = "IDLE" =>
        \E c \in Commands : got = CmdBytes(c)

\* The access function of a write is called with the bytes the host sent for
\* these words: none stale, none lost, none of a command.
WriteInOrder ==
    pc = "exec" /\ cur_vue_state = "WRITE" =>
        got = DataBytes(cur_command, pos, Chunk)

\* What waits on the IN endpoint for a host that reads are the next bytes of
\* its transfer, and never more than it asked for.
ReadInOrder ==
    host = "reading" =>
        /\ inBank = DataBytes(hcmd, hpos, Len(inBank))
        /\ hpos + Len(inBank) <= hcmd.length

\* From the first byte of a command on, nothing of an earlier transfer is
\* left in a bank, a buffer or the state machine, however that transfer
\* ended.
NothingLeftOver ==
    host \in {"writing", "reading"} \/ (host = "command" /\ hpos > 0) =>
        /\ \A q \in {got, outBank, inBank} : \A j \in 1 .. Len(q) : q[j][2] = hcmd
        /\ cur_vue_state # "IDLE" => cur_command = hcmd

\* When the host is done with its transfers and the firmware has taken its
\* packets, the state machine is idle and no chip is selected.
IdleTogether ==
    host = "ready" /\ pc = "usb" /\ ~outFull =>
        cur_vue_state = "IDLE" /\ ~selected

\* The remaining length and the bytes accessed add up to the command's length.
LengthAddsUp ==
    cur_vue_state # "IDLE" =>
        /\ left > 0
        /\ pos + left = cur_command.length

\* The IN bank is empty whenever VUE_BulkRead_Task may write to it, so the
\* branch of VUE_Task for an endpoint that is full at this point is dead.
InBankFree == pc = "in" /\ inReady => inBank = <<>>

\* An empty packet is never sent.
NoEmptyPacket == ~inReady => inBank # <<>>

\* A transfer ends by itself only when all of its bytes were accessed.
EndsComplete ==
    [][(cur_vue_state # "IDLE" /\ cur_vue_state' = "IDLE" /\ ~bulk_reset)
          => (pos' = cur_command.length)]_vars

\* Once REQ_RESET_ALL is acknowledged the bulk tasks leave the cartridge alone
\* until the reset is done: no chunk is accessed and nothing is selected.  A
\* header that is read meanwhile does not count.
ResetStopsAccess ==
    [][bulk_reset => (pos' = pos /\ (selected' => selected))]_vars

\* Every reset that is asked for is performed, wherever the main loop is and
\* whatever it waits for.
ResetServed ==
    /\ setup = "RESET_ALL" ~> bulk_reset
    /\ bulk_reset ~> ~bulk_reset

\* A valid command is carried out to its end, whatever header reads come
\* between, unless the host aborts it or starts anew; one that is sent while an invalid one
\* is still being stalled may be lost (VUEEvents.c:150).
TransferCompletes ==
    host = "command" /\ hcmd.valid /\ hpos = 0 /\ pc = "usb" /\ ~outFull /\ ~outStall
        ~> host \in {"ready", "resetting", "opening"}

-----------------------------------------------------------------------------
(* The transfer as the cartridge sees it.                                  *)

Running(n) == IF cur_vue_state = "IDLE" THEN 0 ELSE n

Cartridge == INSTANCE Transfer
    WITH state <- cur_vue_state, length <- Running(cur_command.length), done <- Running(pos),
         resetting <- bulk_reset

\* The state machine, the streams and the main loop's reset implement Transfer.
ImplementsTransfer == Cartridge!Spec
=============================================================================
