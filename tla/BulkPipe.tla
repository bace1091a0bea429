------------------------------- MODULE BulkPipe -------------------------------
(***************************************************************************)
(* The data toggles of the two bulk pipes, and how REQ_RESET_ALL (main.c)  *)
(* and CLEAR_FEATURE(ENDPOINT_HALT) (DeviceStandardReq.c) keep them alike  *)
(* on both sides.                                                          *)
(*                                                                         *)
(* USB sends a packet again when its ACK is lost; one bit on each side     *)
(* tells the repetition from the next packet.  The device sets its bit to  *)
(* 0 when it performs a reset, the host when it clears the halt of a pipe; *)
(* a side that does so alone takes a new packet for an old one.  Both also *)
(* empty the bank, whatever is in it.  What the packets carry is the       *)
(* subject of VUEEvents.                                                   *)
(***************************************************************************)
EXTENDS Integers

CONSTANTS
    Clears,     \* pipes whose halt the host clears after REQ_RESET_ALL
    Careful     \* else after a STALL only, and between transfers?

Pipes == {"OUT", "IN"}

ASSUME ClearsAssumption == Clears \subseteq Pipes
ASSUME CarefulAssumption == Careful \in BOOLEAN

VARIABLES
    pc, bulk_reset,
    reading,    \* does cur_vue_state = READ?
    bank,       \* per pipe: "none", a "packet" on its way, or a "stale" one,
                \* of a transfer the host has given up
    stall,      \* STALLRQ of the OUT endpoint
    setup,      \* the control request that waits on endpoint 0
    dev, hst,   \* per pipe: the toggle of the device, and of the host
    retry,      \* per pipe: has the sender no ACK of the packet it sent last?
    phase, todo,    \* what the host is doing, and the pipes it has yet to clear
    ahead,      \* per pipe, since the last REQ_RESET_ALL: packets the receiver
                \* has got less those the sender takes for delivered
    refused     \* did the firmware refuse what it got last?

firmware == <<bulk_reset, reading, stall>>
toggles == <<dev, hst, retry>>
host == <<phase, todo>>
history == <<ahead, refused>>
vars == <<pc, firmware, bank, setup, toggles, host, history>>

\* A device just configured, a host that has just claimed it.
Init ==
    /\ pc = "usb" /\ bulk_reset = FALSE /\ reading = FALSE /\ stall = FALSE
    /\ bank = [p \in Pipes |-> "none"]
    /\ setup = "none"
    /\ dev = [p \in Pipes |-> 0] /\ hst = [p \in Pipes |-> 0]
    /\ retry = [p \in Pipes |-> FALSE]
    /\ phase = "use" /\ todo = {}
    /\ ahead = [p \in Pipes |-> 0] /\ refused = FALSE

-----------------------------------------------------------------------------
(* The device.                                                             *)

Goto(from, to) == pc = from /\ pc' = to

\* Mutants of ResetDataToggle, Drop and ResetIN.
KeepToggle(p) == UNCHANGED dev
KeepPacket(p) == UNCHANGED <<bank, ahead>>
StaysInReset ==
    /\ Goto("reset_in", "usb")
    /\ dev' = [dev EXCEPT !["IN"] = 0]
    /\ UNCHANGED <<firmware, bank, setup, hst, retry, host, history>>

\* The firmware is done with what is in a bank.
Empty(p) == bank' = [bank EXCEPT ![p] = "none"]

\* Endpoint_ResetEndpoint: the bank is emptied unread.  The receiver does not
\* get a packet the sender takes for delivered, or takes it out again.
Drop(p) ==
    /\ Empty(p)
    /\ ahead' = IF bank[p] = "packet" THEN [ahead EXCEPT ![p] = @ - 1] ELSE ahead

ResetDataToggle(p) == dev' = [dev EXCEPT ![p] = 0]

\* CLEAR_FEATURE(ENDPOINT_HALT), on both sides.  The host sends what is not
\* acknowledged again, as a new packet.
ClearHalt(p) ==
    /\ Drop(p)
    /\ ResetDataToggle(p)
    /\ stall' = (stall /\ p # "OUT")
    /\ hst' = [hst EXCEPT ![p] = 0] /\ retry' = [retry EXCEPT ![p] = FALSE]
    /\ todo' = todo \ {p}
    /\ phase' = IF todo' = {} THEN "use" ELSE "clear"
    /\ UNCHANGED <<bulk_reset, reading, refused>>

\* USB_USBTask: one request at most.
USBTask ==
    /\ setup' = "none"
    /\ \/ /\ setup = "none"
          /\ UNCHANGED <<firmware, bank, toggles, host, history>>
       \/ /\ setup = "RESET_ALL"
          /\ bulk_reset' = TRUE
          /\ todo' = Clears
          /\ phase' = IF Clears = {} THEN "use" ELSE "clear"
          /\ UNCHANGED <<reading, stall, bank, toggles, history>>
       \/ /\ setup \in Pipes
          /\ ClearHalt(setup)

\* The main loop's call, after which it looks whether a reset is due.
MainUSBTask ==
    /\ pc = "usb"
    /\ USBTask
    /\ pc' = IF bulk_reset' THEN "flush_out" ELSE "out"

\* The OUT half of VUE_Task.
NoOUT ==
    /\ bank["OUT"] = "none"
    /\ Goto("out", "in")
    /\ UNCHANGED <<firmware, bank, setup, toggles, host, history>>

\* A packet for a stream, which wants no more or gives the bank back for more.
TakeOUT ==
    /\ pc \in {"out", "wait"} /\ bank["OUT"] # "none" /\ ~reading
    /\ \/ pc' = "stream" /\ Empty("OUT")
       \/ pc' = "exec" /\ UNCHANGED bank
    /\ UNCHANGED <<firmware, setup, toggles, host, history>>

\* A stream serves requests between packets; a reset ends it ...
StreamUSBTask ==
    /\ pc = "stream"
    /\ USBTask
    /\ pc' = IF bulk_reset' THEN "clear" ELSE "wait"

\* ... and so does a packet that does not come in time.
StreamTimeout ==
    /\ bank["OUT"] = "none"
    /\ Goto("wait", "exec")
    /\ UNCHANGED <<firmware, bank, setup, toggles, host, history>>

\* A chunk is written or a command executed, which may begin a read.
Execute ==
    /\ Goto("exec", "clear")
    /\ reading' \in BOOLEAN
    /\ refused' = FALSE
    /\ UNCHANGED <<bulk_reset, stall, bank, setup, toggles, host, ahead>>

\* An invalid command, and a packet during a read: it is refused, and then
\* the endpoint is stalled.
Refuse ==
    /\ \/ pc = "exec"
       \/ pc = "out" /\ bank["OUT"] # "none" /\ reading
    /\ pc' = "stall"
    /\ Empty("OUT")
    /\ refused' = TRUE
    /\ UNCHANGED <<firmware, setup, toggles, host, ahead>>
StallOUT ==
    /\ Goto("stall", "clear")
    /\ stall' = TRUE
    /\ UNCHANGED <<bulk_reset, reading, bank, setup, toggles, host, history>>

ClearOUT ==
    /\ Goto("clear", "in")
    /\ Empty("OUT")
    /\ UNCHANGED <<firmware, setup, toggles, host, history>>

\* The IN half: packets for the host, until the read is over.
ServeIN ==
    /\ reading /\ bank["IN"] = "none"
    /\ pc = "in" /\ pc' \in {"in", "usb"}
    /\ bank' = [bank EXCEPT !["IN"] = IF phase = "reset" THEN "stale" ELSE "packet"]
    /\ reading' \in IF pc' = "in" THEN {TRUE} ELSE BOOLEAN
    /\ UNCHANGED <<bulk_reset, stall, setup, toggles, host, history>>
LeaveIN ==
    /\ Goto("in", "usb")
    /\ reading' \in {reading, FALSE}
    /\ UNCHANGED <<bulk_reset, stall, bank, setup, toggles, host, history>>

\* The bulk reset of the main loop.
FlushOUT ==
    /\ Goto("flush_out", "flush_in")
    /\ reading' = FALSE
    /\ Drop("OUT")
    /\ UNCHANGED <<bulk_reset, stall, setup, toggles, host, refused>>
FlushIN ==
    /\ Goto("flush_in", "reset_out")
    /\ Drop("IN")
    /\ UNCHANGED <<firmware, setup, toggles, host, refused>>
ResetOUT ==
    /\ Goto("reset_out", "reset_in")
    /\ ResetDataToggle("OUT")
    /\ stall' = FALSE
    /\ UNCHANGED <<bulk_reset, reading, bank, setup, hst, retry, host, history>>
ResetIN ==
    /\ Goto("reset_in", "usb")
    /\ ResetDataToggle("IN")
    /\ Drop("IN")
    /\ bulk_reset' = FALSE
    /\ UNCHANGED <<reading, stall, setup, hst, retry, host, refused>>

Device ==
    \/ MainUSBTask \/ NoOUT \/ TakeOUT \/ StreamUSBTask \/ StreamTimeout \/ Execute
    \/ Refuse \/ StallOUT \/ ClearOUT \/ ServeIN \/ LeaveIN
    \/ FlushOUT \/ FlushIN \/ ResetOUT \/ ResetIN

-----------------------------------------------------------------------------
(* Transactions.  The receiver takes a packet if its toggle is the one it  *)
(* waits for and acknowledges it in any case; the sender goes on to the    *)
(* next packet when it gets the ACK, which may be lost.                    *)

Flip(toggle, p) == [toggle EXCEPT ![p] = 1 - toggle[p]]

\* One end has seen a new packet, or the old one again, and the other the ACK.
Count(p, new, ack) ==
    /\ ahead' = [ahead EXCEPT ![p] = @ + (IF new THEN 1 ELSE 0) - (IF ack THEN 1 ELSE 0)]
    /\ retry' = [retry EXCEPT ![p] = ~ack]

SendOUT ==
    /\ phase = "use" /\ bank["OUT"] = "none" /\ ~stall
    /\ LET new == hst["OUT"] = dev["OUT"]
       IN \E ack \in BOOLEAN :
            /\ bank' = IF new THEN [bank EXCEPT !["OUT"] = "packet"] ELSE bank
            /\ dev' = IF new THEN Flip(dev, "OUT") ELSE dev
            /\ hst' = IF ack THEN Flip(hst, "OUT") ELSE hst
            /\ Count("OUT", new, ack)
    /\ UNCHANGED <<pc, firmware, setup, host, refused>>

ReceiveIN ==
    /\ phase = "use" /\ bank["IN"] # "none"
    /\ LET new == hst["IN"] = dev["IN"]
       IN \E ack \in BOOLEAN :
            /\ bank' = IF ack THEN [bank EXCEPT !["IN"] = "none"] ELSE bank
            /\ hst' = IF new THEN Flip(hst, "IN") ELSE hst
            /\ dev' = IF ack THEN Flip(dev, "IN") ELSE dev
            /\ Count("IN", new, ack)
    /\ UNCHANGED <<pc, firmware, setup, host, refused>>

-----------------------------------------------------------------------------
(* The host.  It leaves the pipes alone while it resets or clears them.    *)

\* It gives up its transfers: what is on its way is of no use any more.
Abort ==
    /\ phase = "use" /\ setup = "none"
    /\ setup' = "RESET_ALL" /\ phase' = "reset"
    /\ bank' = [p \in Pipes |-> IF bank[p] = "none" THEN "none" ELSE "stale"]
    /\ retry' = [p \in Pipes |-> FALSE] /\ ahead' = [p \in Pipes |-> 0]
    /\ UNCHANGED <<pc, firmware, dev, hst, todo, refused>>

\* The host takes what it has sent without an ACK for refused by the STALL:
\* if it was executed instead, it has been taken and is not counted as sent.
SeeStall ==
    /\ phase = "use" /\ setup = "none" /\ stall
    /\ todo' = {"OUT"} /\ phase' = "clear"
    /\ retry' = [retry EXCEPT !["OUT"] = FALSE]
    /\ ahead' = IF retry["OUT"] /\ refused THEN [ahead EXCEPT !["OUT"] = @ - 1] ELSE ahead
    /\ UNCHANGED <<pc, firmware, bank, setup, dev, hst, refused>>

\* It may clear any pipe between two transfers, when it has all it has asked
\* for and what it has sent has been taken; if it is not careful, at any time.
\* It cannot know of an ACK of its own that was lost.
BetweenTransfers ==
    /\ ~reading /\ pc \in {"usb", "out", "in"}
    /\ bank["OUT"] = "none" /\ ~retry["OUT"]
    /\ bank["IN"] = "none" \/ retry["IN"]
WantClear ==
    /\ Careful => BetweenTransfers
    /\ phase = "use" /\ setup = "none"
    /\ todo' \in (SUBSET Pipes) \ {{}}
    /\ phase' = "clear"
    /\ UNCHANGED <<pc, firmware, bank, setup, toggles, history>>

Clear ==
    /\ phase = "clear" /\ setup = "none"
    /\ setup' \in todo
    /\ UNCHANGED <<pc, firmware, bank, toggles, host, history>>

Host == SendOUT \/ ReceiveIN \/ Abort \/ SeeStall \/ WantClear \/ Clear

Next == Device \/ Host

Spec == Init /\ [][Next]_vars

-----------------------------------------------------------------------------

TypeOK ==
    /\ pc \in {"usb", "out", "stream", "wait", "exec", "stall", "clear", "in",
               "flush_out", "flush_in", "reset_out", "reset_in"}
    /\ {bulk_reset, reading, stall, refused} \subseteq BOOLEAN
    /\ bank \in [Pipes -> {"none", "packet", "stale"}]
    /\ setup \in Pipes \cup {"none", "RESET_ALL"}
    /\ dev \in [Pipes -> {0, 1}] /\ hst \in [Pipes -> {0, 1}]
    /\ retry \in [Pipes -> BOOLEAN]
    /\ ahead \in [Pipes -> Int]
    /\ phase \in {"use", "reset", "clear"}
    /\ todo \subseteq Pipes

\* Every packet arrives exactly once, whatever ACKs are lost, wherever the
\* device is when the host resets it, and however often it stalls and the host
\* clears the halt: the receiver has got those the sender takes for delivered
\* and at most the one whose ACK was lost.  No clear starts the count anew; a
\* reset does, since the host gives up what was on its way.
ExactlyOnce == \A p \in Pipes : ahead[p] \in {0, 1}

\* Nothing that was on its way when the host gave up its transfers is in a
\* bank when it uses the pipes again.
NothingStale == phase = "use" => \A p \in Pipes : bank[p] # "stale"

\* The reset the host asked for is over before it uses the pipes again, so
\* the flush takes no packet of the next transfer.  Nothing makes the host
\* wait but the requests it has to make.
ResetBeforeUse == phase = "use" => ~bulk_reset
=============================================================================
