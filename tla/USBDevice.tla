------------------------------ MODULE USBDevice ------------------------------
(***************************************************************************)
(* The device side of USB: LUFA's device core as this firmware is built    *)
(* (series 2 AVR, polled control endpoint, static options), the vendor     *)
(* requests of USBEvents.c, and the main loop as far as it selects         *)
(* endpoints.                                                              *)
(*                                                                         *)
(* Every endpoint register is reached through one selector, UENUM, which   *)
(* the bulk tasks, the control requests served in the middle of them and   *)
(* the interrupt handler share.  The state of the device is shared in the  *)
(* same way.  Here the program is a sequence of steps between which the    *)
(* interrupt handler, the hardware of endpoint 0 and the host may move;    *)
(* what the bulk endpoints carry is the subject of VUEEvents.              *)
(***************************************************************************)
EXTENDS Naturals

CONSTANTS
    Names,      \* requests the host may make
    Lengths,    \* values of wLength in those that ask for data
    Resets,     \* may the host reset the bus again after it has once?
    Suspends,   \* may it suspend the bus?
    Aborts,     \* may it give up a request it has begun?
    Hasty       \* may it begin one while the last is still being finished?

VARIABLES
    \* the device's own variables
    USB_DeviceState, USB_Device_ConfigurationNumber,
    USB_ControlRequest,
    bulk_reset,
    pc,
    caller, prev,       \* of USB_USBTask: who called it, PrevEndpoint
    left, full,         \* of the control stream: Length, LastPacketFull
    \* registers
    UENUM,              \* the selected endpoint
    UDINT, UDIEN,       \* interrupt flags, and which are enabled
    ADDEN,              \* the address is enabled
    RXSTPI, RXOUTI, TXINI, STALLRQ,     \* of endpoint 0; RXSTPI holds the SETUP
    inBank,             \* bytes endpoint 0 has for the host
    \* the bus and the host
    bus, asleep,        \* "new", "idle", "active"; idle for 3 ms and more
    hreq, hphase, hgot, \* the host's request, its stage, bytes received
    haddr               \* has it sent SET_ADDRESS since the last bus reset?

device == <<USB_DeviceState, USB_Device_ConfigurationNumber, ADDEN>>
task == <<USB_ControlRequest, bulk_reset, caller, prev, left, full>>
ep0 == <<RXSTPI, RXOUTI, TXINI, STALLRQ, inBank>>
ints == <<UDINT, UDIEN>>
host == <<hreq, hphase, hgot, haddr>>
wire == <<bus, asleep>>
vars == <<device, task, ep0, ints, host, wire, pc, UENUM>>

-----------------------------------------------------------------------------
(* Requests.                                                               *)

FIXED_CONTROL_ENDPOINT_SIZE == 32

\* CALLBACK_USB_GetDescriptor: descriptors of the device and their sizes.
DescriptorSize ==
    [DEVICE |-> 18, CONFIGURATION |-> 9 + 9 + 7 + 7, LANGUAGE |-> 2 + 2 * 1,
     MANUFACTURER |-> 2 + 2 * 9, PRODUCT |-> 2 + 2 * (17 + 5), SERIAL |-> 2 + 2 * (80 \div 4)]
Descriptors == DOMAIN DescriptorSize

\* VENDOR_OTHER is any code without a case, and REQ_WRITE_DEBUG of another
\* value than 0; reads without a case go the way of GET_STATUS_VENDOR.
VendorOut == {"RESET_ALL", "WRITE_DEBUG", "VENDOR_OTHER"}
VendorIn == {"READ_HEADER", "READ_DEBUG", "GET_STATUS_VENDOR"}

\* ZERO_ADDRESS is SET_ADDRESS 0, UNSET_CONFIGURATION is SET_CONFIGURATION 0.
AddressRequests == {"SET_ADDRESS", "ZERO_ADDRESS"}
ConfigurationRequests == {"SET_CONFIGURATION", "UNSET_CONFIGURATION"}
StandardOut == AddressRequests \cup ConfigurationRequests \cup {"FEATURE"}
StandardIn == Descriptors \cup {"GET_CONFIGURATION", "GET_STATUS"}

\* Requests a handler takes.  Those it returns from at once are a configuration
\* or descriptor that does not exist and a feature of endpoint 0, or none the
\* device has; UNKNOWN has no handler.
Handled == VendorOut \cup VendorIn \cup StandardOut \cup StandardIn
Unhandled == {"BAD_CONFIGURATION", "BAD_FEATURE", "NO_DESCRIPTOR", "UNKNOWN"}
DeviceToHost == VendorIn \cup StandardIn \cup {"NO_DESCRIPTOR"}

ASSUME RequestAssumption ==
    /\ Names \subseteq Handled \cup Unhandled
    /\ Lengths \subseteq Nat \ {0}
ASSUME HostAssumption == {Resets, Suspends, Aborts, Hasty} \subseteq BOOLEAN

Requests == [name : Names \cap DeviceToHost, wLength : Lengths]
              \cup [name : Names \ DeviceToHost, wLength : {0}]
NoRequest == [name |-> "none", wLength |-> 0]

\* Mutant of Smaller: always a whole bank, or all that was asked for.
Second(a, b) == b

Smaller(a, b) == IF a < b THEN a ELSE b

\* Bytes the device has to give in answer to a request.
SizeOf(name) ==
    CASE name \in Descriptors -> DescriptorSize[name]
      [] name = "READ_HEADER" -> 32
      [] name = "READ_DEBUG" -> 4
      [] name = "GET_STATUS" -> 2
      [] name = "GET_CONFIGURATION" -> 1
      [] OTHER -> 0

Init ==
    /\ USB_DeviceState = "Unattached" /\ USB_Device_ConfigurationNumber = 0
    /\ USB_ControlRequest = NoRequest /\ bulk_reset = TRUE
    /\ pc = "usb" /\ caller = "usb" /\ prev = "control"
    /\ left = 0 /\ full = FALSE
    /\ UENUM = "control" /\ UDINT = {} /\ UDIEN = {"SUSPI", "EORSTI"} /\ ADDEN = FALSE
    /\ RXSTPI = NoRequest /\ RXOUTI = FALSE /\ TXINI = TRUE /\ STALLRQ = FALSE
    /\ inBank = 0
    /\ bus = "new" /\ asleep = FALSE
    /\ hreq = NoRequest /\ hphase = "idle" /\ hgot = 0 /\ haddr = FALSE

-----------------------------------------------------------------------------
(* ISR(USB_GEN_vect): as soon as an enabled flag is up.                    *)

Pending == UDINT \cap UDIEN # {}

\* The state after a wake-up, and after SET_CONFIGURATION.
StateOfConfiguration ==
    IF USB_Device_ConfigurationNumber # 0 \/ ADDEN THEN "Configured" ELSE "Powered"

\* Mutant of SUSPI: the wake-up is left disabled.
SleepsForGood ==
    /\ "SUSPI" \in UDINT \cap UDIEN
    /\ UDIEN' = UDIEN \ {"SUSPI"}
    /\ USB_DeviceState' = "Unattached"
    /\ UNCHANGED <<USB_Device_ConfigurationNumber, ADDEN, UDINT, task, pc, UENUM, ep0, host, wire>>

SUSPI ==
    /\ "SUSPI" \in UDINT \cap UDIEN
    /\ UDIEN' = (UDIEN \ {"SUSPI"}) \cup {"WAKEUPI"}
    /\ USB_DeviceState' = "Unattached"
    /\ UNCHANGED <<USB_Device_ConfigurationNumber, ADDEN, UDINT, task, pc, UENUM, ep0, host, wire>>

WAKEUPI ==
    /\ "WAKEUPI" \in UDINT \cap UDIEN
    /\ UDINT' = UDINT \ {"WAKEUPI"}
    /\ UDIEN' = (UDIEN \ {"WAKEUPI"}) \cup {"SUSPI"}
    /\ USB_DeviceState' = StateOfConfiguration
    /\ UNCHANGED <<USB_Device_ConfigurationNumber, ADDEN, task, pc, UENUM, ep0, host, wire>>

\* Endpoint_ConfigureEndpoint of endpoint 0 leaves it selected and empty.
EORSTI ==
    /\ "EORSTI" \in UDINT \cap UDIEN
    /\ {"SUSPI", "WAKEUPI"} \cap UDINT \cap UDIEN = {}
    /\ USB_DeviceState' = "Default" /\ USB_Device_ConfigurationNumber' = 0
    /\ UDINT' = UDINT \ {"EORSTI", "SUSPI"}
    /\ UDIEN' = (UDIEN \ {"SUSPI"}) \cup {"WAKEUPI"}
    /\ UENUM' = "control"
    /\ UNCHANGED <<ADDEN, task, pc, ep0, host, wire>>

Interrupt == SUSPI \/ WAKEUPI \/ EORSTI

-----------------------------------------------------------------------------
(* The task.  Steps that only select an endpoint, and what comes next.     *)

Selects ==
    [out_select |-> <<"out", "out">>,
     in_select |-> <<"in", "in">>,
     reset_out_select |-> <<"out", "reset_out">>,
     reset_in_select |-> <<"in", "reset_in">>,
     feature_select |-> <<"in", "feature">>,
     feature_back |-> <<"control", "feature_done">>,
     config_in_select |-> <<"in", "config_in">>,
     config_out_select |-> <<"out", "config_out">>]

ControlSteps ==
    {"poll", "event", "standard", "write", "write_in", "write_status", "written",
     "status", "address", "address_state", "state_test", "state_configured", "state_powered",
     "feature_select", "feature", "feature_back", "feature_done",
     "config_in_select", "config_in", "config_out_select", "config_out",
     "final", "restore"}

\* Where USB_USBTask returns to: VUE_Task returns at once while a reset is due.
After(from) ==
    IF from = "stream" THEN "out" ELSE IF bulk_reset THEN "reset_out_select" ELSE "task"

\* A step of the task that leaves everything alone but pc and what is named.
Goto(from, to) == pc = from /\ pc' = to
OnlyPC == UNCHANGED <<device, task, ep0, ints, host, wire, UENUM>>

Select ==
    /\ pc \in DOMAIN Selects
    /\ UENUM' = Selects[pc][1]
    /\ pc' = Selects[pc][2]
    /\ UNCHANGED <<device, task, ep0, ints, host, wire>>

\* Mutant of SaveEndpoint.
PrevIsControl == prev' = "control"

\* PrevEndpoint = Endpoint_GetCurrentEndpoint() ... Endpoint_SelectEndpoint(PrevEndpoint).
SaveEndpoint == prev' = UENUM
RestoreEndpoint == UENUM' = prev

\* USB_DeviceTask.
EnterUSBTask ==
    /\ pc \in {"usb", "stream"}
    /\ IF USB_DeviceState = "Unattached"
       THEN pc' = After(pc) /\ UNCHANGED <<caller, prev, UENUM>>
       ELSE /\ caller' = pc
            /\ SaveEndpoint
            /\ UENUM' = "control"
            /\ pc' = "poll"
    /\ UNCHANGED <<device, USB_ControlRequest, bulk_reset, left, full, ep0, ints, host, wire>>

LeaveUSBTask ==
    /\ pc = "restore"
    /\ RestoreEndpoint
    /\ pc' = After(caller)
    /\ caller' = "usb" /\ prev' = "control" /\ left' = 0 /\ full' = FALSE
    /\ UNCHANGED <<device, USB_ControlRequest, bulk_reset, ep0, ints, host, wire>>

\* VUE_Task: the device must be connected and configured for it to run.
TaskMayRun == USB_DeviceState = "Configured" /\ ~bulk_reset

EnterTask ==
    /\ Goto("task", IF TaskMayRun THEN "out_select" ELSE "usb")
    /\ OnlyPC

\* The OUT half: any number of operations and of streams, which call
\* USB_USBTask between two packets.
UseOUT ==
    /\ pc = "out" /\ pc' \in {"stream", "in_select"}
    /\ OnlyPC

UseIN == Goto("in", "usb") /\ OnlyPC

\* The bulk reset of the main loop.
ResetOUT == Goto("reset_out", "reset_in_select") /\ OnlyPC
ResetIN ==
    /\ Goto("reset_in", "usb")
    /\ bulk_reset' = FALSE
    /\ UNCHANGED <<device, USB_ControlRequest, caller, prev, left, full, ep0, ints, host, wire,
                   UENUM>>

-----------------------------------------------------------------------------
(* USB_Device_ProcessControlRequest and the handlers.  The flags a step    *)
(* tests are those of the selected endpoint.                               *)

\* Mutants of ClearSETUP, StartStream and EnableAddress.
LeaveSETUP == UNCHANGED RXSTPI
StartUncut(name) == left' = SizeOf(name) /\ full' = FALSE /\ pc' = "write"
EnableAtOnce ==
    /\ Goto("address", "address_state")
    /\ ADDEN' = TRUE
    /\ UNCHANGED <<USB_DeviceState, USB_Device_ConfigurationNumber, task, ep0, ints, host,
                   wire, UENUM>>

SETUPReceived == UENUM = "control" /\ RXSTPI # NoRequest
ClearSETUP == RXSTPI' = NoRequest

\* Endpoint_ClearIN of a bank with this many bytes.
Give(bytes) ==
    /\ TXINI' = FALSE
    /\ inBank' = bytes

Poll ==
    /\ pc = "poll"
    /\ IF SETUPReceived
       THEN USB_ControlRequest' = RXSTPI /\ pc' = "event"
       ELSE pc' = "restore" /\ UNCHANGED USB_ControlRequest
    /\ UNCHANGED <<device, bulk_reset, caller, prev, left, full, ep0, ints, host, wire, UENUM>>

\* The length of a control stream is cut to what the host asks for.
StartStream(name) ==
    /\ left' = Smaller(SizeOf(name), USB_ControlRequest.wLength)
    /\ full' = FALSE
    /\ pc' = "write"

\* EVENT_USB_Device_ControlRequest: a vendor request is taken, whatever it is.
VendorRequest ==
    LET name == USB_ControlRequest.name
    IN /\ pc = "event"
       /\ name \in VendorOut \cup VendorIn
       /\ ClearSETUP
       /\ bulk_reset' = (bulk_reset \/ name \in {"RESET_ALL", "WRITE_DEBUG"})
       /\ IF name \in {"READ_HEADER", "READ_DEBUG"}
          THEN StartStream(name)
          ELSE pc' = "status" /\ UNCHANGED <<left, full>>
       /\ UNCHANGED <<device, USB_ControlRequest, caller, prev, RXOUTI, TXINI, STALLRQ,
                      inBank, ints, host, wire, UENUM>>

OtherRequest ==
    /\ USB_ControlRequest.name \notin VendorOut \cup VendorIn
    /\ Goto("event", "standard")
    /\ OnlyPC

\* The library's turn, if a SETUP is (still, or again) there.
NoStandardRequest ==
    /\ SETUPReceived => USB_ControlRequest.name \notin StandardOut \cup StandardIn
    /\ Goto("standard", "final")
    /\ OnlyPC

SetAddress ==
    /\ Goto("standard", "status") /\ SETUPReceived
    /\ USB_ControlRequest.name \in AddressRequests
    /\ ClearSETUP
    /\ UNCHANGED <<device, task, RXOUTI, TXINI, STALLRQ, inBank, ints, host, wire, UENUM>>

SetConfiguration ==
    /\ Goto("standard", "status") /\ SETUPReceived
    /\ USB_ControlRequest.name \in ConfigurationRequests
    /\ ClearSETUP
    /\ USB_Device_ConfigurationNumber' =
          IF USB_ControlRequest.name = "SET_CONFIGURATION" THEN 1 ELSE 0
    /\ UNCHANGED <<USB_DeviceState, ADDEN, task, RXOUTI, TXINI, STALLRQ, inBank, ints,
                   host, wire, UENUM>>

\* GET_CONFIGURATION, GET_STATUS: one packet.
GetByte ==
    /\ Goto("standard", "status") /\ SETUPReceived
    /\ USB_ControlRequest.name \in {"GET_CONFIGURATION", "GET_STATUS"}
    /\ ClearSETUP
    /\ Give(SizeOf(USB_ControlRequest.name))
    /\ UNCHANGED <<device, task, RXOUTI, STALLRQ, ints, host, wire, UENUM>>

GetDescriptor ==
    /\ pc = "standard" /\ SETUPReceived
    /\ USB_ControlRequest.name \in Descriptors
    /\ ClearSETUP
    /\ StartStream(USB_ControlRequest.name)
    /\ UNCHANGED <<device, USB_ControlRequest, bulk_reset, caller, prev, RXOUTI, TXINI,
                   STALLRQ, inBank, ints, host, wire, UENUM>>

\* CLEAR_FEATURE, SET_FEATURE: of an endpoint's halt selects it and comes back.
ClearSetFeature ==
    /\ pc = "standard" /\ SETUPReceived
    /\ pc' \in {"feature_select", "feature_back"}
    /\ USB_ControlRequest.name = "FEATURE"
    /\ OnlyPC
Feature == Goto("feature", "feature_back") /\ OnlyPC
FeatureDone ==
    /\ Goto("feature_done", "status")
    /\ ClearSETUP
    /\ UNCHANGED <<device, task, RXOUTI, TXINI, STALLRQ, inBank, ints, host, wire, UENUM>>

\* Endpoint_Write_Control_Stream_LE: the loop's condition and its exits, ...
WriteTest ==
    /\ pc = "write"
    /\ pc' = IF left = 0 /\ ~full THEN "write_status"
             ELSE IF USB_DeviceState = "Unattached" \/ SETUPReceived THEN "written"
             ELSE IF RXOUTI THEN "write_status"
             ELSE "write_in"
    /\ OnlyPC

\* Mutant of WriteIN: no empty packet after a last one that is full.
LastNeedsNoMore(bytes) == full' = FALSE

LastPacketFull(bytes) == full' = (bytes = FIXED_CONTROL_ENDPOINT_SIZE)

\* ... a packet, if the bank is free, ...
WriteIN ==
    LET bytes == Smaller(left, FIXED_CONTROL_ENDPOINT_SIZE)
    IN /\ Goto("write_in", "write")
       /\ IF TXINI
          THEN /\ Give(bytes)
               /\ left' = left - bytes
               /\ LastPacketFull(bytes)
          ELSE UNCHANGED <<TXINI, inBank, left, full>>
       /\ UNCHANGED <<device, USB_ControlRequest, bulk_reset, caller, prev, RXSTPI, RXOUTI,
                      STALLRQ, ints, host, wire, UENUM>>

\* ... and the wait for the host's status packet.
WriteStatus ==
    /\ RXOUTI \/ USB_DeviceState = "Unattached"
    /\ Goto("write_status", "written")
    /\ OnlyPC

\* Back in the caller: a descriptor's status packet is cleared unseen.
Written ==
    /\ pc = "written"
    /\ left' = 0 /\ full' = FALSE
    /\ IF USB_ControlRequest.name \in Descriptors
       THEN RXOUTI' = FALSE /\ pc' = "final"
       ELSE pc' = "status" /\ UNCHANGED RXOUTI
    /\ UNCHANGED <<device, USB_ControlRequest, bulk_reset, caller, prev, RXSTPI, TXINI,
                   STALLRQ, inBank, ints, host, wire, UENUM>>

\* Where Endpoint_ClearStatusStage returns to.
AfterStatus ==
    CASE USB_ControlRequest.name \in AddressRequests -> "address"
      [] USB_ControlRequest.name \in ConfigurationRequests -> "state_test"
      [] USB_ControlRequest.name \in VendorOut \cup VendorIn -> "standard"
      [] OTHER -> "final"

\* Endpoint_ClearStatusStage: waits for the packet that ends the transfer.
ClearStatusStage ==
    /\ Goto("status", AfterStatus)
    /\ IF USB_ControlRequest.name \in DeviceToHost
       THEN \/ RXOUTI /\ RXOUTI' = FALSE /\ UNCHANGED <<TXINI, inBank>>
            \/ ~RXOUTI /\ USB_DeviceState = "Unattached" /\ UNCHANGED <<RXOUTI, TXINI, inBank>>
       ELSE \/ TXINI /\ Give(0) /\ UNCHANGED RXOUTI
            \/ ~TXINI /\ USB_DeviceState = "Unattached" /\ UNCHANGED <<RXOUTI, TXINI, inBank>>
    /\ UNCHANGED <<device, task, RXSTPI, STALLRQ, ints, host, wire, UENUM>>

\* The address is enabled when the status packet has gone, and then the state
\* is stored.
EnableAddress ==
    /\ TXINI
    /\ Goto("address", "address_state")
    /\ ADDEN' = TRUE
    /\ UNCHANGED <<USB_DeviceState, USB_Device_ConfigurationNumber, task, ep0, ints, host,
                   wire, UENUM>>
StoreAddressed ==
    /\ Goto("address_state", "final")
    /\ USB_DeviceState' = IF USB_ControlRequest.name = "SET_ADDRESS" THEN "Addressed" ELSE "Default"
    /\ UNCHANGED <<USB_Device_ConfigurationNumber, ADDEN, task, ep0, ints, host, wire, UENUM>>

\* The configuration is looked at, and then the state is stored.
TestConfiguration ==
    /\ Goto("state_test", IF StateOfConfiguration = "Configured"
                          THEN "state_configured" ELSE "state_powered")
    /\ OnlyPC
StoreState ==
    /\ pc \in {"state_configured", "state_powered"}
    /\ pc' = "config_in_select"
    /\ USB_DeviceState' = IF pc = "state_configured" THEN "Configured" ELSE "Powered"
    /\ UNCHANGED <<USB_Device_ConfigurationNumber, ADDEN, task, ep0, ints, host, wire, UENUM>>

\* EVENT_USB_Device_ConfigurationChanged leaves the OUT endpoint selected.
ConfigureIN == Goto("config_in", "config_out_select") /\ OnlyPC
ConfigureOUT == Goto("config_out", "final") /\ OnlyPC

\* A SETUP nobody has cleared is one nobody has handled.
StallUnhandled ==
    /\ Goto("final", "restore")
    /\ IF SETUPReceived
       THEN ClearSETUP /\ STALLRQ' = TRUE
       ELSE UNCHANGED <<RXSTPI, STALLRQ>>
    /\ UNCHANGED <<device, task, RXOUTI, TXINI, inBank, ints, host, wire, UENUM>>

Task ==
    /\ ~Pending
    /\ \/ Select \/ EnterUSBTask \/ LeaveUSBTask \/ EnterTask \/ UseOUT \/ UseIN
       \/ ResetOUT \/ ResetIN
       \/ Poll \/ VendorRequest \/ OtherRequest \/ NoStandardRequest
       \/ SetAddress \/ SetConfiguration \/ GetByte \/ GetDescriptor
       \/ ClearSetFeature \/ Feature \/ FeatureDone
       \/ WriteTest \/ WriteIN \/ WriteStatus \/ Written \/ ClearStatusStage
       \/ EnableAddress \/ StoreAddressed \/ TestConfiguration \/ StoreState
       \/ ConfigureIN \/ ConfigureOUT \/ StallUnhandled

-----------------------------------------------------------------------------
(* The bus, the hardware of endpoint 0 and the host.                       *)

Idle == hphase = "idle"

\* The first bus reset comes 100 ms and more after the device was attached,
\* long after the reset the main loop begins with.
BusReset ==
    /\ IF bus = "new" THEN ~bulk_reset ELSE Resets
    /\ "EORSTI" \notin UDINT
    /\ UDINT' = UDINT \cup {"EORSTI"} \cup (IF asleep THEN {"WAKEUPI"} ELSE {})
    /\ bus' = "idle" /\ asleep' = FALSE
    /\ ADDEN' = FALSE
    /\ RXSTPI' = NoRequest /\ RXOUTI' = FALSE /\ TXINI' = TRUE /\ STALLRQ' = FALSE
    /\ inBank' = 0
    /\ hreq' = NoRequest /\ hphase' = "idle" /\ hgot' = 0 /\ haddr' = FALSE
    /\ UNCHANGED <<USB_DeviceState, USB_Device_ConfigurationNumber, task, UDIEN, pc, UENUM>>

\* Traffic after a silence.  A wake-up takes back the flag of the suspend.
Activity ==
    /\ bus = "idle" /\ ~Pending
    /\ bus' = "active" /\ asleep' = FALSE
    /\ UDINT' = (UDINT \ {"SUSPI"}) \cup {"WAKEUPI"}
    /\ UNCHANGED <<device, task, ep0, UDIEN, host, pc, UENUM>>

\* The program waits for the host inside a control request.
Waiting ==
    \/ pc \in {"status", "write_status"} /\ USB_ControlRequest.name \in DeviceToHost /\ ~RXOUTI
    \/ pc \in {"write", "write_in"} /\ ~TXINI /\ ~RXOUTI
    \/ pc = "address" /\ ~TXINI

\* 3 ms of silence, in which the program finishes all it need not wait for.
Suspend ==
    /\ bus = "new" \/ Suspends
    /\ Idle /\ ~asleep /\ ~Pending
    /\ pc \notin ControlSteps \cup DOMAIN Selects \/ Waiting
    /\ bus' = IF bus = "new" THEN "new" ELSE "idle"
    /\ asleep' = TRUE
    /\ UDINT' = (UDINT \ {"WAKEUPI"}) \cup {"SUSPI"}
    /\ UNCHANGED <<device, task, ep0, UDIEN, host, pc, UENUM>>

\* A SETUP packet is always taken; it clears all that was there.  The host
\* gives an address only to a device that has none.
Setup ==
    /\ Idle /\ bus = "active" /\ ~Pending
    /\ Hasty \/ pc \notin ControlSteps
    /\ hreq' \in Requests
    /\ hreq'.name \in AddressRequests => ~ADDEN
    /\ hphase' = IF hreq'.wLength > 0 THEN "in" ELSE "status_in"
    /\ hgot' = 0
    /\ haddr' = (haddr \/ hreq'.name \in AddressRequests)
    /\ RXSTPI' = hreq' /\ RXOUTI' = FALSE /\ TXINI' = TRUE /\ STALLRQ' = FALSE
    /\ inBank' = 0
    /\ UNCHANGED <<device, task, ints, wire, pc, UENUM>>

\* An IN packet; a short one, or the last that was asked for, ends the data.
ReceiveIN ==
    /\ hphase \in {"in", "status_in"} /\ ~TXINI /\ ~STALLRQ
    /\ TXINI' = TRUE
    /\ inBank' = 0
    /\ hgot' = hgot + inBank
    /\ hphase' = IF hphase = "status_in" THEN "idle"
                 ELSE IF inBank = FIXED_CONTROL_ENDPOINT_SIZE /\ hgot' < hreq.wLength
                 THEN "in" ELSE "status_out"
    /\ UNCHANGED <<device, task, RXSTPI, RXOUTI, STALLRQ, ints, wire, hreq, haddr, pc, UENUM>>

\* The status packet of a read; what was still to be sent is dropped.
SendStatus ==
    /\ hphase = "status_out" /\ RXSTPI = NoRequest /\ ~RXOUTI /\ ~STALLRQ
    /\ RXOUTI' = TRUE /\ TXINI' = TRUE
    /\ inBank' = 0
    /\ hphase' = "idle"
    /\ UNCHANGED <<device, task, RXSTPI, STALLRQ, ints, wire, hreq, hgot, haddr, pc, UENUM>>

SeeStall ==
    /\ ~Idle /\ STALLRQ
    /\ hphase' = "idle"
    /\ UNCHANGED <<device, task, ep0, ints, wire, hreq, hgot, haddr, pc, UENUM>>

GiveUp ==
    /\ Aborts /\ ~Idle
    /\ hphase' = "idle"
    /\ UNCHANGED <<device, task, ep0, ints, wire, hreq, hgot, haddr, pc, UENUM>>

HostGoesOn == ReceiveIN \/ SendStatus \/ SeeStall

Next ==
    \/ Interrupt \/ Task
    \/ BusReset \/ Activity \/ Suspend
    \/ Setup \/ HostGoesOn \/ GiveUp

Spec == Init /\ [][Next]_vars

\* The processor runs, and the host goes on with the request it has begun.
FairSpec == Spec /\ WF_vars(Interrupt) /\ WF_vars(Task) /\ WF_vars(HostGoesOn)

\* A host that has given up goes on to its next request.
RetrySpec == FairSpec /\ WF_vars(Setup)

-----------------------------------------------------------------------------

TypeOK ==
    /\ USB_DeviceState \in {"Unattached", "Powered", "Default", "Addressed", "Configured"}
    /\ USB_Device_ConfigurationNumber \in {0, 1}
    /\ {USB_ControlRequest, RXSTPI, hreq} \subseteq Requests \cup {NoRequest}
    /\ {bulk_reset, full, ADDEN, RXOUTI, TXINI, STALLRQ, asleep, haddr} \subseteq BOOLEAN
    /\ pc \in ControlSteps \cup DOMAIN Selects
            \cup {"usb", "task", "out", "stream", "in", "reset_out", "reset_in"}
    /\ caller \in {"usb", "stream"}
    /\ {prev, UENUM} \subseteq {"control", "in", "out"}
    /\ {left, inBank, hgot} \subseteq 0 .. 64
    /\ UDINT \cup UDIEN \subseteq {"SUSPI", "WAKEUPI", "EORSTI"}
    /\ bus \in {"new", "idle", "active"}
    /\ hphase \in {"idle", "in", "status_in", "status_out"}

\* The steps that touch the registers of each endpoint, but "final".
StepsOf ==
    [control |-> {"poll", "event", "standard", "write", "write_in", "write_status",
                  "written", "status", "address", "feature_done"},
     in |-> {"in", "reset_in", "feature", "config_in"},
     out |-> {"out", "stream", "reset_out", "config_out"}]

\* An operation on the selected endpoint finds the one it is meant for
\* selected, with control requests served in the middle of a stream.  One does
\* not: after SET_CONFIGURATION the test for a SETUP nobody has cleared looks at
\* the OUT endpoint, where there never is one, and so leaves that endpoint and
\* a SETUP that has come to endpoint 0 alone.
SelectionHeld ==
    /\ \A e \in DOMAIN StepsOf : pc \in StepsOf[e] => UENUM = e
    /\ pc = "final" =>
          \/ UENUM = "control"
          \/ UENUM = "out" /\ USB_ControlRequest.name \in ConfigurationRequests

\* A read ends with as many bytes as there are, or as were asked for.
ReplyComplete ==
    hphase = "status_out" => hgot = Smaller(SizeOf(hreq.name), hreq.wLength)

\* Only a request no handler takes is stalled.
StallsUnknown == ~Idle /\ STALLRQ => hreq.name \notin Handled

\* The device is never lost: once it has seen a bus reset it takes itself for
\* unattached only while the bus is asleep, whatever order resets, silences
\* and wake-ups come in and whichever interrupts are disabled meanwhile.
NeverLost ==
    bus # "new" /\ ~Pending /\ USB_DeviceState = "Unattached" => asleep

\* The device goes by an address only if the host has given it one since the
\* last bus reset: so for one reset (Resets = FALSE), but USB_Device_SetAddress
\* overwrites what a reset in its status stage has stored.
AddressFromHost ==
    ADDEN \/ USB_DeviceState = "Addressed" => haddr \/ Pending

\* The device answers to its new address only after the host has got the
\* status packet of SET_ADDRESS, which it asks for at the old one.
AddressAfterStatus == [][~ADDEN /\ ADDEN' => Idle]_vars

\* VUE_Task runs only in a device the host has configured: so for a host that
\* neither suspends nor resets the bus nor takes the configuration back; the
\* wake-up interrupt and SET_CONFIGURATION 0 take a device with an address for
\* configured, and a reset may come just before the state is stored.
TaskRunsConfigured ==
    [][pc = "task" /\ pc' = "out_select" => USB_Device_ConfigurationNumber # 0]_vars

\* A control request is always finished and the main loop goes on, if the host
\* goes on with it or stops at its STALL; not so the vendor's GET_STATUS, nor
\* one the host gives up.
RequestsEnd == pc = "poll" ~> pc = "restore"
=============================================================================
