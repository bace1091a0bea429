---------------------------- MODULE USBDeviceProofs ----------------------------
(***************************************************************************)
(* The endpoint selector under requests served in the middle of a stream,  *)
(* the state of the device under any order of resets and suspends, the     *)
(* control requests of a host that begins them one after the other, the    *)
(* types for every host, and addresses and configurations if the bus is    *)
(* reset but once.                                                         *)
(***************************************************************************)
EXTENDS USBDevice, TLAPS

-----------------------------------------------------------------------------
(* NeverLost, for every host.                                              *)

\* A flag of a suspend that is over is one of a bus reset still to be served;
\* a device that takes itself for unattached will be told of a wake-up.
AwakeInv ==
    /\ "EORSTI" \in UDIEN
    /\ "SUSPI" \in UDINT /\ ~asleep => "EORSTI" \in UDINT
    /\ bus # "new" /\ USB_DeviceState = "Unattached" =>
          "WAKEUPI" \in UDIEN \/ "EORSTI" \in UDINT
    /\ bus # "new" /\ USB_DeviceState = "Unattached" /\ ~asleep =>
          "WAKEUPI" \in UDINT \/ "EORSTI" \in UDINT

LEMMA AwakeInit == Init => AwakeInv
BY DEF Init, AwakeInv

\* The task changes neither flags nor bus, and stores no state of a device
\* that is not attached.
LEMMA TaskStores ==
    ASSUME Task
    PROVE  /\ UNCHANGED <<UDINT, UDIEN, bus, asleep>>
           /\ USB_DeviceState' \in
                 {USB_DeviceState, "Default", "Addressed", "Configured", "Powered"}
BY DEF Task, OnlyPC, device, ints, wire, Select, EnterUSBTask, LeaveUSBTask, EnterTask, UseOUT,
       UseIN, ResetOUT, ResetIN, Poll, VendorRequest, OtherRequest, NoStandardRequest, SetAddress,
       SetConfiguration, GetByte, GetDescriptor, ClearSetFeature, Feature, FeatureDone, WriteTest,
       WriteIN, WriteStatus, Written, ClearStatusStage, EnableAddress, StoreAddressed,
       TestConfiguration, StoreState, ConfigureIN, ConfigureOUT, StallUnhandled

LEMMA AwakeStep == AwakeInv /\ [Next]_vars => AwakeInv'
<1> SUFFICES ASSUME AwakeInv, [Next]_vars PROVE AwakeInv'
  OBVIOUS
<1> USE DEF AwakeInv
<1>1. CASE SUSPI
  BY <1>1 DEF SUSPI, wire
<1>2. CASE WAKEUPI
  BY <1>2 DEF WAKEUPI, wire, StateOfConfiguration
<1>3. CASE EORSTI
  BY <1>3 DEF EORSTI, wire
<1>4. CASE Task
  BY <1>4, TaskStores
<1>5. CASE BusReset
  BY <1>5 DEF BusReset
<1>6. CASE Activity
  BY <1>6 DEF Activity, Pending, device
<1>7. CASE Suspend
  BY <1>7 DEF Suspend, device
<1>8. CASE Setup \/ HostGoesOn \/ GiveUp
  BY <1>8 DEF Setup, HostGoesOn, ReceiveIN, SendStatus, SeeStall, GiveUp, device, ints, wire
<1>9. CASE UNCHANGED vars
  BY <1>9 DEF vars, device, ints, wire
<1> QED
  BY <1>1, <1>2, <1>3, <1>4, <1>5, <1>6, <1>7, <1>8, <1>9 DEF Next, Interrupt

\* After its first bus reset the device takes itself for unattached only on a
\* bus that is asleep, whatever the host does.
THEOREM DeviceNeverLost == Spec => []NeverLost
<1>1. AwakeInv => NeverLost
  BY DEF AwakeInv, NeverLost, Pending
<1> QED
  BY <1>1, AwakeInit, AwakeStep, PTL DEF Spec
-----------------------------------------------------------------------------
(* Which requests get where, for every host.                               *)

\* Requests that are answered by a stream.
Streamed == Descriptors \cup {"READ_HEADER", "READ_DEBUG"}

LEMMA RequestLength ==
    ASSUME NEW r \in Requests
    PROVE  /\ r.wLength \in Nat
           /\ r.wLength = 0 <=> r.name \notin DeviceToHost
           /\ r # NoRequest
<1>1. CASE r \in [name : Names \cap DeviceToHost, wLength : Lengths]
  <2>1. r.name \in DeviceToHost /\ r.wLength \in Nat \ {0}
    BY <1>1, RequestAssumption
  <2> QED
    BY <2>1 DEF NoRequest
<1>2. CASE r \in [name : Names \ DeviceToHost, wLength : {0}]
  <2>1. r.name \in Names /\ r.name \notin DeviceToHost /\ r.wLength = 0
    BY <1>2
  <2>2. r.name # "none"
    BY <2>1, RequestAssumption DEF Handled, Unhandled, VendorOut, VendorIn, StandardOut,
                                   StandardIn, AddressRequests, ConfigurationRequests,
                                   Descriptors, DescriptorSize
  <2> QED
    BY <2>1, <2>2 DEF NoRequest
<1> QED
  BY <1>1, <1>2 DEF Requests

\* The requests are told apart by their names.
LEMMA NamesApart ==
    /\ "none" \notin Handled
    /\ (VendorOut \cup VendorIn) \cap (StandardOut \cup StandardIn) = {}
    /\ Streamed \subseteq DeviceToHost
    /\ {"GET_CONFIGURATION", "GET_STATUS"} \subseteq DeviceToHost
    /\ (AddressRequests \cup ConfigurationRequests \cup {"FEATURE"})
          \cap (DeviceToHost \cup VendorOut \cup VendorIn \cup Streamed) = {}
    /\ AddressRequests \cap ConfigurationRequests = {}
    /\ Handled = VendorOut \cup VendorIn \cup StandardOut \cup StandardIn
    /\ Descriptors \subseteq Streamed /\ {"READ_HEADER", "READ_DEBUG"} \subseteq Streamed
BY DEF Handled, VendorOut, VendorIn, StandardOut, StandardIn, AddressRequests,
       ConfigurationRequests, DeviceToHost, Streamed, Descriptors, DescriptorSize

\* Steps with endpoint 0 selected, but those between two selections.
ControlSelected ==
    StepsOf.control \cup {"address_state", "state_test", "state_configured",
                         "state_powered", "feature_select", "config_in_select"}

\* Steps of a request that sets the configuration.
Configures ==
    {"state_test", "state_configured", "state_powered", "config_in_select", "config_in",
     "config_out_select", "config_out"}

\* Which requests get where, and with endpoint 0 selected.
ServeInv ==
    /\ {USB_ControlRequest, RXSTPI, hreq} \subseteq Requests \cup {NoRequest}
    /\ hphase \in {"idle", "in", "status_in", "status_out"}
    /\ pc \in ControlSelected => UENUM = "control"
    /\ pc \in {"write", "write_in", "write_status", "written"} =>
          USB_ControlRequest.name \in Streamed
    /\ pc \in Configures => USB_ControlRequest.name \in ConfigurationRequests
    /\ pc = "final" /\ USB_ControlRequest.name \notin ConfigurationRequests => UENUM = "control"
    /\ ~Idle /\ pc = "event" => RXSTPI # NoRequest

LEMMA ServeInit == Init => ServeInv
BY DEF Init, ServeInv, ControlSelected, StepsOf, Configures, Idle

\* What a step of the task does to the requests and the host.
LEMMA TaskServes ==
    ASSUME Task
    PROVE  /\ UNCHANGED <<hreq, hphase, hgot>>
           /\ RXSTPI' \in {RXSTPI, NoRequest}
           /\ Poll \/ UNCHANGED USB_ControlRequest
<1>1. UNCHANGED <<hreq, hphase, hgot>> /\ RXSTPI' \in {RXSTPI, NoRequest}
  BY DEF Task, OnlyPC, ep0, host, ClearSETUP, Select, EnterUSBTask, LeaveUSBTask, EnterTask,
       UseOUT, UseIN, ResetOUT, ResetIN, Poll, VendorRequest, OtherRequest, NoStandardRequest,
       SetAddress, SetConfiguration, GetByte, GetDescriptor, ClearSetFeature, Feature, FeatureDone,
       WriteTest, WriteIN, WriteStatus, Written, ClearStatusStage, EnableAddress, StoreAddressed,
       TestConfiguration, StoreState, ConfigureIN, ConfigureOUT, StallUnhandled
<1>2. Poll \/ UNCHANGED USB_ControlRequest
  BY DEF Task, OnlyPC, task, Select, EnterUSBTask, LeaveUSBTask, EnterTask, UseOUT, UseIN,
       ResetOUT, ResetIN, VendorRequest, OtherRequest, NoStandardRequest, SetAddress,
       SetConfiguration, GetByte, GetDescriptor, ClearSetFeature, Feature, FeatureDone, WriteTest,
       WriteIN, WriteStatus, Written, ClearStatusStage, EnableAddress, StoreAddressed,
       TestConfiguration, StoreState, ConfigureIN, ConfigureOUT, StallUnhandled
<1> QED
  BY <1>1, <1>2

LEMMA ServeTask ==
    ASSUME ServeInv, Task
    PROVE  ServeInv'
<1>1. /\ {USB_ControlRequest, RXSTPI, hreq}' \subseteq Requests \cup {NoRequest}
      /\ hphase' \in {"idle", "in", "status_in", "status_out"}
  <2>1. USB_ControlRequest' \in {USB_ControlRequest, RXSTPI}
    BY TaskServes DEF Poll
  <2> QED
    BY <2>1, TaskServes DEF ServeInv
<1>2. CASE Poll
  <2>1. /\ pc = "poll" /\ pc' \in {"event", "restore"} /\ UNCHANGED <<UENUM, RXSTPI, hphase>>
        /\ pc' = "event" => RXSTPI # NoRequest
    BY <1>2 DEF Poll, SETUPReceived, ep0, host
  <2>2. UENUM = "control"
    BY <2>1 DEF ServeInv, ControlSelected, StepsOf
  <2> QED
    BY <1>1, <2>1, <2>2 DEF ServeInv, Configures
<1>3. CASE Select \/ EnterUSBTask \/ LeaveUSBTask
  <2>1. /\ pc' \in ControlSelected => UENUM' = "control"
        /\ pc' \notin {"write", "write_in", "write_status", "written", "final", "event"}
        /\ pc' \in Configures => pc \in Configures
    BY <1>3 DEF Select, Selects, EnterUSBTask, LeaveUSBTask, After, ControlSelected, StepsOf,
                Configures
  <2>2. UNCHANGED USB_ControlRequest
    BY <1>3 DEF Select, EnterUSBTask, LeaveUSBTask, task
  <2> QED
    BY <1>1, <2>1, <2>2 DEF ServeInv
<1>4. CASE \/ EnterTask \/ UseOUT \/ UseIN \/ ResetOUT \/ ResetIN
  <2>1. /\ pc' \notin ControlSelected \cup Configures
        /\ pc' \notin {"write", "write_in", "write_status", "written", "final", "event"}
    BY <1>4 DEF EnterTask, UseOUT, UseIN, ResetOUT, ResetIN, Goto, ControlSelected, StepsOf,
                Configures
  <2> QED
    BY <1>1, <2>1 DEF ServeInv
<1>5. ASSUME ~(\/ Poll \/ Select \/ EnterUSBTask \/ LeaveUSBTask
               \/ EnterTask \/ UseOUT \/ UseIN \/ ResetOUT \/ ResetIN)
      PROVE  ServeInv'
  <2>1. UNCHANGED <<USB_ControlRequest, UENUM>>
    BY <1>5, TaskServes DEF Task, OnlyPC, VendorRequest, OtherRequest, NoStandardRequest,
                            SetAddress, SetConfiguration, GetByte, GetDescriptor, ClearSetFeature,
                            Feature, FeatureDone, WriteTest, WriteIN, WriteStatus, Written,
                            ClearStatusStage, EnableAddress, StoreAddressed, TestConfiguration,
                            StoreState, ConfigureIN, ConfigureOUT, StallUnhandled
  <2>2. /\ pc' # "event"
        /\ pc' \in ControlSelected => pc \in ControlSelected
        /\ pc' \in {"write", "write_in", "write_status", "written"} =>
              \/ pc \in {"write", "write_in", "write_status", "written"}
              \/ USB_ControlRequest.name \in Streamed
        /\ pc' \in Configures =>
              \/ pc \in Configures
              \/ USB_ControlRequest.name \in ConfigurationRequests
        /\ pc' = "final" => pc \in ControlSelected \/ pc \in Configures
    BY <1>5 DEF Task, Goto, StartStream, AfterStatus, ControlSelected, StepsOf, Configures,
                Streamed, VendorRequest, OtherRequest, NoStandardRequest, SetAddress,
                SetConfiguration, GetByte, GetDescriptor, ClearSetFeature, Feature, FeatureDone,
                WriteTest, WriteIN, WriteStatus, Written, ClearStatusStage, EnableAddress,
                StoreAddressed, TestConfiguration, StoreState, ConfigureIN, ConfigureOUT,
                StallUnhandled
  <2> QED
    BY <1>1, <2>1, <2>2 DEF ServeInv
<1> QED
  BY <1>2, <1>3, <1>4, <1>5

LEMMA ServeStep ==
    ASSUME ServeInv, [Next]_vars
    PROVE  ServeInv'
<1>1. CASE Task
  BY <1>1, ServeTask
<1>2. CASE Interrupt
  BY <1>2 DEF Interrupt, SUSPI, WAKEUPI, EORSTI, ServeInv, Idle, task, ep0, host
<1>3. CASE BusReset \/ Setup
  <2>1. /\ UNCHANGED <<USB_ControlRequest, pc, UENUM>>
        /\ RXSTPI' \in Requests \cup {NoRequest} /\ hreq' \in Requests \cup {NoRequest}
        /\ \/ hphase' = "idle"
           \/ hphase' \in {"in", "status_in"} /\ RXSTPI' \in Requests
    BY <1>3 DEF BusReset, Setup, task
  <2> QED
    BY <2>1, RequestLength DEF ServeInv, Idle
<1>4. CASE Activity \/ Suspend \/ HostGoesOn \/ GiveUp \/ UNCHANGED vars
  <2>1. /\ UNCHANGED <<USB_ControlRequest, pc, UENUM, RXSTPI, hreq>>
        /\ \/ hphase' \in {hphase, "idle"}
           \/ hphase # "idle" /\ hphase' \in {"in", "status_out"}
    BY <1>4 DEF Activity, Suspend, HostGoesOn, ReceiveIN, SendStatus, SeeStall, GiveUp, vars, task,
                ep0, host
  <2> QED
    BY <2>1 DEF ServeInv, Idle
<1> QED
  BY <1>1, <1>2, <1>3, <1>4 DEF Next

-----------------------------------------------------------------------------
(* SelectionHeld, for every host that resets the bus but once.             *)

\* Steps of the bulk reset.
ResetSteps == {"reset_out_select", "reset_out", "reset_in_select", "reset_in"}

\* Every step has its endpoint selected, and the selector USB_USBTask will
\* restore is that of the stream it was called from.
SelectInv ==
    /\ pc \in ControlSelected => UENUM = "control"
    /\ pc \in StepsOf.in => UENUM = "in"
    /\ pc \in StepsOf.out => UENUM = "out"
    /\ pc = "final" => UENUM \in {"control", "out"}
    /\ pc \in ControlSteps /\ caller = "stream" => prev = "out"

\* The bus reset, which moves the selector, finds the main loop between two
\* calls: a device that has seen none takes itself for unattached.
FirstResetInv ==
    /\ "EORSTI" \in UDIEN
    /\ "EORSTI" \in UDINT => bus # "new" /\ pc \in {"usb", "task"}
    /\ bus = "new" =>
          /\ USB_DeviceState = "Unattached"
          /\ "WAKEUPI" \notin UDINT
          /\ pc \in {"usb", "task"} \cup ResetSteps
          /\ pc \in ResetSteps => bulk_reset

SInv == SelectInv /\ FirstResetInv

LEMMA SelectInit == Init => SInv
BY DEF Init, SInv, SelectInv, FirstResetInv, ControlSelected, StepsOf, ControlSteps, ResetSteps

\* While an interrupt waits the task does not move.
LEMMA NoReset == SInv /\ Task => "EORSTI" \notin UDINT
BY DEF SInv, FirstResetInv, Task, Pending

\* The steps of the task one by one: what they select and where they go.
LEMMA TaskSelect ==
    ASSUME SInv, Task
    PROVE  SelectInv'
<1> USE DEF SInv
<1>1. CASE Select
  BY <1>1 DEF Select, Selects, SelectInv, ControlSelected, StepsOf, ControlSteps, task
<1>2. CASE EnterUSBTask \/ LeaveUSBTask
  BY <1>2 DEF EnterUSBTask, LeaveUSBTask, SaveEndpoint, RestoreEndpoint, After, SelectInv,
              ControlSelected, StepsOf, ControlSteps
<1>3. CASE EnterTask \/ UseOUT \/ UseIN \/ ResetOUT \/ ResetIN
  BY <1>3 DEF EnterTask, UseOUT, UseIN, ResetOUT, ResetIN, Goto, OnlyPC, task, SelectInv,
              ControlSelected, StepsOf, ControlSteps
<1>4. CASE \/ Poll \/ VendorRequest \/ OtherRequest \/ NoStandardRequest
           \/ SetAddress \/ SetConfiguration \/ GetByte \/ GetDescriptor
  <2>1. /\ pc \in {"poll", "event", "standard"}
        /\ pc' \in {"event", "restore", "write", "status", "standard", "final"}
        /\ UNCHANGED <<UENUM, caller, prev>>
    BY <1>4 DEF Poll, VendorRequest, OtherRequest, NoStandardRequest, SetAddress,
                SetConfiguration, GetByte, GetDescriptor, StartStream, Goto, OnlyPC, task
  <2> QED
    BY <2>1 DEF SelectInv, ControlSelected, StepsOf, ControlSteps
<1>5. CASE ClearSetFeature \/ Feature \/ FeatureDone
  BY <1>5 DEF ClearSetFeature, Feature, FeatureDone, Goto, OnlyPC, task, SelectInv,
              ControlSelected, StepsOf, ControlSteps
<1>6. CASE WriteTest \/ WriteIN \/ WriteStatus \/ Written \/ ClearStatusStage
  <2>1. /\ pc \in {"write", "write_in", "write_status", "written", "status"}
        /\ pc' \in {"write", "write_in", "write_status", "written", "status", "address",
                    "state_test", "standard", "final"}
        /\ UNCHANGED <<UENUM, caller, prev>>
    BY <1>6 DEF WriteTest, WriteIN, WriteStatus, Written, ClearStatusStage, AfterStatus, Goto,
                OnlyPC, task
  <2> QED
    BY <2>1 DEF SelectInv, ControlSelected, StepsOf, ControlSteps
<1>7. CASE EnableAddress \/ StoreAddressed \/ TestConfiguration \/ StoreState
  BY <1>7 DEF EnableAddress, StoreAddressed, TestConfiguration, StoreState, Goto, OnlyPC, task,
              SelectInv, ControlSelected, StepsOf, ControlSteps
<1>8. CASE ConfigureIN \/ ConfigureOUT \/ StallUnhandled
  BY <1>8 DEF ConfigureIN, ConfigureOUT, StallUnhandled, Goto, OnlyPC, task, SelectInv,
              ControlSelected, StepsOf, ControlSteps
<1> QED
  BY <1>1, <1>2, <1>3, <1>4, <1>5, <1>6, <1>7, <1>8 DEF Task

\* Before the first bus reset the main loop performs its own reset and then
\* goes round: USB_USBTask and VUE_Task return at once.
LEMMA TaskFirstReset ==
    ASSUME SInv, Task
    PROVE  FirstResetInv'
<1>1. "EORSTI" \notin UDINT /\ UNCHANGED <<UDINT, UDIEN, bus>>
  BY NoReset, TaskStores
<1>2. CASE bus # "new"
  BY <1>1, <1>2 DEF SInv, FirstResetInv
<1>3. CASE bus = "new"
  <2>1. /\ USB_DeviceState = "Unattached" /\ pc \in {"usb", "task"} \cup ResetSteps
        /\ pc \in ResetSteps => bulk_reset
    BY <1>3 DEF SInv, FirstResetInv
  <2>2. Select \/ EnterUSBTask \/ EnterTask \/ ResetOUT \/ ResetIN
    BY <2>1 DEF ResetSteps, Task, LeaveUSBTask, UseOUT, UseIN, Poll, VendorRequest, OtherRequest,
                NoStandardRequest, SetAddress, SetConfiguration, GetByte, GetDescriptor,
                ClearSetFeature, Feature, FeatureDone, WriteTest, WriteIN, WriteStatus, Written,
                ClearStatusStage, EnableAddress, StoreAddressed, TestConfiguration, StoreState,
                ConfigureIN, ConfigureOUT, StallUnhandled, Goto
  <2>3. /\ USB_DeviceState' = "Unattached" /\ pc' \in {"usb", "task"} \cup ResetSteps
        /\ pc' \in ResetSteps => bulk_reset'
    BY <2>1, <2>2 DEF Select, Selects, EnterUSBTask, After, EnterTask, TaskMayRun, ResetOUT,
                      ResetIN,
                      Goto, OnlyPC, ResetSteps, device, task
  <2> QED
    BY <1>1, <1>3, <2>3 DEF SInv, FirstResetInv
<1> QED
  BY <1>2, <1>3

LEMMA SelectStep == Resets = FALSE /\ SInv /\ [Next]_vars => SInv'
<1> SUFFICES ASSUME Resets = FALSE, SInv, [Next]_vars PROVE SInv'
  OBVIOUS
<1> USE DEF SInv
<1>1. CASE Task
  BY <1>1, TaskSelect, TaskFirstReset
<1>2. CASE SUSPI \/ WAKEUPI
  BY <1>2 DEF SUSPI, WAKEUPI, StateOfConfiguration, SelectInv, FirstResetInv, task, wire
<1>3. CASE EORSTI
  <2>1. bus # "new" /\ pc \in {"usb", "task"}
    BY <1>3 DEF EORSTI, FirstResetInv
  <2> QED
    BY <1>3, <2>1 DEF EORSTI, SelectInv, FirstResetInv, ControlSelected, StepsOf, ControlSteps,
                      task,
                      wire
<1>4. CASE BusReset
  <2>1. bus = "new" /\ pc \in {"usb", "task"}
    BY <1>4 DEF BusReset, FirstResetInv
  <2> QED
    BY <1>4, <2>1 DEF BusReset, SelectInv, FirstResetInv, ControlSelected, StepsOf, ControlSteps,
                      task
<1>5. CASE Activity \/ Suspend
  BY <1>5 DEF Activity, Suspend, SelectInv, FirstResetInv, device, task
<1>6. CASE Setup \/ HostGoesOn \/ GiveUp
  BY <1>6 DEF Setup, HostGoesOn, ReceiveIN, SendStatus, SeeStall, GiveUp, SelectInv,
              FirstResetInv, device, task, ints, wire
<1>7. CASE UNCHANGED vars
  BY <1>7 DEF vars, SelectInv, FirstResetInv, device, task, ints, wire
<1> QED
  BY <1>1, <1>2, <1>3, <1>4, <1>5, <1>6, <1>7 DEF Next, Interrupt

\* Requests served in the middle of a stream, suspends and aborted requests
\* leave every operation on the endpoint it is meant for, if the host resets
\* the bus once only; all but the last test for a SETUP (DeviceStandardReq.c:118),
\* which after SET_CONFIGURATION, and after no other request, looks at the OUT
\* endpoint.
THEOREM SelectionAlwaysHeld ==
    ASSUME Resets = FALSE PROVE Spec => []SelectionHeld
<1>1. SInv /\ ServeInv => SelectionHeld
  BY DEF SInv, SelectInv, ServeInv, SelectionHeld, ControlSelected, StepsOf
<1>2. SInv /\ ServeInv /\ [Next]_vars => SInv' /\ ServeInv'
  BY SelectStep, ServeStep
<1> QED
  BY <1>1, <1>2, SelectInit, ServeInit, PTL DEF Spec

-----------------------------------------------------------------------------
(* Control requests, for a host that begins none while the last one is     *)
(* still being finished, whatever else it does.                            *)

\* Steps between USB_ControlRequest being read and PrevEndpoint restored, ...
Served == ControlSteps \ {"poll", "restore"}

\* ... those after Endpoint_ClearSETUP, and those of CLEAR_ and SET_FEATURE
\* before it, ...
Cleared ==
    {"write", "write_in", "write_status", "written", "status", "address", "address_state",
     "state_test", "state_configured", "state_powered", "config_in_select", "config_in",
     "config_out_select", "config_out"}
Featured == {"feature_select", "feature", "feature_back", "feature_done"}

RequestTypes ==
    /\ {USB_ControlRequest, RXSTPI, hreq} \subseteq Requests \cup {NoRequest}
    /\ hphase \in {"idle", "in", "status_in", "status_out"}
    /\ ~Idle => hreq \in Requests /\ (hphase = "status_in" <=> hreq.wLength = 0)

\* Which requests get where.  One whose SETUP is there at the end is unknown.
StepInv ==
    /\ pc \in Cleared => RXSTPI = NoRequest
    /\ pc \in {"write", "write_in", "write_status", "written"} =>
          USB_ControlRequest.name \in Streamed
    /\ pc = "address" => USB_ControlRequest.name \in AddressRequests
    /\ pc \in Featured => USB_ControlRequest.name = "FEATURE"
    /\ pc = "standard" /\ RXSTPI # NoRequest =>
          USB_ControlRequest.name \notin VendorOut \cup VendorIn
    /\ pc = "final" /\ RXSTPI # NoRequest => USB_ControlRequest.name \notin Handled

\* While the host waits for its request, the device works on that one and on
\* no other, and gives a status packet once.
LiveInv ==
    ~Idle =>
      /\ RXSTPI # NoRequest => RXSTPI = hreq /\ TXINI /\ ~STALLRQ /\ hphase # "status_out"
      /\ pc \in Served => USB_ControlRequest = hreq /\ ~STALLRQ
      /\ pc \in {"event"} \cup Featured => RXSTPI # NoRequest
      /\ pc = "status" /\ hphase = "status_in" => TXINI
      /\ pc = "address" => ~TXINI
      /\ STALLRQ => hreq.name \notin Handled

ControlInv == RequestTypes /\ StepInv /\ LiveInv

LEMMA ControlInit == Init => ControlInv
BY DEF Init, ControlInv, RequestTypes, StepInv, LiveInv, Idle, Cleared, Featured

-----------------------------------------------------------------------------

\* A step of the task that goes on without a flag of endpoint 0.
LEMMA ControlMove ==
    ASSUME ControlInv,
           UNCHANGED <<USB_ControlRequest, RXSTPI, RXOUTI, TXINI, STALLRQ, inBank, hreq, hphase, hgot>>,
           pc' \in Served => pc \in Served,
           pc' \in Cleared => pc \in Cleared,
           pc' \in Featured =>
              \/ pc \in Featured
              \/ pc = "standard" /\ RXSTPI # NoRequest /\ USB_ControlRequest.name = "FEATURE",
           pc' \in {"write", "write_in", "write_status", "written"} =>
              pc \in {"write", "write_in", "write_status", "written"},
           pc' = "standard" => pc = "event" /\ USB_ControlRequest.name \notin VendorOut \cup VendorIn,
           pc' = "final" /\ RXSTPI # NoRequest =>
              pc = "standard" /\ USB_ControlRequest.name \notin StandardOut \cup StandardIn,
           pc' \notin {"event", "status", "address"}
    PROVE  ControlInv'
<1>1. RequestTypes'
  BY DEF ControlInv, RequestTypes, Idle
<1>2. StepInv'
  <2>1. pc' \in Featured => USB_ControlRequest'.name = "FEATURE"
    BY DEF ControlInv, StepInv
  <2>2. pc' = "final" /\ RXSTPI' # NoRequest => USB_ControlRequest'.name \notin Handled
    BY NamesApart DEF ControlInv, StepInv
  <2> QED
    BY <2>1, <2>2 DEF ControlInv, StepInv
<1>3. LiveInv'
  BY DEF ControlInv, LiveInv, Idle
<1> QED
  BY <1>1, <1>2, <1>3 DEF ControlInv

LEMMA ControlMoves ==
    ASSUME ControlInv, ServeInv,
           \/ Select \/ EnterUSBTask \/ LeaveUSBTask \/ EnterTask \/ UseOUT \/ UseIN
           \/ ResetOUT \/ ResetIN \/ OtherRequest \/ NoStandardRequest
           \/ ClearSetFeature \/ Feature \/ WriteTest \/ WriteStatus
           \/ EnableAddress \/ StoreAddressed \/ TestConfiguration \/ StoreState
           \/ ConfigureIN \/ ConfigureOUT
    PROVE  ControlInv'
<1>1. UNCHANGED <<USB_ControlRequest, RXSTPI, RXOUTI, TXINI, STALLRQ, inBank, hreq, hphase, hgot>>
  BY DEF Select, EnterUSBTask, LeaveUSBTask, EnterTask, UseOUT, UseIN, ResetOUT, ResetIN,
         OtherRequest, NoStandardRequest, ClearSetFeature, Feature, WriteTest, WriteStatus,
         EnableAddress, StoreAddressed, TestConfiguration, StoreState, ConfigureIN, ConfigureOUT,
         OnlyPC, task, ep0, host
<1>2. pc \in Cleared => RXSTPI = NoRequest
  BY DEF ControlInv, StepInv
<1>3. CASE Select \/ EnterUSBTask \/ LeaveUSBTask \/ EnterTask \/ UseOUT \/ UseIN \/ ResetOUT \/ ResetIN
  <2>1. /\ pc' \in Served => pc \in Served
        /\ pc' \in Cleared => pc \in Cleared
        /\ pc' \in Featured => pc \in Featured
        /\ pc' \notin {"write", "write_in", "write_status", "written", "standard", "event",
                       "status", "address"}
    BY <1>3 DEF Select, Selects, EnterUSBTask, LeaveUSBTask, EnterTask, UseOUT, UseIN, ResetOUT,
                ResetIN, After, Goto, Served, ControlSteps, Cleared, Featured
  <2>2. pc' # "final"
    BY <1>3 DEF Select, Selects, EnterUSBTask, LeaveUSBTask, EnterTask, UseOUT, UseIN, ResetOUT,
                ResetIN, After, Goto
  <2> QED
    BY <1>1, <2>1, <2>2, ControlMove DEF Featured
<1>4. CASE OtherRequest
  BY <1>1, <1>4, ControlMove DEF OtherRequest, Goto, Served, ControlSteps, Cleared, Featured
<1>5. CASE NoStandardRequest
  <2>1. pc = "standard" /\ pc' = "final" /\ UENUM = "control"
    BY <1>5 DEF NoStandardRequest, Goto, ServeInv, ControlSelected, StepsOf
  <2>2. RXSTPI # NoRequest => USB_ControlRequest.name \notin StandardOut \cup StandardIn
    BY <1>5, <2>1 DEF NoStandardRequest, SETUPReceived
  <2> QED
    BY <1>1, <2>1, <2>2, ControlMove DEF Served, ControlSteps, Cleared, Featured
<1>6. CASE ClearSetFeature
  <2>1. /\ pc = "standard" /\ RXSTPI # NoRequest /\ USB_ControlRequest.name = "FEATURE"
        /\ pc' \in {"feature_select", "feature_back"}
    BY <1>6 DEF ClearSetFeature, SETUPReceived, Goto
  <2> QED
    BY <1>1, <2>1, ControlMove DEF Served, ControlSteps, Cleared, Featured
<1>7. CASE Feature
  BY <1>1, <1>7, ControlMove DEF Feature, Goto, Served, ControlSteps, Cleared, Featured
<1>8. CASE WriteTest \/ WriteStatus
  BY <1>1, <1>8, ControlMove DEF WriteTest, WriteStatus, Goto, Served, ControlSteps, Cleared,
                                 Featured
<1>9. CASE \/ EnableAddress \/ StoreAddressed \/ TestConfiguration \/ StoreState
           \/ ConfigureIN \/ ConfigureOUT
  BY <1>1, <1>2, <1>9, ControlMove DEF EnableAddress, StoreAddressed, TestConfiguration,
                                       StoreState, ConfigureIN, ConfigureOUT, Goto, Served,
                                       ControlSteps, Cleared, Featured
<1> QED
  BY <1>3, <1>4, <1>5, <1>6, <1>7, <1>8, <1>9

\* The SETUP packet is taken: by the vendor's handler, ...
LEMMA ControlTakes ==
    ASSUME ControlInv,
           Poll \/ VendorRequest \/ SetAddress \/ SetConfiguration \/ GetByte \/ GetDescriptor
              \/ FeatureDone
    PROVE  ControlInv'
<1>0. /\ {USB_ControlRequest, RXSTPI, hreq} \subseteq Requests \cup {NoRequest}
      /\ ~Idle => hreq \in Requests /\ (hphase = "status_in" <=> hreq.wLength = 0)
      /\ ~Idle /\ hreq.name \in DeviceToHost => hphase # "status_in"
  <2>1. /\ {USB_ControlRequest, RXSTPI, hreq} \subseteq Requests \cup {NoRequest}
        /\ ~Idle => hreq \in Requests /\ (hphase = "status_in" <=> hreq.wLength = 0)
    BY DEF ControlInv, RequestTypes
  <2> QED
    BY <2>1, RequestLength
<1>1. UNCHANGED <<hreq, hphase, hgot, STALLRQ>>
  BY DEF Poll, VendorRequest, SetAddress, SetConfiguration, GetByte, GetDescriptor, FeatureDone,
         ep0, host
<1>2. CASE Poll
  <2>1. /\ UNCHANGED <<RXSTPI, TXINI>> /\ pc = "poll"
        /\ \/ pc' = "restore" /\ UNCHANGED USB_ControlRequest
           \/ pc' = "event" /\ USB_ControlRequest' = RXSTPI /\ RXSTPI # NoRequest
    BY <1>2 DEF Poll, SETUPReceived, ep0
  <2>2. RequestTypes' /\ StepInv'
    BY <1>1, <2>1 DEF ControlInv, RequestTypes, StepInv, Idle, Cleared, Featured
  <2>3. LiveInv'
    BY <1>1, <2>1 DEF ControlInv, LiveInv, Idle, Served, ControlSteps, Featured
  <2> QED
    BY <2>2, <2>3 DEF ControlInv
<1>3. CASE VendorRequest
  <2>1. /\ pc = "event" /\ RXSTPI' = NoRequest /\ UNCHANGED <<USB_ControlRequest, TXINI>>
        /\ \/ pc' = "write" /\ USB_ControlRequest.name \in Streamed
           \/ pc' = "status"
    BY <1>3 DEF VendorRequest, ClearSETUP, StartStream, Streamed
  <2>2. RequestTypes' /\ StepInv'
    BY <1>1, <2>1 DEF ControlInv, RequestTypes, StepInv, Idle, Cleared, Featured
  <2>3. LiveInv'
    BY <1>1, <2>1 DEF ControlInv, LiveInv, Idle, Served, ControlSteps, Featured
  <2> QED
    BY <2>2, <2>3 DEF ControlInv
<1>4. CASE SetAddress \/ SetConfiguration \/ GetByte \/ GetDescriptor
  <2>1. /\ pc = "standard" /\ RXSTPI # NoRequest /\ RXSTPI' = NoRequest
        /\ UNCHANGED USB_ControlRequest
        /\ \/ pc' = "write" /\ USB_ControlRequest.name \in Streamed /\ UNCHANGED TXINI
           \/ pc' = "status" /\ UNCHANGED TXINI
           \/ pc' = "status" /\ USB_ControlRequest.name \in DeviceToHost
    BY <1>4, NamesApart DEF SetAddress, SetConfiguration, GetByte, GetDescriptor, SETUPReceived,
                            ClearSETUP, StartStream, Goto, task
  <2>2. RequestTypes' /\ StepInv'
    BY <1>1, <2>1 DEF ControlInv, RequestTypes, StepInv, Idle, Cleared, Featured
  <2>3. ~Idle => USB_ControlRequest = hreq /\ ~STALLRQ /\ TXINI
    BY <2>1 DEF ControlInv, LiveInv, Served, ControlSteps
  <2>4. ~Idle /\ pc' = "status" /\ hphase = "status_in" => TXINI'
    <3>1. ASSUME ~Idle, hphase = "status_in" PROVE UNCHANGED TXINI
      BY <1>0, <2>1, <2>3, <3>1, NamesApart
    <3> QED
      BY <2>3, <3>1
  <2>5. LiveInv'
    BY <1>1, <2>1, <2>3, <2>4 DEF LiveInv, Idle, Featured
  <2> QED
    BY <2>2, <2>5 DEF ControlInv
<1>5. CASE FeatureDone
  <2>1. /\ pc = "feature_done" /\ pc' = "status" /\ RXSTPI' = NoRequest
        /\ UNCHANGED <<USB_ControlRequest, TXINI>>
    BY <1>5 DEF FeatureDone, ClearSETUP, Goto, task
  <2>2. RequestTypes' /\ StepInv'
    BY <1>1, <2>1 DEF ControlInv, RequestTypes, StepInv, Idle, Cleared, Featured
  <2>3. LiveInv'
    BY <1>1, <2>1 DEF ControlInv, LiveInv, Idle, Served, ControlSteps, Featured
  <2> QED
    BY <2>2, <2>3 DEF ControlInv
<1> QED
  BY <1>2, <1>3, <1>4, <1>5

\* ... and it is answered: a packet of the stream, the end of the stream, the
\* status stage, or a stall.
LEMMA ControlAnswers ==
    ASSUME ControlInv, WriteIN \/ Written \/ ClearStatusStage \/ StallUnhandled
    PROVE  ControlInv'
<1>0. /\ {USB_ControlRequest, RXSTPI, hreq} \subseteq Requests \cup {NoRequest}
      /\ ~Idle => hreq \in Requests /\ (hphase = "status_in" <=> hreq.wLength = 0)
      /\ ~Idle => (hphase = "status_in" <=> hreq.name \notin DeviceToHost)
  <2>1. /\ {USB_ControlRequest, RXSTPI, hreq} \subseteq Requests \cup {NoRequest}
        /\ ~Idle => hreq \in Requests /\ (hphase = "status_in" <=> hreq.wLength = 0)
    BY DEF ControlInv, RequestTypes
  <2> QED
    BY <2>1, RequestLength
<1>1. UNCHANGED <<hreq, hphase, hgot, USB_ControlRequest>>
  BY DEF WriteIN, Written, ClearStatusStage, StallUnhandled, host, task
<1>2. CASE WriteIN
  <2>1. pc = "write_in" /\ pc' = "write" /\ UNCHANGED <<RXSTPI, STALLRQ>>
    BY <1>2 DEF WriteIN, Goto
  <2>2. RequestTypes' /\ StepInv'
    BY <1>1, <2>1 DEF ControlInv, RequestTypes, StepInv, Idle, Cleared, Featured
  <2>3. LiveInv'
    BY <1>1, <2>1 DEF ControlInv, LiveInv, StepInv, Idle, Served, ControlSteps, Cleared, Featured
  <2> QED
    BY <2>2, <2>3 DEF ControlInv
<1>3. CASE Written
  <2>1. /\ pc = "written" /\ pc' \in {"final", "status"} /\ UNCHANGED <<RXSTPI, TXINI, STALLRQ>>
        /\ RXSTPI = NoRequest /\ USB_ControlRequest.name \in DeviceToHost
    BY <1>3, NamesApart DEF Written, ControlInv, StepInv, Cleared
  <2>2. RequestTypes' /\ StepInv'
    BY <1>1, <2>1 DEF ControlInv, RequestTypes, StepInv, Idle, Cleared, Featured
  <2>3. LiveInv'
    BY <1>0, <1>1, <2>1 DEF ControlInv, LiveInv, Idle, Served, ControlSteps, Featured
  <2> QED
    BY <2>2, <2>3 DEF ControlInv
<1>4. CASE ClearStatusStage
  <2>1. /\ pc = "status" /\ RXSTPI = NoRequest /\ UNCHANGED <<RXSTPI, STALLRQ>>
        /\ \/ pc' \in {"state_test", "standard", "final"}
           \/ pc' = "address" /\ USB_ControlRequest.name \in AddressRequests
    BY <1>4 DEF ClearStatusStage, AfterStatus, Goto, ControlInv, StepInv, Cleared
  <2>2. pc' = "address" /\ TXINI => ~TXINI'
    BY <1>4, <2>1, NamesApart DEF ClearStatusStage, Give
  <2>3. pc' = "address" /\ ~Idle => TXINI
    BY <1>0, <2>1, NamesApart DEF ControlInv, LiveInv, Served, ControlSteps
  <2>4. RequestTypes' /\ StepInv'
    BY <1>1, <2>1 DEF ControlInv, RequestTypes, StepInv, Idle, Cleared, Featured
  <2>5. LiveInv'
    BY <1>1, <2>1, <2>2, <2>3 DEF ControlInv, LiveInv, Idle, Served, ControlSteps, Featured
  <2> QED
    BY <2>4, <2>5 DEF ControlInv
<1>5. CASE StallUnhandled
  <2>1. /\ pc = "final" /\ pc' = "restore" /\ UNCHANGED TXINI
        /\ \/ UNCHANGED <<RXSTPI, STALLRQ>>
           \/ RXSTPI # NoRequest /\ RXSTPI' = NoRequest
    BY <1>5 DEF StallUnhandled, Goto, SETUPReceived, ClearSETUP
  <2>2. RequestTypes' /\ StepInv'
    BY <1>1, <2>1 DEF ControlInv, RequestTypes, StepInv, Idle, Cleared, Featured
  <2>3. LiveInv'
    BY <1>1, <2>1 DEF ControlInv, LiveInv, StepInv, Idle, Served, ControlSteps, Featured
  <2> QED
    BY <2>2, <2>3 DEF ControlInv
<1> QED
  BY <1>2, <1>3, <1>4, <1>5

\* The host and the bus.  A new request finds no other one being served.
LEMMA ControlHost ==
    ASSUME Hasty = FALSE, ControlInv,
           BusReset \/ Setup \/ HostGoesOn \/ GiveUp
    PROVE  ControlInv'
<1>1. UNCHANGED <<USB_ControlRequest, pc>>
  BY DEF BusReset, Setup, HostGoesOn, ReceiveIN, SendStatus, SeeStall, GiveUp, task
<1>2. CASE BusReset
  <2>1. RXSTPI' = NoRequest /\ hreq' = NoRequest /\ hphase' = "idle"
    BY <1>2 DEF BusReset
  <2> QED
    BY <1>1, <2>1 DEF ControlInv, RequestTypes, StepInv, LiveInv, Idle
<1>3. CASE Setup
  <2>1. /\ pc \notin ControlSteps /\ hreq' \in Requests /\ RXSTPI' = hreq' /\ TXINI' /\ ~STALLRQ'
        /\ hphase' = IF hreq'.wLength > 0 THEN "in" ELSE "status_in"
    BY <1>3 DEF Setup
  <2>2. hreq'.wLength \in Nat
    BY <2>1, RequestLength
  <2>3. RequestTypes'
    BY <1>1, <2>1, <2>2 DEF ControlInv, RequestTypes, Idle
  <2>4. StepInv'
    BY <1>1, <2>1 DEF StepInv, ControlSteps, Cleared, Featured
  <2>5. LiveInv'
    BY <1>1, <2>1 DEF LiveInv, Idle, Served, ControlSteps, Featured
  <2> QED
    BY <2>3, <2>4, <2>5 DEF ControlInv
<1>4. CASE HostGoesOn \/ GiveUp
  <2>1. UNCHANGED <<RXSTPI, hreq, STALLRQ>>
    BY <1>4 DEF HostGoesOn, ReceiveIN, SendStatus, SeeStall, GiveUp, ep0
  <2>2. \/ hphase' = "idle"
        \/ hphase = "in" /\ hphase' \in {"in", "status_out"} /\ ~TXINI /\ TXINI'
    BY <1>4 DEF HostGoesOn, ReceiveIN, SendStatus, SeeStall, GiveUp
  <2>3. RequestTypes'
    BY <1>1, <2>1, <2>2 DEF ControlInv, RequestTypes, Idle
  <2>4. StepInv'
    BY <1>1, <2>1 DEF ControlInv, StepInv
  <2>5. hphase = "in" => pc # "address"
    <3>1. ASSUME hphase = "in", pc = "address"
          PROVE  FALSE
      <4>1. ~Idle /\ hreq \in Requests /\ hreq.wLength # 0 /\ USB_ControlRequest = hreq
            /\ hreq.name \in AddressRequests
        BY <3>1 DEF ControlInv, RequestTypes, StepInv, LiveInv, Idle, Served, ControlSteps
      <4> QED
        BY <4>1, RequestLength, NamesApart
    <3> QED
      BY <3>1
  <2>6. LiveInv'
    BY <1>1, <2>1, <2>2, <2>5 DEF ControlInv, LiveInv, Idle
  <2> QED
    BY <2>3, <2>4, <2>6 DEF ControlInv
<1> QED
  BY <1>2, <1>3, <1>4

LEMMA ControlStep ==
    ASSUME Hasty = FALSE, ControlInv, ServeInv, [Next]_vars
    PROVE  ControlInv'
<1>1. CASE Task
  <2>1. ASSUME ResetIN PROVE ControlInv'
    BY <2>1, ControlMoves
  <2> QED
    BY <1>1, ControlMoves, ControlTakes, ControlAnswers DEF Task
<1>2. CASE BusReset \/ Setup \/ HostGoesOn \/ GiveUp
  BY <1>2, ControlHost
<1>3. CASE Interrupt \/ Activity \/ Suspend \/ UNCHANGED vars
  <2>1. UNCHANGED <<USB_ControlRequest, pc, RXSTPI, TXINI, STALLRQ, hreq, hphase>>
    BY <1>3 DEF Interrupt, SUSPI, WAKEUPI, EORSTI, Activity, Suspend, vars, task, ep0, host
  <2> QED
    BY <2>1 DEF ControlInv, RequestTypes, StepInv, LiveInv, Idle
<1> QED
  BY <1>1, <1>2, <1>3 DEF Next

\* Whatever resets, suspends and given-up requests come between: a request
\* the firmware or the library has a handler for is not stalled
\* (DeviceStandardReq.c:118).
THEOREM OnlyUnknownStalled ==
    ASSUME Hasty = FALSE PROVE Spec => []StallsUnknown
<1>1. ControlInv => StallsUnknown
  BY DEF ControlInv, LiveInv, StallsUnknown
<1>2. ControlInv /\ ServeInv /\ [Next]_vars => ControlInv' /\ ServeInv'
  BY ControlStep, ServeStep
<1> QED
  BY <1>1, <1>2, ControlInit, ServeInit, PTL DEF Spec

\* USB_Device_SetAddress enables the address when the host has the status
\* packet, and not in the stage itself (DeviceStandardReq.c:135).
THEOREM AddressWaitsForStatus ==
    ASSUME Hasty = FALSE PROVE Spec => AddressAfterStatus
<1>1. ASSUME ControlInv, [Next]_vars
      PROVE  [~ADDEN /\ ADDEN' => Idle]_vars
  <2> SUFFICES ASSUME ~ADDEN, ADDEN' PROVE Idle
    OBVIOUS
  <2>1. EnableAddress
    BY <1>1 DEF Next, Interrupt, SUSPI, WAKEUPI, EORSTI, Task, BusReset, Activity, Suspend, Setup,
                HostGoesOn, ReceiveIN, SendStatus, SeeStall, GiveUp, vars, device, OnlyPC, Select,
                EnterUSBTask, LeaveUSBTask, EnterTask, UseOUT, UseIN, ResetOUT, ResetIN, Poll,
                VendorRequest, OtherRequest, NoStandardRequest, SetAddress, SetConfiguration,
                GetByte, GetDescriptor, ClearSetFeature, Feature, FeatureDone, WriteTest, WriteIN,
                WriteStatus, Written, ClearStatusStage, StoreAddressed, TestConfiguration,
                StoreState, ConfigureIN, ConfigureOUT, StallUnhandled
  <2> QED
    BY <1>1, <2>1 DEF ControlInv, LiveInv, EnableAddress, Goto
<1>2. ControlInv /\ ServeInv /\ [Next]_vars => ControlInv' /\ ServeInv'
  BY ControlStep, ServeStep
<1> QED
  BY <1>1, <1>2, ControlInit, ServeInit, PTL DEF Spec, AddressAfterStatus

-----------------------------------------------------------------------------
(* The data of a read, for the same host.                                  *)

\* What the device sends in answer: the one packet of GET_CONFIGURATION and
\* GET_STATUS is never cut.
Reply(r) ==
    IF r.name \in {"GET_CONFIGURATION", "GET_STATUS"}
    THEN SizeOf(r.name) ELSE Smaller(SizeOf(r.name), r.wLength)

\* What the host has, what is in the bank and what is still to be written are
\* the answer; a packet that is neither full nor the last is never given.
DataInv ==
    /\ left \in 0 .. 46 /\ inBank \in 0 .. FIXED_CONTROL_ENDPOINT_SIZE
    /\ hgot \in 0 .. Reply(hreq)
    /\ TXINI => inBank = 0
    /\ hphase = "status_in" => inBank = 0
    /\ ~Idle /\ RXSTPI # NoRequest => hgot = 0
    /\ hphase = "in" /\ pc \in {"write", "write_in"} => hgot + inBank + left = Reply(hreq)
    /\ hphase = "in" /\ ~TXINI =>
          \/ hgot + inBank = Reply(hreq)
          \/ /\ inBank = FIXED_CONTROL_ENDPOINT_SIZE
             /\ hgot + FIXED_CONTROL_ENDPOINT_SIZE < Reply(hreq)
    /\ hphase = "status_out" => hgot = Reply(hreq)

LEMMA SizeBounds ==
    ASSUME NEW name
    PROVE  SizeOf(name) \in 0 .. 46
<1>1. CASE name \in Descriptors
  <2>1. name \notin {"READ_HEADER", "READ_DEBUG", "GET_STATUS", "GET_CONFIGURATION"}
    BY <1>1 DEF Descriptors, DescriptorSize
  <2>2. SizeOf(name) = DescriptorSize[name]
    BY <1>1, <2>1 DEF SizeOf
  <2>3. DescriptorSize[name] \in 0 .. 46
    BY <1>1 DEF Descriptors, DescriptorSize
  <2> QED
    BY <2>2, <2>3
<1>2. CASE name \notin Descriptors
  BY <1>2 DEF SizeOf
<1> QED
  BY <1>1, <1>2

\* An answer fits in two packets; one of more than a packet is not longer than
\* what was asked for.
LEMMA ReplyBounds ==
    ASSUME NEW r \in Requests \cup {NoRequest}
    PROVE  /\ r.wLength \in Nat
           /\ Reply(r) \in 0 .. 46
           /\ Reply(r) > 2 => Reply(r) <= r.wLength
           /\ Smaller(SizeOf(r.name), r.wLength) \in 0 .. 46
<1>1. r.wLength \in Nat
  BY RequestLength DEF NoRequest
<1>2. SizeOf(r.name) \in 0 .. 46
  BY SizeBounds
<1>3. r.name \in {"GET_CONFIGURATION", "GET_STATUS"} => SizeOf(r.name) \in 0 .. 2
  BY DEF SizeOf, Descriptors, DescriptorSize
<1> QED
  BY <1>1, <1>2, <1>3 DEF Reply, Smaller

LEMMA DataInit == Init => DataInv
<1>1. Reply(NoRequest) \in 0 .. 46
  BY ReplyBounds
<1> QED
  BY <1>1 DEF Init, DataInv, Idle, FIXED_CONTROL_ENDPOINT_SIZE

\* A step that moves no data.
LEMMA DataMove ==
    ASSUME DataInv,
           UNCHANGED <<inBank, hgot, hreq, hphase, TXINI>>,
           left' \in {left, 0},
           RXSTPI' \in {RXSTPI, NoRequest},
           pc' \in {"write", "write_in"} => pc \in {"write", "write_in"} /\ left' = left
    PROVE  DataInv'
BY DEF DataInv, Idle

LEMMA DataMoves ==
    ASSUME DataInv,
           \/ Select \/ EnterUSBTask \/ LeaveUSBTask \/ EnterTask \/ UseOUT \/ UseIN
           \/ ResetOUT \/ ResetIN \/ OtherRequest \/ NoStandardRequest
           \/ ClearSetFeature \/ Feature \/ FeatureDone \/ WriteTest \/ WriteStatus \/ Written
           \/ EnableAddress \/ StoreAddressed \/ TestConfiguration \/ StoreState
           \/ ConfigureIN \/ ConfigureOUT
           \/ StallUnhandled \/ Poll \/ SetAddress \/ SetConfiguration
    PROVE  DataInv'
<1>1. /\ UNCHANGED <<inBank, hgot, hreq, hphase, TXINI>>
      /\ left' \in {left, 0}
      /\ RXSTPI' \in {RXSTPI, NoRequest}
  BY DEF Select, EnterUSBTask, LeaveUSBTask, EnterTask, UseOUT, UseIN, ResetOUT, ResetIN,
         OtherRequest, NoStandardRequest, ClearSetFeature, Feature, FeatureDone, WriteTest,
         WriteStatus, Written, EnableAddress, StoreAddressed, TestConfiguration, StoreState,
         ConfigureIN, ConfigureOUT, StallUnhandled, Poll, SetAddress, SetConfiguration,
         ClearSETUP, OnlyPC, task, ep0, host
<1>2. pc' \in {"write", "write_in"} => WriteTest
  BY DEF Select, Selects, EnterUSBTask, LeaveUSBTask, After, EnterTask, UseOUT, UseIN, ResetOUT,
         ResetIN, OtherRequest, NoStandardRequest, ClearSetFeature, Feature, FeatureDone,
         WriteStatus, Written, EnableAddress, StoreAddressed, TestConfiguration, StoreState,
         ConfigureIN, ConfigureOUT, StallUnhandled, Poll, SetAddress, SetConfiguration, Goto
<1>3. WriteTest => pc \in {"write", "write_in"} /\ left' = left
  BY DEF WriteTest, OnlyPC, task
<1> QED
  BY <1>1, <1>2, <1>3, DataMove

\* An answer begins.
LEMMA DataStarts ==
    ASSUME ControlInv, DataInv, VendorRequest \/ GetDescriptor \/ GetByte
    PROVE  DataInv'
<1>1. /\ USB_ControlRequest \in Requests \cup {NoRequest}
      /\ hreq \in Requests \cup {NoRequest}
      /\ ~Idle => hreq \in Requests /\ (hphase = "status_in" <=> hreq.wLength = 0)
    BY DEF ControlInv, RequestTypes
<1>2. /\ Reply(hreq) \in 0 .. 46
      /\ Smaller(SizeOf(USB_ControlRequest.name), USB_ControlRequest.wLength) \in 0 .. 46
      /\ ~Idle /\ hreq.name \in DeviceToHost => hphase # "status_in"
  BY <1>1, ReplyBounds, RequestLength
<1>3. UNCHANGED <<hreq, hphase, hgot>> /\ RXSTPI' = NoRequest
  BY DEF VendorRequest, GetDescriptor, GetByte, ClearSETUP, ep0, host
<1>4. ~Idle =>
        /\ USB_ControlRequest = hreq
        /\ TXINI /\ hgot = 0 /\ inBank = 0 /\ hphase # "status_out"
  <2>1. pc \in {"event", "standard"} /\ (pc = "standard" => RXSTPI # NoRequest)
    BY DEF VendorRequest, GetDescriptor, GetByte, Goto, SETUPReceived
  <2> QED
    BY <2>1 DEF ControlInv, LiveInv, DataInv, Served, ControlSteps
<1>5. CASE GetByte
  <2>1. /\ pc' = "status" /\ ~TXINI' /\ left' = left
        /\ inBank' = SizeOf(USB_ControlRequest.name)
        /\ USB_ControlRequest.name \in {"GET_CONFIGURATION", "GET_STATUS"}
    BY <1>5 DEF GetByte, Give, Goto, task
  <2>2. inBank' \in 0 .. 2 /\ inBank' = Reply(USB_ControlRequest)
    BY <2>1 DEF SizeOf, Reply, Descriptors, DescriptorSize
  <2>3. ~Idle => hphase # "status_in"
    BY <1>2, <1>4, <2>1, NamesApart
  <2>4. ~Idle => hgot + inBank' = Reply(hreq)
    BY <1>4, <2>2
  <2> QED
    BY <1>2, <1>3, <1>4, <2>1, <2>2, <2>3, <2>4 DEF DataInv, Idle, FIXED_CONTROL_ENDPOINT_SIZE
<1>6. CASE VendorRequest \/ GetDescriptor
  <2>1. /\ UNCHANGED <<TXINI, inBank>>
        /\ \/ pc' = "status" /\ left' = left
           \/ /\ pc' = "write" /\ USB_ControlRequest.name \in Streamed
              /\ left' = Smaller(SizeOf(USB_ControlRequest.name), USB_ControlRequest.wLength)
    BY <1>6 DEF VendorRequest, GetDescriptor, StartStream, Streamed
  <2>2. CASE pc' = "status" /\ left' = left
    BY <1>3, <2>1, <2>2 DEF DataInv, Idle
  <2>3. CASE /\ pc' = "write" /\ USB_ControlRequest.name \in Streamed
             /\ left' = Smaller(SizeOf(USB_ControlRequest.name), USB_ControlRequest.wLength)
    <3>1. left' = Reply(USB_ControlRequest)
      BY <2>3 DEF Reply, Streamed, Descriptors, DescriptorSize
    <3>2. left' \in 0 .. 46
      BY <1>2, <2>3
    <3>3. ~Idle => hgot + inBank' + left' = Reply(hreq)
      BY <1>2, <1>4, <2>1, <3>1
    <3> QED
      BY <1>3, <2>1, <2>3, <3>2, <3>3 DEF DataInv, Idle
  <2> QED
    BY <2>1, <2>2, <2>3
<1> QED
  BY <1>5, <1>6

\* A packet is given to the host.
LEMMA DataGiven ==
    ASSUME ControlInv, DataInv, WriteIN \/ ClearStatusStage
    PROVE  DataInv'
<1>1. /\ hreq \in Requests \cup {NoRequest}
      /\ ~Idle => hreq \in Requests /\ (hphase = "status_in" <=> hreq.wLength = 0)
      /\ ~Idle => USB_ControlRequest = hreq
  BY DEF ControlInv, RequestTypes, LiveInv, WriteIN, ClearStatusStage, Goto, Served, ControlSteps
<1>2. /\ Reply(hreq) \in 0 .. 46
      /\ ~Idle => (hphase = "status_in" <=> USB_ControlRequest.name \notin DeviceToHost)
  BY <1>1, ReplyBounds, RequestLength
<1>3. UNCHANGED <<hreq, hphase, hgot, RXSTPI>>
  BY DEF WriteIN, ClearStatusStage, host
<1>4. CASE ClearStatusStage
  <2>1. /\ left' = left /\ pc' \notin {"write", "write_in"}
        /\ \/ UNCHANGED <<TXINI, inBank>>
           \/ ~TXINI' /\ inBank' = 0 /\ USB_ControlRequest.name \notin DeviceToHost
    BY <1>4 DEF ClearStatusStage, AfterStatus, Goto, Give, task
  <2>2. CASE UNCHANGED <<TXINI, inBank>>
    BY <1>3, <2>1, <2>2 DEF DataInv, Idle
  <2>3. CASE ~TXINI' /\ inBank' = 0 /\ USB_ControlRequest.name \notin DeviceToHost
    <3>1. hphase # "in"
      BY <1>2, <2>3 DEF Idle
    <3> QED
      BY <1>3, <2>1, <2>3, <3>1 DEF DataInv, Idle, FIXED_CONTROL_ENDPOINT_SIZE
  <2> QED
    BY <2>1, <2>2, <2>3
<1>5. CASE WriteIN /\ ~TXINI
  <2>1. pc = "write_in" /\ UNCHANGED <<TXINI, inBank, left>>
    BY <1>5 DEF WriteIN, Goto
  <2> QED
    BY <1>3, <2>1 DEF DataInv, Idle
<1>6. CASE WriteIN /\ TXINI
  <2> DEFINE bytes == Smaller(left, FIXED_CONTROL_ENDPOINT_SIZE)
  <2>1. /\ pc = "write_in" /\ ~TXINI' /\ inBank' = bytes /\ left' = left - bytes
    BY <1>6 DEF WriteIN, Goto, Give
  <2>2. /\ left \in 0 .. 46 /\ bytes \in 0 .. 32 /\ bytes <= left
        /\ bytes = left \/ (bytes = 32 /\ left > 32)
    BY DEF DataInv, Smaller, FIXED_CONTROL_ENDPOINT_SIZE
  <2> HIDE DEF bytes
  <2>3. hphase # "status_in"
    <3>1. USB_ControlRequest.name \in DeviceToHost
      BY <2>1, NamesApart DEF ControlInv, StepInv
    <3> QED
      BY <1>2, <3>1 DEF Idle
  <2>4. hphase = "in" => hgot \in Nat /\ hgot + left = Reply(hreq)
    <3>1. inBank = 0 /\ hgot \in 0 .. Reply(hreq)
      BY <1>6 DEF DataInv
    <3>2. hphase = "in" => hgot + inBank + left = Reply(hreq)
      BY <2>1 DEF DataInv
    <3> QED
      BY <1>2, <2>2, <3>1, <3>2
  <2>5. /\ left' \in 0 .. 46 /\ inBank' \in 0 .. 32
        /\ hphase = "in" => hgot + inBank' + left' = Reply(hreq)
        /\ hphase = "in" => \/ hgot + inBank' = Reply(hreq)
                            \/ inBank' = 32 /\ hgot + 32 < Reply(hreq)
    BY <2>1, <2>2, <2>4
  <2> QED
    BY <1>3, <2>1, <2>3, <2>5 DEF DataInv, Idle, FIXED_CONTROL_ENDPOINT_SIZE
<1> QED
  BY <1>4, <1>5, <1>6

\* The host takes a packet, or does something else.
LEMMA DataHost ==
    ASSUME Hasty = FALSE, ControlInv, DataInv, BusReset \/ Setup \/ HostGoesOn \/ GiveUp
    PROVE  DataInv'
<1>0. /\ hreq \in Requests \cup {NoRequest}
      /\ hreq.wLength \in Nat /\ Reply(hreq) \in 0 .. 46
      /\ Reply(hreq) > 2 => Reply(hreq) <= hreq.wLength
  <2>1. hreq \in Requests \cup {NoRequest}
    BY DEF ControlInv, RequestTypes
  <2> QED
    BY <2>1, ReplyBounds
<1>1. UNCHANGED <<left, pc>>
  BY DEF BusReset, Setup, HostGoesOn, ReceiveIN, SendStatus, SeeStall, GiveUp, task
<1>2. CASE BusReset \/ Setup
  <2>1. /\ inBank' = 0 /\ hgot' = 0 /\ TXINI' /\ hreq' \in Requests \cup {NoRequest}
        /\ \/ hphase' = "idle"
           \/ hphase' \in {"in", "status_in"} /\ pc \notin ControlSteps
    BY <1>2 DEF BusReset, Setup
  <2>2. Reply(hreq') \in 0 .. 46
    BY <2>1, ReplyBounds
  <2> QED
    BY <1>1, <2>1, <2>2 DEF DataInv, Idle, ControlSteps, FIXED_CONTROL_ENDPOINT_SIZE
<1>3. CASE SendStatus \/ SeeStall \/ GiveUp
  <2>1. /\ hphase' = "idle" /\ UNCHANGED <<hgot, hreq>>
        /\ UNCHANGED <<inBank, TXINI>> \/ inBank' = 0
    BY <1>3 DEF SendStatus, SeeStall, GiveUp, ep0
  <2> QED
    BY <1>1, <2>1 DEF DataInv, Idle, FIXED_CONTROL_ENDPOINT_SIZE
<1>4. CASE ReceiveIN
  <2>1. /\ hphase \in {"in", "status_in"} /\ ~TXINI /\ TXINI' /\ inBank' = 0
        /\ hgot' = hgot + inBank /\ UNCHANGED <<RXSTPI, hreq>>
        /\ hphase' = IF hphase = "status_in" THEN "idle"
                     ELSE IF inBank = FIXED_CONTROL_ENDPOINT_SIZE /\ hgot' < hreq.wLength
                     THEN "in" ELSE "status_out"
    BY <1>4 DEF ReceiveIN
  <2>2. hgot \in 0 .. Reply(hreq) /\ inBank \in 0 .. 32 /\ left \in 0 .. 46
    BY DEF DataInv, FIXED_CONTROL_ENDPOINT_SIZE
  <2>3. CASE hphase = "status_in"
    <3>1. inBank = 0 /\ hphase' = "idle"
      BY <2>1, <2>3 DEF DataInv
    <3>2. hgot' = hgot
      BY <1>0, <2>1, <2>2, <3>1
    <3> QED
      BY <1>1, <2>1, <2>2, <3>1, <3>2 DEF DataInv, Idle, FIXED_CONTROL_ENDPOINT_SIZE
  <2>4. CASE hphase = "in"
    <3>1. \/ hgot + inBank = Reply(hreq)
          \/ inBank = 32 /\ hgot + 32 < Reply(hreq)
      BY <2>1, <2>4 DEF DataInv, FIXED_CONTROL_ENDPOINT_SIZE
    <3>2. /\ hphase' \in {"in", "status_out"}
          /\ hphase' = "status_out" => ~(inBank = 32 /\ hgot' < hreq.wLength)
      BY <2>1, <2>4 DEF FIXED_CONTROL_ENDPOINT_SIZE
    <3>3. hgot' \in 0 .. Reply(hreq) /\ (hphase' = "status_out" => hgot' = Reply(hreq))
      BY <1>0, <2>1, <2>2, <3>1, <3>2
    <3>4. pc \in {"write", "write_in"} => hgot' + inBank' + left = Reply(hreq)
      <4>1. pc \in {"write", "write_in"} => hgot + inBank + left = Reply(hreq)
        BY <2>4 DEF DataInv
      <4> QED
        BY <1>0, <2>1, <2>2, <4>1
    <3>5. RXSTPI = NoRequest
      BY <2>1, <2>4 DEF ControlInv, LiveInv, Idle
    <3> QED
      BY <1>1, <2>1, <2>2, <3>2, <3>3, <3>4, <3>5 DEF DataInv, Idle, FIXED_CONTROL_ENDPOINT_SIZE
  <2> QED
    BY <2>1, <2>3, <2>4
<1> QED
  BY <1>2, <1>3, <1>4 DEF HostGoesOn

LEMMA DataStep ==
    ASSUME Hasty = FALSE, ControlInv, DataInv, [Next]_vars
    PROVE  DataInv'
<1>1. CASE Task
  BY <1>1, DataMoves, DataStarts, DataGiven DEF Task
<1>2. CASE BusReset \/ Setup \/ HostGoesOn \/ GiveUp
  BY <1>2, DataHost
<1>3. CASE Interrupt \/ Activity \/ Suspend \/ UNCHANGED vars
  <2>1. UNCHANGED <<left, inBank, hgot, hreq, hphase, TXINI, RXSTPI, pc>>
    BY <1>3 DEF Interrupt, SUSPI, WAKEUPI, EORSTI, Activity, Suspend, vars, task, ep0, host
  <2> QED
    BY <2>1 DEF DataInv, Idle
<1> QED
  BY <1>1, <1>2, <1>3 DEF Next

\* A read ends with as many bytes as there are, or as were asked for, over
\* however many packets; the host asks for both bytes of GET_STATUS, which the
\* library sends uncut (DeviceStandardReq.c:321).
THEOREM RepliesComplete ==
    ASSUME Hasty = FALSE, "GET_STATUS" \in Names => 1 \notin Lengths
    PROVE  Spec => []ReplyComplete
<1>1. ASSUME ControlInv, DataInv PROVE ReplyComplete
  <2>1. SUFFICES ASSUME hphase = "status_out"
                 PROVE  Reply(hreq) = Smaller(SizeOf(hreq.name), hreq.wLength)
    BY <1>1 DEF ReplyComplete, DataInv
  <2>2. hreq \in Requests /\ hreq.wLength # 0
    BY <1>1, <2>1 DEF ControlInv, RequestTypes, Idle
  <2>3. hreq.wLength \in Lengths /\ hreq.name \in Names /\ hreq.wLength \in Nat \ {0}
    BY <2>2, RequestAssumption DEF Requests
  <2>4. CASE hreq.name = "GET_STATUS"
    BY <2>3, <2>4 DEF Reply, Smaller, SizeOf, Descriptors, DescriptorSize
  <2>5. CASE hreq.name = "GET_CONFIGURATION"
    BY <2>3, <2>5 DEF Reply, Smaller, SizeOf, Descriptors, DescriptorSize
  <2> QED
    BY <2>4, <2>5 DEF Reply
<1>2. ControlInv /\ ServeInv /\ DataInv /\ [Next]_vars
         => ControlInv' /\ ServeInv' /\ DataInv'
  BY ControlStep, ServeStep, DataStep
<1> QED
  BY <1>1, <1>2, ControlInit, ServeInit, DataInit, PTL DEF Spec

-----------------------------------------------------------------------------
(* The types, for every host.                                              *)

\* What no request depends on.
StateTypes ==
    /\ USB_DeviceState \in {"Unattached", "Powered", "Default", "Addressed", "Configured"}
    /\ USB_Device_ConfigurationNumber \in {0, 1}
    /\ {bulk_reset, full, ADDEN, RXOUTI, TXINI, STALLRQ, asleep, haddr} \subseteq BOOLEAN
    /\ pc \in ControlSteps \cup DOMAIN Selects
            \cup {"usb", "task", "out", "stream", "in", "reset_out", "reset_in"}
    /\ caller \in {"usb", "stream"}
    /\ {prev, UENUM} \subseteq {"control", "in", "out"}
    /\ UDINT \cup UDIEN \subseteq {"SUSPI", "WAKEUPI", "EORSTI"}
    /\ bus \in {"new", "idle", "active"}

LEMMA StateInit == Init => StateTypes
BY DEF Init, StateTypes, ControlSteps, Selects

LEMMA StateTask ==
    ASSUME StateTypes, Task
    PROVE  StateTypes'
<1> DEFINE Steps == ControlSteps \cup DOMAIN Selects
                    \cup {"usb", "task", "out", "stream", "in", "reset_out", "reset_in"}
<1>1. UNCHANGED <<UDINT, UDIEN, bus, asleep, haddr>>
  BY TaskStores DEF Task, OnlyPC, host, Select, EnterUSBTask, LeaveUSBTask, EnterTask, UseOUT,
                    UseIN, ResetOUT, ResetIN, Poll, VendorRequest, OtherRequest,
                    NoStandardRequest, SetAddress, SetConfiguration, GetByte, GetDescriptor,
                    ClearSetFeature, Feature, FeatureDone, WriteTest, WriteIN, WriteStatus,
                    Written, ClearStatusStage, EnableAddress, StoreAddressed, TestConfiguration,
                    StoreState, ConfigureIN, ConfigureOUT, StallUnhandled
<1>2. /\ USB_DeviceState' \in {USB_DeviceState, "Default", "Addressed", "Configured", "Powered"}
      /\ USB_Device_ConfigurationNumber' \in {USB_Device_ConfigurationNumber, 0, 1}
  BY TaskStores DEF Task, OnlyPC, device, Select, EnterUSBTask, LeaveUSBTask, EnterTask, UseOUT,
                    UseIN, ResetOUT, ResetIN, Poll, VendorRequest, OtherRequest,
                    NoStandardRequest, SetAddress, SetConfiguration, GetByte, GetDescriptor,
                    ClearSetFeature, Feature, FeatureDone, WriteTest, WriteIN, WriteStatus,
                    Written, ClearStatusStage, EnableAddress, StoreAddressed, TestConfiguration,
                    StoreState, ConfigureIN, ConfigureOUT, StallUnhandled
<1>3. {bulk_reset, full, ADDEN, RXOUTI, TXINI, STALLRQ}' \subseteq BOOLEAN
  <2> USE DEF StateTypes
  <2>1. CASE \/ Select \/ EnterUSBTask \/ LeaveUSBTask \/ EnterTask \/ UseOUT \/ UseIN
             \/ ResetOUT \/ ResetIN \/ Poll \/ OtherRequest \/ NoStandardRequest \/ SetAddress
             \/ SetConfiguration
    BY <2>1 DEF Select, EnterUSBTask, LeaveUSBTask, EnterTask, UseOUT, UseIN, ResetOUT, ResetIN,
                Poll, OtherRequest, NoStandardRequest, SetAddress, SetConfiguration, OnlyPC,
                device, task, ep0
  <2>2. CASE VendorRequest \/ GetByte \/ GetDescriptor
    BY <2>2 DEF VendorRequest, GetByte, GetDescriptor, StartStream, Give, device, task
  <2>3. CASE \/ ClearSetFeature \/ Feature \/ FeatureDone \/ WriteTest \/ WriteStatus
             \/ EnableAddress \/ StoreAddressed \/ TestConfiguration \/ StoreState
             \/ ConfigureIN \/ ConfigureOUT
             \/ StallUnhandled
    BY <2>3 DEF ClearSetFeature, Feature, FeatureDone, WriteTest, WriteStatus, EnableAddress,
                StoreAddressed, TestConfiguration, StoreState, ConfigureIN, ConfigureOUT,
                StallUnhandled, OnlyPC, device, task, ep0
  <2>4. CASE WriteIN \/ Written \/ ClearStatusStage
    BY <2>4 DEF WriteIN, Written, ClearStatusStage, Give, LastPacketFull, device, task
  <2> QED
    BY <2>1, <2>2, <2>3, <2>4 DEF Task
<1>4. pc' \in Steps
  BY DEF Task, Selects, ControlSteps, After, Goto, StartStream, AfterStatus, Select, EnterUSBTask,
         LeaveUSBTask, EnterTask, UseOUT, UseIN, ResetOUT, ResetIN, Poll, VendorRequest,
         OtherRequest, NoStandardRequest, SetAddress, SetConfiguration, GetByte, GetDescriptor,
         ClearSetFeature, Feature, FeatureDone, WriteTest, WriteIN, WriteStatus, Written,
         ClearStatusStage, EnableAddress, StoreAddressed, TestConfiguration, StoreState,
         ConfigureIN, ConfigureOUT, StallUnhandled
<1>5. caller' \in {"usb", "stream"} /\ {prev, UENUM}' \subseteq {"control", "in", "out"}
  <2>1. CASE Select \/ EnterUSBTask \/ LeaveUSBTask
    BY <2>1 DEF StateTypes, Select, Selects, EnterUSBTask, LeaveUSBTask, SaveEndpoint,
                RestoreEndpoint, task
  <2>2. ASSUME ~(Select \/ EnterUSBTask \/ LeaveUSBTask)
        PROVE  UNCHANGED <<caller, prev, UENUM>>
    BY <2>2 DEF Task, OnlyPC, task, EnterTask, UseOUT, UseIN, ResetOUT, ResetIN, Poll,
         VendorRequest, OtherRequest, NoStandardRequest, SetAddress, SetConfiguration, GetByte,
         GetDescriptor, ClearSetFeature, Feature, FeatureDone, WriteTest, WriteIN, WriteStatus,
         Written, ClearStatusStage, EnableAddress, StoreAddressed, TestConfiguration, StoreState,
         ConfigureIN, ConfigureOUT, StallUnhandled
  <2> QED
    BY <2>1, <2>2 DEF StateTypes
<1> QED
  BY <1>1, <1>2, <1>3, <1>4, <1>5 DEF StateTypes

LEMMA StateStep == StateTypes /\ [Next]_vars => StateTypes'
<1> SUFFICES ASSUME StateTypes, [Next]_vars PROVE StateTypes'
  OBVIOUS
<1>1. CASE Task
  BY <1>1, StateTask
<1>2. CASE Interrupt
  BY <1>2 DEF StateTypes, Interrupt, SUSPI, WAKEUPI, EORSTI, StateOfConfiguration, task, ep0,
              host, wire
<1>3. CASE BusReset \/ Activity \/ Suspend
  <2> USE DEF StateTypes
  <2>1. CASE BusReset
    BY <2>1 DEF BusReset, task
  <2>2. CASE Activity \/ Suspend
    BY <2>2 DEF Activity, Suspend, device, task, ep0, host
  <2> QED
    BY <1>3, <2>1, <2>2
<1>4. CASE Setup \/ HostGoesOn \/ GiveUp
  BY <1>4 DEF StateTypes, Setup, HostGoesOn, ReceiveIN, SendStatus, SeeStall, GiveUp, device, task,
              ep0, ints, wire
<1>5. CASE UNCHANGED vars
  BY <1>5 DEF StateTypes, vars, device, task, ep0, ints, host, wire
<1> QED
  BY <1>1, <1>2, <1>3, <1>4, <1>5 DEF Next

\* A request that comes while another is being answered, and may get a packet
\* of that answer, is stalled in the end: its own never starts.
Overtaken ==
    /\ USB_ControlRequest.name \in Streamed
    /\ pc \in {"write", "write_in", "write_status", "written", "status", "standard", "final"}
    /\ pc = "standard" => USB_ControlRequest.name \in VendorIn

\* What the host has, what is in the bank and what is still to be written are
\* never more than one answer.
CountInv ==
    /\ left \in 0 .. 46 /\ inBank \in 0 .. FIXED_CONTROL_ENDPOINT_SIZE /\ hgot \in 0 .. 46
    /\ TXINI => inBank = 0
    /\ ~Idle /\ RXSTPI # NoRequest => (hgot = 0 /\ inBank = 0) \/ Overtaken
    /\ ~Idle => hgot + inBank <= 46
    /\ ~Idle /\ pc \in {"write", "write_in"} => hgot + inBank + left <= 46

LEMMA CountInit == Init => CountInv
BY DEF Init, CountInv, Idle, FIXED_CONTROL_ENDPOINT_SIZE

\* A packet is given, or an answer begins: the host had nothing of it yet.
LEMMA CountGives ==
    ASSUME ServeInv, CountInv,
           VendorRequest \/ GetDescriptor \/ GetByte \/ WriteIN \/ ClearStatusStage
    PROVE  CountInv'
<1>1. UNCHANGED <<hphase, hgot, USB_ControlRequest>>
  BY DEF VendorRequest, GetDescriptor, GetByte, WriteIN, ClearStatusStage, host, task
<1>2. left \in 0 .. 46 /\ inBank \in 0 .. 32 /\ hgot \in 0 .. 46
  BY DEF CountInv, FIXED_CONTROL_ENDPOINT_SIZE
<1>3. CASE VendorRequest \/ GetDescriptor \/ GetByte
  <2>1. ~Idle => hgot = 0 /\ inBank = 0
    <3>1. /\ RXSTPI # NoRequest \/ pc = "event"
          /\ pc \in {"event", "standard"}
          /\ pc = "standard" => USB_ControlRequest.name \notin VendorIn
      BY <1>3, NamesApart DEF VendorRequest, GetDescriptor, GetByte, Goto, SETUPReceived, StandardIn
    <3> QED
      BY <3>1 DEF ServeInv, CountInv, Overtaken
  <2>2. RXSTPI' = NoRequest
    BY <1>3 DEF VendorRequest, GetDescriptor, GetByte, ClearSETUP
  <2>3. CASE GetByte
    <3>1. ~TXINI' /\ inBank' = SizeOf(USB_ControlRequest.name) /\ left' = left /\ pc' = "status"
          /\ USB_ControlRequest.name \in {"GET_CONFIGURATION", "GET_STATUS"}
      BY <2>3 DEF GetByte, Give, Goto, task
    <3>2. inBank' \in 0 .. 2
      BY <3>1 DEF SizeOf, Descriptors, DescriptorSize
    <3> QED
      BY <1>1, <1>2, <2>1, <2>2, <3>1, <3>2 DEF CountInv, Idle, FIXED_CONTROL_ENDPOINT_SIZE
  <2>4. CASE VendorRequest \/ GetDescriptor
    <3>1. /\ UNCHANGED <<TXINI, inBank>>
          /\ \/ pc' = "status" /\ left' = left
             \/ /\ pc' = "write"
                /\ left' = Smaller(SizeOf(USB_ControlRequest.name), USB_ControlRequest.wLength)
      BY <2>4 DEF VendorRequest, GetDescriptor, StartStream
    <3>2. Smaller(SizeOf(USB_ControlRequest.name), USB_ControlRequest.wLength) \in 0 .. 46
      <4>1. USB_ControlRequest \in Requests \cup {NoRequest}
        BY DEF ServeInv
      <4> QED
        BY <4>1, ReplyBounds
    <3>3. PICK n \in 0 .. 46 : left' = n
      BY <1>2, <3>1, <3>2
    <3>4. ~Idle' => hgot' + inBank' <= 46 /\ hgot' + inBank' + left' <= 46
      BY <1>1, <2>1, <3>1, <3>3 DEF Idle
    <3>5. TXINI' => inBank' = 0
      BY <3>1 DEF CountInv
    <3> QED
      BY <1>1, <1>2, <2>2, <3>1, <3>3, <3>4, <3>5 DEF CountInv, FIXED_CONTROL_ENDPOINT_SIZE
  <2> QED
    BY <1>3, <2>3, <2>4
<1>4. CASE WriteIN
  <2>1. /\ pc = "write_in" /\ pc' = "write" /\ UNCHANGED RXSTPI
        /\ USB_ControlRequest.name \in Streamed
    BY <1>4 DEF WriteIN, Goto, ServeInv
  <2>2. Overtaken'
    BY <1>1, <2>1 DEF Overtaken
  <2>3. CASE ~TXINI
    <3>1. UNCHANGED <<TXINI, inBank, left>>
      BY <1>4, <2>3 DEF WriteIN
    <3> QED
      BY <1>1, <2>1, <2>2, <3>1 DEF CountInv, Idle
  <2>4. CASE TXINI
    <3> DEFINE bytes == Smaller(left, FIXED_CONTROL_ENDPOINT_SIZE)
    <3>1. ~TXINI' /\ inBank' = bytes /\ left' = left - bytes
      BY <1>4, <2>4 DEF WriteIN, Give
    <3>2. bytes \in 0 .. 32 /\ bytes <= left
      BY <1>2 DEF Smaller, FIXED_CONTROL_ENDPOINT_SIZE
    <3> HIDE DEF bytes
    <3>3. inBank = 0 /\ (~Idle => hgot + inBank + left <= 46)
      BY <2>1, <2>4 DEF CountInv
    <3>4. /\ left' \in 0 .. 46 /\ inBank' \in 0 .. 32
          /\ ~Idle => hgot + inBank' + left' <= 46 /\ hgot + inBank' <= 46
      BY <1>2, <3>1, <3>2, <3>3
    <3> QED
      BY <1>1, <1>2, <2>1, <2>2, <3>1, <3>4 DEF CountInv, Idle, FIXED_CONTROL_ENDPOINT_SIZE
  <2> QED
    BY <2>3, <2>4
<1>5. CASE ClearStatusStage
  <2>1. /\ pc = "status" /\ UNCHANGED <<RXSTPI, left>> /\ pc' \notin {"write", "write_in"}
        /\ USB_ControlRequest.name \in Streamed => pc' = "standard" \/ pc' = "final"
        /\ pc' = "standard" /\ USB_ControlRequest.name \in Streamed =>
              USB_ControlRequest.name \in VendorIn
        /\ \/ UNCHANGED <<TXINI, inBank>>
           \/ ~TXINI' /\ inBank' = 0
    BY <1>5, NamesApart DEF ClearStatusStage, AfterStatus, Goto, Give, task, Streamed, VendorOut,
                            VendorIn, Descriptors, DescriptorSize
  <2>2. Overtaken => Overtaken'
    BY <1>1, <2>1 DEF Overtaken
  <2>3. CASE UNCHANGED <<TXINI, inBank>>
    BY <1>1, <1>2, <2>1, <2>2, <2>3 DEF CountInv, Idle
  <2>4. CASE ~TXINI' /\ inBank' = 0
    BY <1>1, <1>2, <2>1, <2>2, <2>4 DEF CountInv, Idle, FIXED_CONTROL_ENDPOINT_SIZE
  <2> QED
    BY <2>1, <2>3, <2>4
<1> QED
  BY <1>3, <1>4, <1>5

LEMMA CountTask ==
    ASSUME ServeInv, CountInv, Task
    PROVE  CountInv'
<1>1. CASE VendorRequest \/ GetDescriptor \/ GetByte \/ WriteIN \/ ClearStatusStage
  BY <1>1, CountGives
<1>2. ASSUME ~(VendorRequest \/ GetDescriptor \/ GetByte \/ WriteIN \/ ClearStatusStage)
      PROVE  CountInv'
  <2>1. UNCHANGED <<TXINI, inBank, hphase, hgot>> /\ left' \in {left, 0}
    BY <1>2 DEF Task, OnlyPC, task, ep0, host, Select, EnterUSBTask, LeaveUSBTask, EnterTask,
                UseOUT, UseIN, ResetOUT, ResetIN, Poll, OtherRequest, NoStandardRequest,
                SetAddress, SetConfiguration, ClearSetFeature, Feature, FeatureDone, WriteTest,
                WriteStatus, Written, EnableAddress, StoreAddressed, TestConfiguration,
                StoreState, ConfigureIN, ConfigureOUT, StallUnhandled
  <2>2. pc' \in {"write", "write_in"} => pc \in {"write", "write_in"} /\ left' = left
    BY <1>2 DEF Task, OnlyPC, Goto, task, Select, Selects, EnterUSBTask, LeaveUSBTask, After,
                EnterTask, UseOUT, UseIN, ResetOUT, ResetIN, Poll, OtherRequest,
                NoStandardRequest, SetAddress, SetConfiguration, ClearSetFeature, Feature,
                FeatureDone, WriteTest, WriteStatus, Written, EnableAddress, StoreAddressed,
                TestConfiguration, StoreState, ConfigureIN, ConfigureOUT, StallUnhandled
  <2>3. ASSUME Overtaken, RXSTPI' # NoRequest
        PROVE  Overtaken'
    <3>1. CASE pc \in {"write", "write_in", "write_status", "written", "status"}
      <4>1. WriteTest \/ WriteStatus \/ Written
        BY <1>2, <3>1 DEF Task, Goto, Select, Selects, EnterUSBTask, LeaveUSBTask, EnterTask,
           UseOUT, UseIN, ResetOUT, ResetIN, Poll, OtherRequest, NoStandardRequest, SetAddress,
           SetConfiguration, ClearSetFeature, Feature, FeatureDone, EnableAddress, StoreAddressed,
           TestConfiguration, StoreState, ConfigureIN, ConfigureOUT, StallUnhandled
      <4> QED
        BY <2>3, <3>1, <4>1 DEF Overtaken, WriteTest, WriteStatus, Written, Goto, OnlyPC, task
    <3>2. CASE pc = "standard"
      <4>1. NoStandardRequest
        BY <1>2, <2>3, <3>2, NamesApart DEF Overtaken, Task, Goto, Select, Selects, EnterUSBTask,
           LeaveUSBTask, EnterTask, UseOUT, UseIN, ResetOUT, ResetIN, Poll, OtherRequest,
           SetAddress, SetConfiguration, ClearSetFeature, Feature, FeatureDone, WriteTest,
           WriteStatus, Written, EnableAddress, StoreAddressed, TestConfiguration, StoreState,
           ConfigureIN, ConfigureOUT, StallUnhandled
      <4> QED
        BY <2>3, <4>1 DEF Overtaken, NoStandardRequest, Goto, OnlyPC, task
    <3>3. CASE pc = "final"
      <4>1. StallUnhandled
        BY <1>2, <3>3 DEF Task, Goto, Select, Selects, EnterUSBTask, LeaveUSBTask, EnterTask,
           UseOUT, UseIN, ResetOUT, ResetIN, Poll, OtherRequest, NoStandardRequest, SetAddress,
           SetConfiguration, ClearSetFeature, Feature, FeatureDone, WriteTest, WriteStatus, Written,
           EnableAddress, StoreAddressed, TestConfiguration, StoreState, ConfigureIN, ConfigureOUT
      <4>2. UENUM = "control"
        BY <2>3, <3>3, NamesApart DEF ServeInv, Overtaken
      <4> QED
        BY <2>3, <4>1, <4>2 DEF StallUnhandled, SETUPReceived, ClearSETUP
    <3> QED
      BY <2>3, <3>1, <3>2, <3>3 DEF Overtaken
  <2>4. left \in 0 .. 46 /\ inBank \in 0 .. 32 /\ hgot \in 0 .. 46 /\ left' \in 0 .. 46
    BY <2>1 DEF CountInv, FIXED_CONTROL_ENDPOINT_SIZE
  <2>5. RXSTPI' # NoRequest => RXSTPI # NoRequest
    BY TaskServes
  <2> QED
    BY <2>1, <2>2, <2>3, <2>4, <2>5 DEF CountInv, Idle, FIXED_CONTROL_ENDPOINT_SIZE
<1> QED
  BY <1>1, <1>2

LEMMA CountStep ==
    ASSUME ServeInv, CountInv, [Next]_vars
    PROVE  CountInv'
<1>1. CASE Task
  BY <1>1, CountTask
<1>2. left \in 0 .. 46 /\ inBank \in 0 .. 32 /\ hgot \in 0 .. 46
  BY DEF CountInv, FIXED_CONTROL_ENDPOINT_SIZE
<1>3. CASE BusReset \/ Setup
  <2>1. inBank' = 0 /\ hgot' = 0 /\ UNCHANGED <<left, pc>>
    BY <1>3 DEF BusReset, Setup, task
  <2> QED
    BY <1>2, <2>1 DEF CountInv, FIXED_CONTROL_ENDPOINT_SIZE
<1>4. CASE ReceiveIN
  <2>1. /\ ~Idle /\ inBank' = 0 /\ hgot' = hgot + inBank
        /\ UNCHANGED <<left, pc, RXSTPI, USB_ControlRequest>>
    BY <1>4 DEF ReceiveIN, Idle, task
  <2>2. hgot + inBank <= 46 /\ (pc \in {"write", "write_in"} => hgot + inBank + left <= 46)
    BY <2>1 DEF CountInv
  <2>3. /\ hgot' \in 0 .. 46 /\ hgot' + inBank' <= 46
        /\ pc \in {"write", "write_in"} => hgot' + inBank' + left <= 46
    BY <1>2, <2>1, <2>2
  <2>4. RXSTPI' # NoRequest => (hgot' = 0 /\ inBank' = 0) \/ Overtaken'
    BY <1>2, <2>1 DEF CountInv, Overtaken
  <2> QED
    BY <1>2, <2>1, <2>3, <2>4 DEF CountInv, FIXED_CONTROL_ENDPOINT_SIZE
<1>5. CASE SendStatus \/ SeeStall \/ GiveUp
  <2>1. /\ hphase' = "idle" /\ UNCHANGED <<left, hgot>>
        /\ \/ UNCHANGED <<inBank, TXINI>>
           \/ inBank' = 0
    BY <1>5 DEF SendStatus, SeeStall, GiveUp, task, ep0
  <2> QED
    BY <1>2, <2>1 DEF CountInv, Idle, FIXED_CONTROL_ENDPOINT_SIZE
<1>6. CASE Interrupt \/ Activity \/ Suspend \/ UNCHANGED vars
  <2>1. UNCHANGED <<left, inBank, hgot, hphase, TXINI, RXSTPI, pc, USB_ControlRequest>>
    BY <1>6 DEF Interrupt, SUSPI, WAKEUPI, EORSTI, Activity, Suspend, vars, task, ep0, host
  <2> QED
    BY <2>1 DEF CountInv, Idle, Overtaken
<1> QED
  BY <1>1, <1>3, <1>4, <1>5, <1>6 DEF Next, HostGoesOn

\* Variables keep their types, whatever the host does.  A host that begins a
\* request while another is being answered may get a packet of that answer,
\* but never more bytes than one answer has: the stream ends when a SETUP
\* packet waits (Template_Endpoint_Control_W.c:52).
THEOREM TypesOK == Spec => []TypeOK
<1>1. ASSUME StateTypes, ServeInv, CountInv PROVE TypeOK
  <2>1. {left, inBank, hgot} \subseteq 0 .. 64
    BY <1>1 DEF CountInv, FIXED_CONTROL_ENDPOINT_SIZE
  <2> QED
    BY <1>1, <2>1 DEF TypeOK, StateTypes, ServeInv
<1>2. StateTypes /\ ServeInv /\ CountInv /\ [Next]_vars => StateTypes' /\ ServeInv' /\ CountInv'
  BY StateStep, ServeStep, CountStep
<1> QED
  BY <1>1, <1>2, StateInit, ServeInit, CountInit, PTL DEF Spec

-----------------------------------------------------------------------------
(* Addresses and configurations, for a host that resets the bus but once.  *)

\* The bus reset takes back an address: there is none before it.  A request
\* being served is one of the host since then.
AddressInv ==
    /\ RXSTPI.name \in AddressRequests => haddr
    /\ pc \in Served /\ USB_ControlRequest.name \in AddressRequests => haddr
    /\ pc \in {"address", "address_state"} => USB_ControlRequest.name \in AddressRequests
    /\ ADDEN \/ USB_DeviceState = "Addressed" => haddr

\* What wakes the device comes before it is given an address: the end of the
\* silence before the bus reset, or of the one after it.
WakeInv ==
    /\ "SUSPI" \in UDIEN \/ "WAKEUPI" \in UDIEN
    /\ bus = "new" \/ bus = "idle" => ~haddr
    /\ "WAKEUPI" \in UDINT =>
          ~haddr /\ ("WAKEUPI" \in UDIEN \/ "SUSPI" \in UDINT \cap UDIEN)
    /\ bus = "new" /\ asleep => "WAKEUPI" \in UDIEN \/ "SUSPI" \in UDINT \cap UDIEN
    /\ bus = "idle" /\ "EORSTI" \notin UDINT => "WAKEUPI" \in UDIEN \ UDINT

\* The state follows the configuration, at the latest when it is stored.
ConfigurationInv ==
    /\ {USB_ControlRequest, RXSTPI} \subseteq Requests \cup {NoRequest}
    /\ pc \in {"write", "write_in", "write_status", "written"} =>
          USB_ControlRequest.name \in Streamed
    /\ pc \in Featured => USB_ControlRequest.name = "FEATURE"
    /\ pc = "status" /\ USB_ControlRequest.name = "SET_CONFIGURATION" =>
          USB_Device_ConfigurationNumber # 0
    /\ pc \in {"state_test", "state_configured"} \/ USB_DeviceState = "Configured" =>
          USB_Device_ConfigurationNumber # 0
LEMMA NamesOfRequests ==
    ASSUME NEW r \in Requests \cup {NoRequest}
    PROVE  r.name \in Names \cup {"none"}
BY DEF Requests, NoRequest

LEMMA AddressInit == Init => AddressInv /\ WakeInv /\ ConfigurationInv
BY DEF Init, AddressInv, WakeInv, ConfigurationInv, NoRequest, AddressRequests, Served,
       ControlSteps, Featured

\* The task: SetAddress leads to EnableAddress, which leads to StoreAddressed,
\* and nothing else does.
LEMMA AddressTask ==
    ASSUME SInv, AddressInv, Task
    PROVE  AddressInv'
<1> USE DEF AddressInv, AddressRequests
<1>1. UNCHANGED haddr /\ RXSTPI' \in {RXSTPI, NoRequest}
  BY DEF Task, OnlyPC, host, ep0, ClearSETUP, Select, EnterUSBTask, LeaveUSBTask, EnterTask, UseOUT,
         UseIN, ResetOUT, ResetIN, Poll, VendorRequest, OtherRequest, NoStandardRequest, SetAddress,
         SetConfiguration, GetByte, GetDescriptor, ClearSetFeature, Feature, FeatureDone,
         WriteTest, WriteIN, WriteStatus, Written, ClearStatusStage, EnableAddress, StoreAddressed,
         TestConfiguration, StoreState, ConfigureIN, ConfigureOUT, StallUnhandled
<1>2. CASE Poll
  BY <1>1, <1>2 DEF Poll, device, NoRequest, Served, ControlSteps
<1>3. CASE EnableAddress \/ StoreAddressed
  BY <1>1, <1>3 DEF EnableAddress, StoreAddressed, Goto, task, ep0, Served, ControlSteps
<1>4. CASE ClearStatusStage
  BY <1>1, <1>4 DEF ClearStatusStage, AfterStatus, Goto, device, task, Served, ControlSteps,
                    NoRequest
<1>5. ASSUME ~(Poll \/ EnableAddress \/ StoreAddressed \/ ClearStatusStage)
      PROVE  /\ UNCHANGED USB_ControlRequest
             /\ pc' \in Served => pc \in Served
             /\ pc' \notin {"address", "address_state"}
             /\ ADDEN' = ADDEN
             /\ USB_DeviceState' \in {USB_DeviceState, "Configured", "Powered"}
  BY <1>5 DEF Task, OnlyPC, task, device, Served, ControlSteps, Select, Selects, EnterUSBTask,
         LeaveUSBTask, After, Goto, StartStream, EnterTask, UseOUT, UseIN, ResetOUT, ResetIN,
         VendorRequest, OtherRequest, NoStandardRequest, SetAddress, SetConfiguration, GetByte,
         GetDescriptor, ClearSetFeature, Feature, FeatureDone, WriteTest, WriteIN, WriteStatus,
         Written, TestConfiguration, StoreState, ConfigureIN, ConfigureOUT, StallUnhandled
<1> QED
  BY <1>1, <1>2, <1>3, <1>4, <1>5 DEF NoRequest

LEMMA AddressStep ==
    ASSUME Resets = FALSE, SInv, AddressInv, [Next]_vars
    PROVE  AddressInv'
<1>1. CASE Task
  BY <1>1, AddressTask
<1>2. CASE Interrupt
  BY <1>2 DEF Interrupt, SUSPI, WAKEUPI, EORSTI, StateOfConfiguration, AddressInv, task, ep0, host
<1>3. CASE BusReset
  <2>1. bus = "new" /\ USB_DeviceState = "Unattached" /\ pc \in {"usb", "task"} \cup ResetSteps
    BY <1>3 DEF BusReset, SInv, FirstResetInv
  <2> QED
    BY <1>3, <2>1 DEF BusReset, AddressInv, AddressRequests, ResetSteps, Served, ControlSteps,
                      NoRequest
<1>4. CASE Setup
  BY <1>4 DEF Setup, AddressInv, device, task
<1>5. CASE Activity \/ Suspend \/ HostGoesOn \/ GiveUp \/ UNCHANGED vars
  BY <1>5 DEF Activity, Suspend, HostGoesOn, ReceiveIN, SendStatus, SeeStall, GiveUp, vars, device,
              task, ep0, host, AddressInv
<1> QED
  BY <1>1, <1>2, <1>3, <1>4, <1>5 DEF Next

\* If the bus is reset but once, the device goes by no address the host has
\* not given it: that a reset is overwritten (DeviceStandardReq.c:139) is the
\* only way to one.
THEOREM AddressIsFromHost ==
    ASSUME Resets = FALSE PROVE Spec => []AddressFromHost
<1>1. AddressInv => AddressFromHost
  BY DEF AddressInv, AddressFromHost
<1>2. SInv /\ AddressInv /\ [Next]_vars => SInv' /\ AddressInv'
  BY SelectStep, AddressStep
<1> QED
  BY <1>1, <1>2, SelectInit, AddressInit, PTL DEF Spec

LEMMA WakeStep ==
    ASSUME Resets = FALSE, Suspends = FALSE, SInv, WakeInv, [Next]_vars
    PROVE  WakeInv'
<1> USE DEF WakeInv
<1>1. CASE Task
  <2>1. UNCHANGED <<UDINT, UDIEN, bus, asleep>>
    BY <1>1, TaskStores
  <2>2. UNCHANGED haddr
    BY <1>1 DEF Task, OnlyPC, host, Select, EnterUSBTask, LeaveUSBTask, EnterTask, UseOUT, UseIN,
         ResetOUT, ResetIN, Poll, VendorRequest, OtherRequest, NoStandardRequest, SetAddress,
         SetConfiguration, GetByte, GetDescriptor, ClearSetFeature, Feature, FeatureDone,
         WriteTest, WriteIN, WriteStatus, Written, ClearStatusStage, EnableAddress, StoreAddressed,
         TestConfiguration, StoreState, ConfigureIN, ConfigureOUT, StallUnhandled
  <2> QED
    BY <2>1, <2>2
<1>2. CASE SUSPI
  BY <1>2 DEF SUSPI, host, wire
<1>3. CASE WAKEUPI
  <2>1. bus # "new"
    BY <1>3 DEF WAKEUPI, SInv, FirstResetInv
  <2>2. bus = "idle" => "EORSTI" \in UDINT
    BY <1>3 DEF WAKEUPI
  <2> QED
    BY <1>3, <2>1, <2>2 DEF WAKEUPI, host, wire
<1>4. CASE EORSTI
  <2>1. "WAKEUPI" \notin UDINT /\ bus # "new"
    BY <1>4 DEF EORSTI, SInv, FirstResetInv
  <2> QED
    BY <1>4, <2>1 DEF EORSTI, host, wire
<1>5. CASE BusReset
  BY <1>5 DEF BusReset
<1>6. CASE Activity
  <2>1. "EORSTI" \notin UDINT
    BY <1>6 DEF Activity, Pending, SInv, FirstResetInv
  <2> QED
    BY <1>6, <2>1 DEF Activity, host
<1>7. CASE Suspend
  BY <1>7 DEF Suspend, host
<1>8. CASE Setup
  <2>1. "WAKEUPI" \notin UDINT /\ bus = "active"
    BY <1>8 DEF Setup, Pending
  <2> QED
    BY <1>8, <2>1 DEF Setup, ints, wire
<1>9. CASE HostGoesOn \/ GiveUp \/ UNCHANGED vars
  BY <1>9 DEF HostGoesOn, ReceiveIN, SendStatus, SeeStall, GiveUp, vars, ints, wire, host
<1> QED
  BY <1>1, <1>2, <1>3, <1>4, <1>5, <1>6, <1>7, <1>8, <1>9 DEF Next, Interrupt

\* SetConfiguration leads to StoreState, and nothing else does.
LEMMA ConfigurationTask ==
    ASSUME "UNSET_CONFIGURATION" \notin Names, ConfigurationInv, Task
    PROVE  ConfigurationInv'
<1>0. /\ {USB_ControlRequest, RXSTPI} \subseteq Requests \cup {NoRequest}
      /\ USB_ControlRequest.name # "UNSET_CONFIGURATION"
  <2>1. {USB_ControlRequest, RXSTPI} \subseteq Requests \cup {NoRequest}
    BY DEF ConfigurationInv
  <2> QED
    BY <2>1, NamesOfRequests
<1>1. {USB_ControlRequest, RXSTPI}' \subseteq Requests \cup {NoRequest}
  <2>1. RXSTPI' \in {RXSTPI, NoRequest} /\ USB_ControlRequest' \in {RXSTPI, USB_ControlRequest}
    BY DEF Task, OnlyPC, ep0, task, ClearSETUP, Select, EnterUSBTask, LeaveUSBTask, EnterTask,
           UseOUT, UseIN, ResetOUT, ResetIN, Poll, VendorRequest, OtherRequest, NoStandardRequest,
           SetAddress, SetConfiguration, GetByte, GetDescriptor, ClearSetFeature, Feature,
           FeatureDone, WriteTest, WriteIN, WriteStatus, Written, ClearStatusStage, EnableAddress,
           StoreAddressed, TestConfiguration, StoreState, ConfigureIN, ConfigureOUT,
           StallUnhandled
  <2> QED
    BY <1>0, <2>1
<1> DEFINE Writes == {"write", "write_in", "write_status", "written"}
           Stores == {"state_test", "state_configured"}
<1>2. CASE SetConfiguration
  <2>1. /\ pc' = "status" /\ UNCHANGED <<USB_ControlRequest, USB_DeviceState>>
        /\ USB_Device_ConfigurationNumber' = 1
    BY <1>0, <1>2 DEF SetConfiguration, ConfigurationRequests, Goto, task
  <2> QED
    BY <1>1, <2>1 DEF ConfigurationInv, Featured
<1>3. CASE Poll
  <2>1. pc' \in {"event", "restore"} /\ UNCHANGED device
    BY <1>3 DEF Poll
  <2> QED
    BY <1>1, <2>1 DEF ConfigurationInv, Featured, device
<1>4. CASE ClearStatusStage
  <2>1. /\ pc = "status" /\ UNCHANGED <<USB_ControlRequest, device>>
        /\ pc' \in {"address", "state_test", "standard", "final"}
        /\ pc' = "state_test" => USB_ControlRequest.name = "SET_CONFIGURATION"
    BY <1>0, <1>4 DEF ClearStatusStage, AfterStatus, AddressRequests, ConfigurationRequests, Goto,
                      task
  <2> QED
    BY <1>1, <2>1 DEF ConfigurationInv, Featured, device
<1>5. CASE TestConfiguration \/ StoreState
  <2>1. /\ UNCHANGED <<USB_ControlRequest, USB_Device_ConfigurationNumber>>
        /\ pc' \in {"state_configured", "state_powered", "config_in_select"}
        /\ pc' = "state_configured" => pc = "state_test"
        /\ USB_DeviceState' = "Configured" =>
              USB_DeviceState = "Configured" \/ pc = "state_configured"
    BY <1>5 DEF TestConfiguration, StoreState, Goto, OnlyPC, device, task
  <2> QED
    BY <1>1, <2>1 DEF ConfigurationInv, Featured
<1>6. CASE VendorRequest \/ GetDescriptor \/ GetByte \/ SetAddress \/ FeatureDone \/ Written
  <2>1. /\ UNCHANGED <<USB_ControlRequest, device>>
        /\ pc' \in {"write", "status", "final"}
        /\ pc' = "write" => USB_ControlRequest.name \in Streamed
        /\ pc' = "status" => USB_ControlRequest.name # "SET_CONFIGURATION"
    BY <1>6, NamesApart DEF VendorRequest, GetDescriptor, GetByte, SetAddress, FeatureDone, Written,
                            AddressRequests, ConfigurationRequests, StartStream, Goto, task,
                            Streamed, Featured, ConfigurationInv
  <2> QED
    BY <1>1, <2>1 DEF ConfigurationInv, Featured, device
<1>7. CASE ClearSetFeature
  <2>1. /\ UNCHANGED <<USB_ControlRequest, device>>
        /\ pc' \in {"feature_select", "feature_back"}
        /\ USB_ControlRequest.name = "FEATURE"
    BY <1>7 DEF ClearSetFeature, Goto, OnlyPC, task
  <2> QED
    BY <1>1, <2>1 DEF ConfigurationInv, Featured, device
<1>8. CASE EnableAddress \/ StoreAddressed
  <2>1. /\ UNCHANGED <<USB_ControlRequest, USB_Device_ConfigurationNumber>>
        /\ pc' \in {"address_state", "final"}
        /\ USB_DeviceState' \in {USB_DeviceState, "Default", "Addressed"}
    BY <1>8 DEF EnableAddress, StoreAddressed, Goto, task
  <2> QED
    BY <1>1, <2>1 DEF ConfigurationInv, Featured
<1>9. CASE \/ Select \/ EnterUSBTask \/ LeaveUSBTask \/ EnterTask \/ UseOUT \/ UseIN
           \/ ResetOUT \/ ResetIN \/ OtherRequest \/ NoStandardRequest \/ Feature
           \/ WriteTest \/ WriteIN \/ WriteStatus \/ ConfigureIN \/ ConfigureOUT \/ StallUnhandled
  <2>1. UNCHANGED <<USB_ControlRequest, device>>
    BY <1>9 DEF Select, EnterUSBTask, LeaveUSBTask, EnterTask, UseOUT, UseIN, ResetOUT, ResetIN,
                OtherRequest, NoStandardRequest, Feature, WriteTest, WriteIN, WriteStatus,
                ConfigureIN, ConfigureOUT, StallUnhandled, OnlyPC, task
  <2>2. /\ pc' \notin Stores /\ pc' # "status"
        /\ pc' \in Writes => pc \in Writes
        /\ pc' \in Featured => pc \in Featured
    BY <1>9 DEF Select, Selects, EnterUSBTask, LeaveUSBTask, After, EnterTask, UseOUT, UseIN,
                ResetOUT, ResetIN, OtherRequest, NoStandardRequest, Feature, WriteTest, WriteIN,
                WriteStatus, ConfigureIN, ConfigureOUT, StallUnhandled, Goto, Featured
  <2> QED
    BY <1>1, <2>1, <2>2 DEF ConfigurationInv, device
<1> QED
  BY <1>2, <1>3, <1>4, <1>5, <1>6, <1>7, <1>8, <1>9 DEF Task

LEMMA ConfigurationStep ==
    ASSUME Resets = FALSE, Suspends = FALSE, "UNSET_CONFIGURATION" \notin Names,
           SInv, AddressInv, WakeInv, ConfigurationInv, [Next]_vars
    PROVE  ConfigurationInv'
<1>1. CASE Task
  BY <1>1, ConfigurationTask
<1>2. CASE SUSPI
  BY <1>2 DEF SUSPI, task, ep0, ConfigurationInv
<1>3. CASE WAKEUPI
  <2>1. ~ADDEN
    BY <1>3 DEF WAKEUPI, WakeInv, AddressInv
  <2> QED
    BY <1>3, <2>1 DEF WAKEUPI, StateOfConfiguration, task, ep0, ConfigurationInv
<1>4. CASE EORSTI
  <2>1. pc \in {"usb", "task"}
    BY <1>4 DEF EORSTI, SInv, FirstResetInv
  <2> QED
    BY <1>4, <2>1 DEF EORSTI, task, ep0, ConfigurationInv, Featured
<1>5. CASE BusReset
  BY <1>5 DEF BusReset, task, ConfigurationInv
<1>6. CASE Setup
  BY <1>6 DEF Setup, device, task, ConfigurationInv
<1>7. CASE Activity \/ Suspend \/ HostGoesOn \/ GiveUp \/ UNCHANGED vars
  BY <1>7 DEF Activity, Suspend, HostGoesOn, ReceiveIN, SendStatus, SeeStall, GiveUp, vars, device,
              task, ep0, ConfigurationInv
<1> QED
  BY <1>1, <1>2, <1>3, <1>4, <1>5, <1>6, <1>7 DEF Next, Interrupt

\* "Device must be connected and configured for the task to run"
\* (VUEEvents.c:46): so it is for a host that resets the bus but once, does
\* not suspend it and does not take the configuration back, early and
\* given-up requests notwithstanding.
THEOREM TaskOnlyConfigured ==
    ASSUME Resets = FALSE, Suspends = FALSE, "UNSET_CONFIGURATION" \notin Names
    PROVE  Spec => TaskRunsConfigured
<1> DEFINE I == SInv /\ AddressInv /\ WakeInv /\ ConfigurationInv
<1>1. I /\ [Next]_vars
        => [pc = "task" /\ pc' = "out_select" => USB_Device_ConfigurationNumber # 0]_vars
  <2> SUFFICES ASSUME I, [Next]_vars, pc = "task", pc' = "out_select"
               PROVE  USB_Device_ConfigurationNumber # 0
    OBVIOUS
  <2>1. EnterTask
    BY DEF Next, Interrupt, SUSPI, WAKEUPI, EORSTI, Task, BusReset, Activity, Suspend, Setup,
           HostGoesOn, ReceiveIN, SendStatus, SeeStall, GiveUp, vars, Select, Selects,
           EnterUSBTask, LeaveUSBTask, UseOUT, UseIN, ResetOUT, ResetIN, Poll, VendorRequest,
           OtherRequest, NoStandardRequest, SetAddress, SetConfiguration, GetByte, GetDescriptor,
           ClearSetFeature, Feature, FeatureDone, WriteTest, WriteIN, WriteStatus, Written,
           ClearStatusStage, EnableAddress, StoreAddressed, TestConfiguration, StoreState,
           ConfigureIN, ConfigureOUT, StallUnhandled, Goto
  <2> QED
    BY <2>1 DEF EnterTask, Goto, TaskMayRun, ConfigurationInv
<1>2. I /\ [Next]_vars => I'
  BY SelectStep, AddressStep, WakeStep, ConfigurationStep
<1>3. Init => I
  BY SelectInit, AddressInit
<1> HIDE DEF I
<1> QED
  BY <1>1, <1>2, <1>3, PTL DEF Spec, TaskRunsConfigured
=============================================================================
