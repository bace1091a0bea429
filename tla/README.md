# A verification model of the VUE Cart Reader firmware

The firmware (`src/src/*.c`) runs on an ATmega32U2 and connects a USB host to a
Virtual Boy cartridge: a host opens a transfer with a 32 byte command on a bulk
OUT endpoint and then writes data to it, or reads data from a bulk IN endpoint;
vendor control requests reset the device, read the ROM header or start the
bootloader.  The cartridge sits behind a multiplexed address/data bus with two
address latches that the firmware drives pin by pin.

## Inventory

| component | state | operations | what makes it correct |
|---|---|---|---|
| bus driver `vue.c` | ports B, C, D; behind them the lower latch (A0-A14) and the upper one (A15-A22, chip selects, lamp) | `vue_write_address_lo15/full`, `vue_write_address`, six access functions, `vue_inc_address` | every strobe at the right address and on one chip; lanes never driven from both sides; a write drives the lanes it strobes; the bus is released afterwards; the loops stay in the buffer and end |
| command state machine `VUEEvents.c` | `cur_vue_state`, `cur_command` (its length counts down), `cur_cmd_phase`, `bulk_address`, `bulk_access_func`, `bulk_buffer` | `VUE_Task`, `VUE_Command_Task`, `VUE_BulkWrite_Task`, `VUE_BulkRead_Task` | commands are not taken for data or data for commands; bytes arrive complete and in order; the remaining length is right; the end of a transfer is the same for host and device |
| main loop `main.c` | `bulk_reset`, `tmp_bulk_reset` | `USB_USBTask`, `VUE_Task`, the bulk reset | a reset asked for anywhere is performed, nothing of the old transfer survives it, the cartridge is left alone until it is done |
| bootloader entry `main.c` | boot key in uninitialised RAM, watchdog, `MCUSR` | `enter_bootloader`, `bootloader_jmp_chk` | the bootloader starts after `REQ_ENTER_BOOTLOADER` and at no other start |
| vendor requests `USBEvents.c` | its own `address`, `i`, `my_buffer` | `REQ_RESET_ALL`, `REQ_WRITE_DEBUG`, `REQ_READ_HEADER`, `REQ_ENTER_BOOTLOADER`, `REQ_READ_DEBUG`, `REQ_GET_STATUS` | a control request does not disturb a transfer; the control endpoint never hangs |
| LUFA endpoints and streams | a bank with ready flag per endpoint, stall, data toggle, selected endpoint | `Endpoint_*`, `Endpoint_Read_Stream_LE`, `Endpoint_Write_Stream_LE` | the flags say whose bank it is; an error of a stream is not mistaken for its end |
| endpoint configuration `USBEvents.c` | banks of the bulk endpoints | `EVENT_USB_Device_ConfigurationChanged` | what it empties belongs to no transfer that goes on |
| USB descriptors `USBDescriptors.c` | none (constant tables) | `CALLBACK_USB_GetDescriptor` | the size it gives is the size sent |
| LUFA device core | `USB_DeviceState`, configuration, address | standard requests, USB interrupts | state and endpoints agree; an interrupt does not change the endpoint under the main loop; every request ends; the device wakes up |

They interact by calls in one thread.  `main` calls `USB_USBTask`, which serves
a control request that waits on endpoint 0; LUFA's streams call it again from
inside the bulk tasks.  `bulk_reset` carries a reset from the control request to
the main loop.  Both the bulk tasks and `REQ_READ_HEADER` drive the bus and
share its latches.  The USB hardware and the host move between any two
instructions; interrupt handlers touch device states and endpoint 0 only, but
share with the main loop the one register that selects an endpoint.  The boot key
carries a request from the application through a reset of the chip to the code
before `main`.

Hard to test: a reset or header read at every point of a transfer; the moment a
bank changes hands; a packet later than the 100 ms stream timeout; what is left
after an abort or a new configuration; a lost ACK around a reset; control
requests in the middle of a stream; bus resets and silences in any order; a reset
of the chip between any two steps of the way to the bootloader; the crossing of a
32K word boundary, where alone the upper latch is reloaded; the wrap of the 23 bit
address; odd lengths; the two 8 bit modes.  `PROJECT.json` lists these hazards with
their lines.

## Modules

| module | models | |
|---|---|---|
| `CartAccess` | what the access functions promise: a chip, a position, chunks of accesses at consecutive words | abstract specification |
| `VUEBus` | `vue.c` with its callers, pin by pin | refines `CartAccess` |
| `Transfer` | what the state machine promises: one transfer at a time, complete or reset | abstract specification |
| `VUEEvents` | `VUEEvents.c`, the loop of `main.c`, the banks, the host | refines `Transfer` |
| `BulkPipe` | data toggles, lost ACKs, the reset and CLEAR_FEATURE on both sides | |
| `USBDevice` | LUFA's device core, the vendor requests, the endpoint selector, the host's control transfers and the bus | |
| `Bootloader` | `bootloader_jmp_chk`, `enter_bootloader`, resets of the chip | |
| `VUEBusProofs`, `VUEBusRefinement`, `VUEEventsProofs`, `VUEEventsBytes`, `VUEEventsOrder`, `BulkPipeProofs`, `USBDeviceProofs`, `BootloaderProofs` | | theorems |
| `MCVUEBus`, `MCVUEEvents`, `MCBulkPipe`, `MCUSBDevice`, `MCBootloader` | | instances for TLC |

The modules cut the firmware by state, not by file: each has the variables its
properties need and the whole of every handler as far as those variables see it.
The main loop is in four of them.  `VUEBus` lets any caller come next; `VUEEvents`
says which one does; `USBDevice` lets the OUT half do any number of operations and
streams; `BulkPipe` drops what packets carry.  What one leaves open the other
closes, and no property depends on an order another module excludes.

### VUEBus

State: `dir` and `out` are DDRx and PORTx of the two lanes of the AD bus, `ctrl`
the high lines of port C, `lowLatch` and `hiLatch` the latches of the board.
`address`, `hdr`, `buffer`, `op`/`mode`, `length`, `i` are `bulk_address`,
`address` of `USBEvents.c`, `bulk_buffer`, `bulk_access_func`, and the argument
and counter of the running function; `pc` and `fn` say where the program
stands.  `gec` is the last cycle the connector saw.

A function is split at the points where the hardware could tell the difference:
`LoadLow` (A0-A14 on the bus, PL rises), `LoadHigh` (PL falls), `Release`; in a
read `Loop`, the address write, `OutputEnable`, `Sample`; in a write `PutData`,
`StrobeLow`, `StrobeHigh`, `WriteDone`.  The callers `Select`, `ReadChunk`,
`WriteChunk`, `Deselect` (bulk tasks), `ResetBus` (`main`) and `ReadHeader`
(`USBEvents.c`) are enabled in `pc = "idle"`: any of them may come next, which
is more than the state machine does.  No interrupt handler touches a port.

The 23 address bits are two digits, `hi` of `HiSize` values and `lo` of `LoSize`,
because the code treats them as two; address bits on a lane are one symbol
`AddrBits`.  External to `src/`, taken from how the code uses it: the lower latch
is transparent at the rise of PL, the upper one loads at the fall of PL when AD15
was raised before (only `vue_write_address_full` does that); a lane nobody drives
reads as anything.

### VUEEvents

State: `cur_vue_state`, `cur_command`, `left` (`cur_command.length`), `bulk_reset`
and `tmp_bulk_reset` as in the code; `pos` counts the bytes handed to the access
function and `selected` says whether a chip is; `outFull`/`outBank`,
`inReady`/`inBank`, `outStall` are the endpoints; `setup` is the request on
endpoint 0; `host`, `hcmd`, `hpos` the host's progress.  `cur_cmd_phase` is 1
whenever the state is not `IDLE`, since phase 0 runs inside `VUE_Command_Task`,
so it has no variable.

Bytes are numbered: `<<"data", c, j>>` is byte j of the transfer of command c, so
that lost, stale and misplaced bytes are visible without values.  One turn of
the main loop is `MainUSBTask`, then the OUT half (`StartStream`, `ReadStream`,
`StreamUSBTask`, `StreamTimeout`, `ExecCommand`/`ExecWrite`, or `BreakRead`,
`StallTransaction`; `ClearOUT`), the IN half (`BulkRead`, `TestFull`, `ClearIN`) and
the reset (`ResetDevice`, `ResetDone`).  Every step the hardware can get between is
a step of its own.

The host sends a command in a packet of its own, then data packets that line up
with the 64 byte chunks of the firmware, and may abort at any time with
`REQ_RESET_ALL`.  Four constants widen it: `Invalid` commands, `Splits` (a chunk or
command in several packets, with pauses of any length), `Unruly` (packets during
a read) and `~HostWaits` (new commands from the acknowledgement of a reset on).
A fifth, `Opens`, lets the host's program start anew in the middle of anything:
SET_CONFIGURATION empties both endpoints (`Open`, `ServeControl`) and nobody tells
the state machine.  A program that resets first (`"resetting"`) finds nothing left
over; for one that does not (`"plain"`) TLC refutes `CommandFraming`, `WriteInOrder`,
`ReadInOrder`, `NothingLeftOver` and `IdleTogether`: its first command is written
to the cartridge as data of the old write.

`Cartridge` maps the state to `Transfer`: `cur_vue_state`, the length and the bytes
accessed while a transfer runs and 0 otherwise, and `bulk_reset`.

### Transfer

One transfer at a time: `Start`; `FullChunk`, a packet's worth of bytes that is not
the end; `LastChunk`, the rest, which ends it; `AskReset`, `Reset` and `ResetDone`.
While a reset is due there is no start and no chunk, and it is done only when
the transfer is over.

### BulkPipe

State: `bulk_reset`, `stall`, `setup` as in `VUEEvents`; `reading` is `cur_vue_state =
READ`; `bank` says of each pipe whether a packet is in it, and whether it is one of
a transfer the host has given up (`"stale"`); `dev` and `hst` are the toggle of each
side, `retry` that the sender has no ACK of the packet it sent last; `phase` and
`todo` what the host is doing and which pipes it has still to clear.  `SendOUT` and
`ReceiveIN` are transactions whose ACK may be lost.  The reset of `main.c` is four
steps (`FlushOUT`, `FlushIN`, `ResetOUT`, `ResetIN`), and USB_USBTask serves one request
at most.  `Refuse` and `StallOUT` are apart, since a packet may come between the
flush and the stall (`VUEEvents.c:149`).

Two history variables count.  `ahead` is, per pipe, the packets the receiver has got
less those the sender takes for delivered.  Only REQ_RESET_ALL starts it anew, when
the host gives up its transfers.  A CLEAR_FEATURE does not: what
Endpoint_ResetEndpoint drops is taken off (`Drop`), and what was taken and is sent
again after the clear is counted twice.  `refused` says whether the firmware refused
what it got last.  When the host sees a STALL without the ACK of its last packet it
takes that packet for refused; `SeeStall` counts it as not sent if it was, and leaves
the count alone if it was executed.  The proof shows that it always was refused.

The code drops an acknowledged packet when a clear meets it
(`DeviceStandardReq.c:360`), so not every host is safe.  Two constants say which one
it is, and TLC refutes outside those of the run:

- `ExactlyOnce` and `ResetBeforeUse` if the host clears one pipe or none after
  REQ_RESET_ALL (`Clears`), and `NothingStale` if it does not clear IN: a packet is
  dropped as a repetition, the flush takes a new one, or an old one is received;
- `ExactlyOnce` if it clears a pipe at any time (`Careful = FALSE`).  A careful host does
  so after a STALL, and between transfers: when what it has sent has been taken and
  acknowledged and it has all it has asked for, though it cannot know whether its
  last ACK arrived.

`ahead` has no bound: it stays in {0, 1} where `ExactlyOnce` holds, and grows where it
does not.

### USBDevice

State: `USB_DeviceState`, `USB_Device_ConfigurationNumber`, `USB_ControlRequest` and
`bulk_reset` as in the code; `caller` and `prev` of USB_USBTask; `left` and `full`
(`Length`, `LastPacketFull`) of the control stream; the registers UENUM (selected
endpoint), UDINT and UDIEN (interrupt flags and enables), ADDEN, and RXSTPI, RXOUTI,
TXINI, STALLRQ of endpoint 0; `bus` and `asleep` for the wire; `hreq`, `hphase`,
`hgot` for the host's control transfer.  `RXSTPI` holds the SETUP packet itself.

Requests are names.  Those a handler looks at and returns from are
`BAD_CONFIGURATION` (`DeviceStandardReq.c:145`), `BAD_FEATURE` (335, 346, 368) and
`NO_DESCRIPTOR`; `UNKNOWN` has no handler.  `VENDOR_OTHER` is a vendor code without a
case, or REQ_WRITE_DEBUG of another value than 0: it is taken and does nothing.
`ZERO_ADDRESS` is SET_ADDRESS 0.

`pc` has a value per operation on the selected endpoint and per wait.  The steps
of `Select` only change UENUM; `Poll`, `VendorRequest`, `SetAddress`,
`SetConfiguration`, `GetByte`, `GetDescriptor`, `ClearSetFeature` and the steps after
them are the handlers, `WriteTest`, `WriteIN`, `WriteStatus` the control stream,
`ClearStatusStage` the wait for the end of the transfer.  `SUSPI`, `WAKEUPI` and
`EORSTI` are the three parts of USB_GEN_vect, in its order; while an enabled flag
is up the task does not move.

`SelectionHeld` names the endpoint of every step that touches one.  One step has no
such endpoint: the last test for a SETUP (`"final"`, `DeviceStandardReq.c:118`) is meant
for endpoint 0, but after SET_CONFIGURATION the OUT endpoint is selected
(`USBEvents.c:41`), on which there never is a SETUP.  The test then does nothing, and a
SETUP that has come to endpoint 0 waits for the next poll.  The property says that
this is so after SET_CONFIGURATION and after no other request.

`Resets`, `Suspends`, `Aborts` and `Hasty` say what the host does besides making one
request after the other.  Outside the constants of its runs TLC refutes:

- `SelectionHeld` with `Resets = TRUE`: the interrupt at `USBInterrupt_AVR8.c:175`
  leaves endpoint 0 selected under a task that uses another;
- `AddressFromHost` and `TaskRunsConfigured` with `Resets = TRUE`: USB_Device_SetAddress
  (`DeviceStandardReq.c:137`, 139) and USB_Device_SetConfiguration (200) store their state
  over that of a bus reset that came before it;
- `TaskRunsConfigured` with `Suspends = TRUE`, or with SET_CONFIGURATION 0: an
  addressed device is taken for configured (`USBInterrupt_AVR8.c:153`,
  `DeviceStandardReq.c:203`), although `VUEEvents.c:46` says the device "must be
  connected and configured for the task to run";
- `StallsUnknown` with `Hasty = TRUE`: a SETUP packet that arrives while the last
  request is finished is stalled unread (`DeviceStandardReq.c:118`);
- not in the model is a second SET_ADDRESS to a device that has an address: `Setup`
  makes none, as hosts do not; `Device_AVR8.h:213` would move the device to the new
  address before the status stage;
- `AddressAfterStatus` with `Hasty = TRUE`: a SETUP packet that arrives in the status
  stage of SET_ADDRESS frees the IN bank the device waits for, as the host's taking
  the status packet does;
- `ReplyComplete` with `Hasty` and `Aborts`: the host may get a packet of the answer it
  has given up for one of the answer to its new request; and with a GET_STATUS that
  asks for one byte, which is sent two (`DeviceStandardReq.c:321`);
- `RequestsEnd` under `RetrySpec` with `Aborts = TRUE` and `"GET_STATUS_VENDOR"` among
  the `Names`: `USBEvents.c:92` sends no data and waits for a status packet the host,
  waiting for data, never sends, and no later request is looked at;
- `RequestsEnd` under `RetrySpec` with `Aborts` and `Hasty`: the control stream reports
  the abort (HostAborted), `USBEvents.c:116` ignores it and waits for ever.

### Bootloader

State: `bootloader_boot_key`, `old_mcusr`, `pc`, `MCUSR`, `wdt` (the watchdog runs);
`due` (it has reset the chip for a request not yet answered) and `calm` (no reset
from outside since) are history variables of the properties.  One step per
statement of `bootloader_jmp_chk` and `enter_bootloader` that touches them.  Power-on,
reset line, brown-out and watchdog may come between any two steps; RAM comes up
with anything, and a brown-out may destroy the key.  External, taken as the data
sheet of the chip has it: flags add up in MCUSR, and while WDRF is up the
watchdog cannot be stopped.

## Runs

| run | shows |
|---|---|
| `bus_safety` | address and chip right at every strobe, no contention, lanes driven in a write, bus released, buffer bounds, selects held during a chunk; `VUEBus` implements `CartAccess` |
| `bus_returns` | every function returns |
| `bus_upper_write` | violated: `vue_write_data_8bit_hi` turns the wrong lane |
| `bus_header_during_transfer` | violated: a header read deselects the target of an open transfer |
| `fsm_safety` | framing, order, nothing left over after an abort or a new start, host and device agree on the end, no access between reset and its end, valid commands are carried out; `VUEEvents` implements `Transfer` |
| `fsm_rough` | what still holds with a host that splits, pauses, interrupts a read and does not wait: lengths add up, no chunk is accessed while a reset is due (a header read may be), resets are performed |
| `fsm_timeout` | violated: a late packet lets stale bytes be written |
| `fsm_empty_packet` | violated: an empty packet follows the last one of a read |
| `dev_control` | every endpoint operation but the test at `DeviceStandardReq.c:118` after SET_CONFIGURATION finds its endpoint selected, replies are complete, handled requests are not stalled, the address changes after the status packet, requests end |
| `dev_rough` | the device is never unattached on a bus that is awake, whatever the host does |
| `boot` | the bootloader starts on request and at no other time, the watchdog is off where it must be, start-up and request lead where they should |
| `pipe_exact` | every packet arrives once, counted across stalls and clears; nothing of a transfer given up is received; the reset is over before the pipes are used |

`bus_safety` and `bus_returns` leave out the 8 bit write to the upper lane, which
`bus_upper_write` shows broken on its own, and header reads during a transfer,
which `bus_header_during_transfer` shows.

Bounds.  `LoSize = HiSize = 2`: of four words two make `vue_write_address` load
both latches and two only the lower; stepping through them meets the carry into
A15 and the wrap.  `BufSize = 2`: full, short and odd chunks; a transfer has any
number of them.  Two byte values with the pull-up one of them tell a driven lane
from a released one.  `IMod = 8` is above `BufSize + 2` as 256 is above 66.
`bus_returns` runs one read and one write with a single byte value, since no
branch depends on data.
`EPSize = 2` and `Lens` up to 3: no byte, less than a packet, exactly one, one and
a part.  `CmdSize = 1` is half a packet, as 32 is of 64; `fsm_rough` uses 2 so that a
command can come in two packets.  Two generations of commands suffice to tell
the current from the one before.
`dev_control` has every request the device knows but the vendor's GET_STATUS,
which hangs, and ENTER_BOOTLOADER, which is in `Bootloader`; the four it refuses or
does not know; and lengths below, at and above the 32 bytes of endpoint
0, with the descriptors' real sizes: replies cut short, shorter than asked for,
and an exact packet (CONFIGURATION, 32 bytes of 64).  `dev_rough` has one request per
path through the task, since `NeverLost` sees no data.  `Bootloader` is finite, and so
is `BulkPipe` under the constants of its run.  No counter needs a bound.

`CHECK_DEADLOCK FALSE` in the runs of `USBDevice`: the host need not do anything
more, and the model then has no step when the task waits for it.

Timing the models take as given.  The host resets the bus for the first time
100 ms and more after the device was attached (USB 2.0), long after the reset
`main` begins with; a bus is suspended after 3 ms of silence, in which the task
finishes what does not wait for the host; an enabled interrupt is served before
the next step of the task; a wake-up clears the flag of the suspend (external
hardware).  The 16 ms of the watchdog outlast an undisturbed start-up; noise in
RAM is not taken for the key once a request is out, and the bootloader does not
write the key.  After `REQ_RESET_ALL`, or while it clears a pipe, the host of
`BulkPipe` leaves the pipes alone, as one does that waits for its own requests.

Fairness.  `bus_returns`: weak fairness of the steps of a running function, as a
processor keeps executing.  `ResetServed` (`fsm_rough`): weak fairness of the
firmware, whose waits all end (a packet or the 100 ms timer); none of the host.
`TransferCompletes` (`fsm_safety`): in addition a host that goes on sending and
collecting.  `RequestsEnd`: weak fairness of interrupts and task, and of a host
that goes on with the request it has begun; it need not begin one.  `boot`: the
processor runs and a running watchdog fires; nobody has to ask for the bootloader.

## Proofs

`VUEBusProofs`, for every size of address range, buffer and header:

- `TypeCorrect`: `Spec => []TypeOK`;
- `BufferNeverOverrun`: `Spec => []BufferBounds`;
- `NeverContends`: `Spec => []NoContention`;
- `AddressAlwaysLatched`: `Spec => []AddressLatched`, `TargetSelected`:
  `Spec => []OneChipSelected` and `ChipHeld`: `Spec => ChipHeldDuringChunk`, if
  `HeaderWhileBusy = FALSE`;
- `WritesDriven`: `Spec => []WriteDrivesLanes` and `BusAlwaysReleased`:
  `Spec => []BusReleased`, if `<<"write", "8BIT_HI">> \notin Transfers`.

With the refinement below, these are the properties of `bus_safety`, under the two
conditions that run is made under; `bus_header_during_transfer` and `bus_upper_write` show that the
conditions are needed.  The other assumptions are those of `VUEBus`: the buffer is
even and its size plus 2 fits the loop counter, the header lies inside one load
of the upper latch.  `CountInv` (`TypeOK`, `Control`, `Counting`) is inductive without a
condition: types alone are not, because the byte taken from the buffer exists only
if `i` is even and below `length`, and the counter stays below 256 only because of
that.  `Latching` is inductive relative to it; its core is that the upper latch is
right for the next word of an open transfer unless the lower bits of that word are
0, in which case `vue_write_address` loads it.  `Selecting` adds whose chip the
pointers and the upper latch select, and is inductive relative to `Latching`: an
address write during a chunk may load the flags, but only those that are there.
`Driving`, relative to `CountInv`, says which lanes are outputs where.

`VUEBusRefinement`: `CartAccessImplemented`, `Spec => Implements` under both conditions
together.  `RefineInv` adds to all of the above that outside a chunk there is no
length and no counter, and that the header loop writes the address it has just
passed (`Resting`).  `Word` reads the two digits as one number, `WordInc` is the
arithmetic of that number: `vue_inc_address` adds 1 modulo 2^23 whatever the carry.
`RefinedStep` maps each action: `Sample` and `StrobeHigh` are `Access`, `ReadDone` and
`WriteDone` are `Finish`, `HeaderSample` is `HeaderWord`, the callers open, close and
feed the transfer, and every other step is invisible.

`VUEEventsProofs`, for all sizes, lengths and every host the constants allow:

- `LengthsAddUp`: `Spec => []LengthAddsUp`; `InBankAlwaysFree`: `Spec => []InBankFree`;
- `TransfersEndComplete`: `Spec => EndsComplete`; `ResetAlwaysStops`:
  `Spec => ResetStopsAccess`;
- `TransferImplemented`: `Spec => ImplementsTransfer`, the refinement of `Transfer`.

`IInv` adds to the lengths where in the program a reset can be due, or sampled
(`ResetInv`: the stream that a reset interrupts leads to the IN half with no read
running, so no chunk follows), and that bytes in an IN bank not yet sent fill it
(`BankInv`).  It holds whatever the host sends, since lengths count what the firmware
asks for, not what arrives.

`VUEEventsBytes`: `TypesOK`, `Spec => []TypeOK`, for every host the constants allow.
`TypeInv` is `IInv` with the bytes (`BytesInv`): a stream never has more than it wants,
which is a command or the chunk that is due, and outside a stream nothing is left of
one; so a bank read in parts never overruns the buffer, however packets are cut.

`VUEEventsOrder`: `CommandsFramed` (`[]CommandFraming`), `WritesInOrder`
(`[]WriteInOrder`), `ReadsInOrder` (`[]ReadInOrder`), `NothingIsLeftOver`
(`[]NothingLeftOver`) and `IdleWhenDone` (`[]IdleTogether`), for all sizes and lengths
and an `Orderly` host: one that sends each command and chunk as one packet, sends
nothing while it reads, waits until a reset is over, and begins with a reset when
its program starts anew in the middle of a transfer.  This is the host of
`fsm_safety`; without any one of the four conditions TLC refutes each of the five
properties on a small instance, so none is stated for more hosts than it could be.
`OrderInv` relates what the host has done (`hcmd`, `hpos`) to what the firmware has
(`cur_command`, `pos`), over the two banks:

- `PacketInv`: no stream waits for a second packet, and a packet the firmware will
  take is a whole command in `IDLE` and the chunk at `pos` in `WRITE`;
- `Between`: when the host may start, at most the last chunk of a write is still
  to be taken, or a command without data, and the IN bank is empty;
- `Writing`: the host is a chunk ahead of the firmware at most, or its command is
  still in the bank, or what it sends is for an answer that cannot come (`Lost`:
  the command was stalled, or will be);
- `Reading`: the firmware is ahead of the host by the contents of the bank, and
  after the last chunk those contents are the rest;
- `Clearing`: while a stall is cleared nothing is going on;
- `RequestInv`: a control request pending is the one the host waits for.

Types alone would not do: that the bytes of a chunk are the right ones depends on
where the host is, and that the host may be there depends on what was left of the
transfer before, which is why `Between` speaks of the time between transfers.

`BulkPipeProofs`, if the host clears both pipes after REQ_RESET_ALL (`ClearsBoth`), and
whenever else it clears one: `PipeTypeCorrect`, `ResetOver` (`[]ResetBeforeUse`),
`NoStalePacket` (`[]NothingStale`) and `TogglesAlwaysAgree` (`[]TogglesAgree`: the toggles
of a pipe in use are alike, or differ by the one packet whose ACK was lost).
`PipeInv`: a pipe is in step unless the host has still to clear it, and one already
cleared when the reset is still to be performed has carried nothing since.
`ResetInv`: a reset that is due has both pipes still to be cleared until the loop
performs it.

`PacketsOnce` (`[]ExactlyOnce`) needs the careful host as well.  That toggles agree is
not enough for it, since a clear makes them agree and loses a packet all the same.
`CountInv` relates the count to what is on its way: `Counted`, that `ahead` is 1 exactly
while the sender has no ACK of its last packet; `StallInv`, that a stalled endpoint
has refused what it got last and takes no more until it is cleared, so that a host
that takes its unacknowledged packet for refused is right; `ClearInv`, that a pipe the
host is to clear holds no packet the other side has yet to get, but on OUT one the
device has refused and on IN one whose ACK was lost, and that none comes before.

`USBDeviceProofs`: `DeviceNeverLost` (`[]NeverLost`) for every host, from `AwakeInv`: a
device that takes itself for unattached has the wake-up enabled or a bus reset
waiting.  `SelectionAlwaysHeld` (`[]SelectionHeld`) if `Resets = FALSE`, from
`SelectInv` (what is selected at each step, and that USB_USBTask called from a
stream restores the OUT endpoint) and `FirstResetInv` (the one bus reset finds the
main loop between two calls).  What it says of the test at `DeviceStandardReq.c:118`
comes from `ServeInv`, which holds for every host: where a request can be, and that
only one that sets the configuration ends with the OUT endpoint selected.  For a
host that ends a request before the next (`Hasty = FALSE`), and may reset, suspend
and give up as it likes:
`OnlyUnknownStalled` (`[]StallsUnknown`), `AddressWaitsForStatus`
(`AddressAfterStatus`) and, if it asks for both bytes of GET_STATUS,
`RepliesComplete` (`[]ReplyComplete`).  These are more hosts than `dev_control` has.
`ControlInv`: the request the host waits for is the one that was read, or whose
SETUP is still in the bank (`LiveInv`), and each step serves a request that gets there
(`StepInv`).  `DataInv`: the bytes the host has, those in the bank and those still to
be written make up the answer, and a packet that is not full is the last.

`TypesOK` (`[]TypeOK`) holds for every host, and so may not use the above: a hasty
host can be sent a packet of the answer before.  `CountInv` says that these counts
together never exceed the longest answer; a request that gets such a packet is
`Overtaken`: its SETUP is pending, the stream ends for it, and it is stalled, so its
own answer never adds to what it has got.

Two properties no run checks, because a second bus reset refutes them, are
theorems about the hosts they do hold for, so that what is listed above is all
that breaks them: `AddressIsFromHost` (`[]AddressFromHost`) if `Resets = FALSE`, from
`AddressInv`; `TaskOnlyConfigured` (`TaskRunsConfigured`) if also `Suspends = FALSE` and
the host never takes the configuration back, from `WakeInv` (the wake-up that takes
a device with an address for configured is over before there is an address) and
`ConfigurationInv` (the state is stored as configured only once the configuration is).

`BootloaderProofs`: `BootTypeCorrect`, `WatchdogAlwaysOff` (`[]WatchdogOff`) and
`BootloaderOnlyOnRequest` (`BootloaderOnlyWhenDue`).  `KeyInv`: key and watchdog flag
together, wherever they are between register, local variable and running watchdog,
mean that a request is due.

Every invariant and action property of the runs is a theorem, and so are both
refinements, each under the conditions named here.  Only model-checked is
liveness, which is out of the prover's reach: `Returns`, `TransferCompletes`,
`ResetServed`, `RequestsEnd`, `RequestStartsBootloader` and `StartupEnds`.

## Not modelled

LUFA's class drivers, host mode and pipes, which are most of the repository's
lines, are vendored and neither compiled into this firmware nor called by it, and
so are the audio, HID and mass storage headers and ASF's part and utility macros:
there is no behaviour of this program in them.  Of LUFA's endpoint code the streams
nobody calls (control reads, discard, null) and endpoint memory allocation are left
out; of the device core the start of PLL and clock.  USB descriptors are modelled
by their sizes.  The composition of `VUEEvents` with `VUEBus` in one state space is
not modelled: `Select`, `ReadChunk`, `WriteChunk`, `Deselect`, `ResetBus` and
`ReadHeader` in any order include every order of the state machine.  A command
assembled from something else than the bytes of one command is any command; the
byte order conversions are not modelled otherwise.  With
`VUE_CART_READER_ALWAYS_FULL_ADDRESS` (not defined in the build) `vue_write_address`
would call itself through the macro at `vue.h:63`; that variant is not modelled.
