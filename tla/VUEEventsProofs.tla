---------------------------- MODULE VUEEventsProofs ----------------------------
(***************************************************************************)
(* The accounts of a transfer, the reset and the IN bank, for every packet *)
(* and command size, every length and every host: invalid commands, split  *)
(* packets, packets nobody asked for, late packets and new starts of the   *)
(* host's program included.                                                *)
(***************************************************************************)
EXTENDS VUEEvents, TLAPS

Types ==
    /\ cur_vue_state \in States /\ cur_command \in Commands
    /\ left \in Nat /\ pos \in Nat
    /\ {bulk_reset, tmp_bulk_reset} \subseteq BOOLEAN
    /\ setup \in Requests \cup {"none"}

\* What a reset that is due, or sampled, says of the place in the program;
\* a stream that ends because of one does not run into a read.
ResetInv ==
    /\ pc # "usb" /\ tmp_bulk_reset => bulk_reset
    /\ bulk_reset => pc \in {"usb", "clear", "in", "tail", "send", "check", "unstall"}
    /\ pc \in {"stream", "stream_usb", "exec"} => cur_vue_state # "READ"
    /\ bulk_reset /\ pc \in {"clear", "in"} => cur_vue_state # "READ"
    /\ pc = "unstall" => bulk_reset /\ cur_vue_state = "IDLE"

\* Only VUE_BulkRead_Task leaves bytes in a bank it has not sent, and only a
\* bank that is full.
BankInv == inReady /\ inBank # <<>> => pc \in {"tail", "send"} /\ ~(Len(inBank) < EPSize)

IInv == Types /\ ResetInv /\ LengthAddsUp /\ BankInv

-----------------------------------------------------------------------------

LEMMA BytesLength ==
    ASSUME NEW c, NEW first, NEW n \in Nat
    PROVE  Len(<<>> \o DataBytes(c, first, n)) = n
<1>1. DataBytes(c, first, n) \in Seq({DataByte(c, first + j) : j \in 1 .. n})
  BY DEF DataBytes
<1>2. Len(DataBytes(c, first, n)) = n
  BY DEF DataBytes
<1> QED
  BY <1>1, <1>2

\* A chunk is not empty and no longer than what is left; one that is not the
\* last fills a packet.
LEMMA ChunkFits ==
    ASSUME left \in Nat, left > 0
    PROVE  /\ Chunk \in Nat /\ Chunk > 0 /\ left - Chunk \in Nat
           /\ ~LastChunk => Chunk = EPSize /\ left - Chunk > 0
BY SizeAssumption DEF Chunk, LastChunk, Smaller

LEMMA InitInv == Init => IInv
<1> SUFFICES ASSUME Init PROVE IInv
  OBVIOUS
<1>1. cur_command \in Commands
  BY SizeAssumption DEF Init, Commands
<1>2. Types
  BY <1>1 DEF Init, Types, States
<1> QED
  BY <1>2 DEF Init, IInv, ResetInv, LengthAddsUp, BankInv

\* A control request sets bulk_reset or leaves it, deselects or does not,
\* and leaves the IN bank alone or empties it.
LEMMA Serve ==
    ASSUME Types, ServeControl
    PROVE  /\ bulk_reset' \in BOOLEAN /\ (bulk_reset => bulk_reset')
           /\ selected' \in {selected, FALSE}
           /\ setup' = "none"
           /\ UNCHANGED <<inReady, inBank>> \/ EmptyIN
BY DEF Types, Requests, ServeControl, FlushBanks, EmptyIN, banks
-----------------------------------------------------------------------------
(* One step of the device.                                                 *)

\* The steps that change nothing the accounts, or the reset, depend on.
LEMMA QuietStep ==
    ASSUME IInv,
           UNCHANGED <<cur_vue_state, cur_command, left, pos, bulk_reset, tmp_bulk_reset>>,
           setup' \in Requests \cup {"none"},
           \/ UNCHANGED pc
           \/ pc = "out" /\ pc' \in {"in", "stall"}
           \/ pc = "out" /\ pc' = "stream" /\ cur_vue_state # "READ"
           \/ pc = "stall" /\ pc' = "clear"
           \/ pc = "stream" /\ pc' \in {"exec", "stream_usb"}
           \/ pc = "clear" /\ pc' = "in"
           \/ pc = "in" /\ pc' = "check"
           \/ pc = "in" /\ pc' = "tail"
           \/ pc \in {"tail", "send"} /\ pc' \in {"send", "check"}
           \/ pc = "check" /\ ~tmp_bulk_reset /\ pc' = "usb",
           BankInv'
    PROVE  IInv'
<1>1. Types' /\ LengthAddsUp'
  BY DEF IInv, Types, LengthAddsUp
<1>2. ResetInv'
  BY DEF IInv, ResetInv, Types
<1> QED
  BY <1>1, <1>2 DEF IInv

LEMMA OutStep ==
    ASSUME IInv,
           NoOUT \/ StartStream \/ BreakRead \/ StallTransaction \/ ReadStream
              \/ StreamTimeout \/ ClearOUT
    PROVE  IInv'
<1>1. /\ UNCHANGED <<cur_vue_state, cur_command, left, pos, bulk_reset, tmp_bulk_reset, setup>>
      /\ UNCHANGED <<inReady, inBank>>
  BY DEF NoOUT, StartStream, BreakRead, StallTransaction, ReadStream, StreamTimeout, ClearOUT,
         firmware, banks, hostVars
<1>2. BankInv'
  <2>1. pc \notin {"tail", "send"}
    BY DEF NoOUT, StartStream, BreakRead, StallTransaction, ReadStream, StreamTimeout, ClearOUT
  <2> QED
    BY <1>1, <2>1 DEF IInv, BankInv
<1>3. \/ pc = "out" /\ pc' \in {"in", "stall"}
      \/ pc = "out" /\ pc' = "stream" /\ cur_vue_state # "READ"
      \/ pc = "stall" /\ pc' = "clear"
      \/ pc = "stream" /\ pc' \in {"exec", "stream_usb"}
      \/ pc = "clear" /\ pc' = "in"
  BY DEF NoOUT, StartStream, BreakRead, StallTransaction, ReadStream, StreamTimeout, ClearOUT
<1> QED
  BY <1>1, <1>2, <1>3, QuietStep DEF IInv, Types

LEMMA InStep ==
    ASSUME IInv, NoIN \/ NothingToRead \/ TestFull \/ ClearIN \/ NoReset
    PROVE  IInv'
<1>1. UNCHANGED <<cur_vue_state, cur_command, left, pos, bulk_reset, tmp_bulk_reset, setup, inBank>>
  BY DEF NoIN, NothingToRead, TestFull, ClearIN, NoReset, firmware, banks, hostVars
<1>2. BankInv'
  BY DEF IInv, BankInv, NoIN, NothingToRead, TestFull, ClearIN, NoReset, InReadWriteAllowed, banks
<1>3. \/ pc = "in" /\ pc' = "check"
      \/ pc = "in" /\ pc' = "tail"
      \/ pc \in {"tail", "send"} /\ pc' \in {"send", "check"}
      \/ pc = "check" /\ ~tmp_bulk_reset /\ pc' = "usb"
  BY DEF NoIN, NothingToRead, TestFull, ClearIN, NoReset
<1> QED
  BY <1>1, <1>2, <1>3, QuietStep DEF IInv, Types

LEMMA USBStep ==
    ASSUME IInv, MainUSBTask \/ StreamUSBTask
    PROVE  IInv'
<1>1. ServeControl /\ UNCHANGED <<cur_vue_state, cur_command, left, pos>>
  BY DEF MainUSBTask, StreamUSBTask
<1>2. /\ bulk_reset' \in BOOLEAN
      /\ setup' = "none"
      /\ UNCHANGED <<inReady, inBank>> \/ EmptyIN
  BY <1>1, Serve DEF IInv
<1>3. Types'
  BY <1>1, <1>2 DEF IInv, Types, MainUSBTask, StreamUSBTask
<1>4. LengthAddsUp'
  BY <1>1 DEF IInv, LengthAddsUp
<1>5. BankInv'
  BY <1>2 DEF IInv, BankInv, EmptyIN, MainUSBTask, StreamUSBTask
<1>6. CASE MainUSBTask
  BY <1>2, <1>3, <1>4, <1>5, <1>6 DEF IInv, MainUSBTask, ResetInv
<1>7. CASE StreamUSBTask
  <2>1. cur_vue_state' # "READ" /\ ~tmp_bulk_reset'
    BY <1>1, <1>7 DEF IInv, Types, ResetInv, StreamUSBTask
  <2> QED
    BY <1>2, <1>3, <1>4, <1>5, <1>7, <2>1 DEF IInv, StreamUSBTask, ResetInv
<1> QED
  BY <1>6, <1>7

\* A command is decoded: only a valid one with a length starts a transfer.
LEMMA CommandStep ==
    ASSUME IInv, ExecCommand
    PROVE  IInv'
<1>1. PICK c \in Decoded :
         /\ cur_command' = c /\ left' = c.length
         /\ \/ pc' = "stall" /\ UNCHANGED <<cur_vue_state, pos>>
            \/ pc' = "clear" /\ UNCHANGED <<cur_vue_state, pos>>
            \/ /\ c.length > 0
               /\ cur_vue_state' = c.operation /\ pos' = 0
               /\ pc' = "clear"
  BY DEF ExecCommand
<1>2. c \in Commands /\ c.length \in Nat /\ c.operation \in {"READ", "WRITE"}
  BY SizeAssumption DEF Decoded, Commands
<1>3. /\ pc = "exec" /\ cur_vue_state = "IDLE" /\ ~bulk_reset
      /\ UNCHANGED <<bulk_reset, tmp_bulk_reset, setup, inReady, inBank>>
  BY DEF ExecCommand, IInv, ResetInv, Types, hostVars
<1>4. Types'
  BY <1>1, <1>2, <1>3 DEF IInv, Types, States
<1>5. LengthAddsUp'
  BY <1>1, <1>2, <1>3 DEF LengthAddsUp
<1>6. ResetInv' /\ BankInv'
  BY <1>1, <1>3 DEF IInv, ResetInv, BankInv, Types
<1> QED
  BY <1>4, <1>5, <1>6 DEF IInv

\* A chunk is accessed, by a write ...
LEMMA WriteStep ==
    ASSUME IInv, ExecWrite
    PROVE  IInv'
<1>1. /\ pc = "exec" /\ cur_vue_state = "WRITE" /\ left > 0 /\ ~bulk_reset
      /\ pos + left = cur_command.length
      /\ left \in Nat /\ pos \in Nat /\ cur_command.length \in Nat
  BY SizeAssumption DEF ExecWrite, IInv, LengthAddsUp, ResetInv, Types, Commands
<1>2. /\ pos' = pos + Chunk /\ left' = left - Chunk /\ pc' = "clear"
      /\ cur_vue_state' = IF LastChunk THEN "IDLE" ELSE "WRITE"
      /\ UNCHANGED <<cur_command, bulk_reset, tmp_bulk_reset, setup, inReady, inBank>>
  BY <1>1 DEF ExecWrite, banks, hostVars
<1>3. Types'
  BY <1>1, <1>2, ChunkFits DEF IInv, Types, States
<1>4. LengthAddsUp'
  BY <1>1, <1>2, ChunkFits DEF LengthAddsUp
<1>5. ResetInv' /\ BankInv'
  BY <1>1, <1>2 DEF IInv, ResetInv, BankInv, Types
<1> QED
  BY <1>3, <1>4, <1>5 DEF IInv

\* ... or by a read, which leaves a full bank or has sent it.
LEMMA ReadStep ==
    ASSUME IInv, BulkRead
    PROVE  IInv'
<1>1. /\ pc = "in" /\ inReady /\ cur_vue_state = "READ" /\ left > 0 /\ ~bulk_reset
      /\ pos + left = cur_command.length
      /\ left \in Nat /\ pos \in Nat /\ cur_command.length \in Nat
  BY SizeAssumption DEF BulkRead, IInv, LengthAddsUp, ResetInv, Types, Commands
<1>2. /\ pos' = pos + Chunk /\ left' = left - Chunk /\ pc' = "tail"
      /\ cur_vue_state' = IF LastChunk THEN "IDLE" ELSE "READ"
      /\ inReady' = ~LastChunk
      /\ UNCHANGED <<cur_command, bulk_reset, tmp_bulk_reset, setup>>
  <2>1. inReady' = IF LastChunk THEN FALSE ELSE inReady
    BY DEF BulkRead
  <2>2. CASE LastChunk
    BY <1>1, <2>1, <2>2 DEF BulkRead, hostVars
  <2>3. CASE ~LastChunk
    BY <1>1, <2>1, <2>3 DEF BulkRead, hostVars
  <2> QED
    BY <2>2, <2>3
<1>3. inBank = <<>>
  BY <1>1 DEF IInv, BankInv
<1>4. Types'
  BY <1>1, <1>2, ChunkFits DEF IInv, Types, States
<1>5. LengthAddsUp'
  BY <1>1, <1>2, ChunkFits DEF LengthAddsUp
<1>6. ResetInv'
  BY <1>1, <1>2 DEF IInv, ResetInv, Types
<1>7. BankInv'
  <2>1. Len(inBank') = Chunk
    BY <1>1, <1>3, ChunkFits, BytesLength DEF BulkRead
  <2> QED
    <3>1. CASE LastChunk
      BY <1>2, <3>1 DEF BankInv
    <3>2. CASE ~LastChunk
      BY <1>1, <1>2, <2>1, <3>2, ChunkFits, SizeAssumption DEF BankInv
    <3> QED
      BY <3>1, <3>2
<1> QED
  BY <1>4, <1>5, <1>6, <1>7 DEF IInv

LEMMA ResetStep ==
    ASSUME IInv, ResetDevice \/ ResetDone
    PROVE  IInv'
<1>1. Types' /\ LengthAddsUp'
  BY DEF IInv, Types, States, LengthAddsUp, ResetDevice, ResetDone, hostVars
<1>2. ResetInv' /\ BankInv'
  BY DEF IInv, Types, ResetInv, BankInv, ResetDevice, ResetDone, FlushBanks, EmptyIN
<1> QED
  BY <1>1, <1>2 DEF IInv

LEMMA HostStep ==
    ASSUME IInv, Host
    PROVE  IInv'
<1>1. UNCHANGED <<firmware, pc>> /\ setup' \in Requests \cup {"none"}
  BY DEF Host, Begin, Send, Receive, SeeStall, Abort, Open, Settle, AskHeader, Junk, hostVars,
         IInv, Types, Requests
<1>2. UNCHANGED <<inReady, inBank>> \/ EmptyIN
  BY DEF Host, Begin, Send, Receive, SeeStall, Abort, Open, Settle, AskHeader, Junk, banks
<1>3. BankInv'
  BY <1>1, <1>2 DEF IInv, BankInv, EmptyIN
<1> QED
  BY <1>1, <1>3, QuietStep DEF firmware

LEMMA StepInv == IInv /\ [Next]_vars => IInv'
<1> SUFFICES ASSUME IInv, [Next]_vars PROVE IInv'
  OBVIOUS
<1>1. CASE Host
  BY <1>1, HostStep
<1>2. CASE Device
  BY <1>2, OutStep, InStep, USBStep, CommandStep, WriteStep, ReadStep, ResetStep DEF Device
<1>3. CASE UNCHANGED vars
  BY <1>3, QuietStep DEF vars, firmware, banks, hostVars, IInv, Types, BankInv
<1> QED
  BY <1>1, <1>2, <1>3 DEF Next
-----------------------------------------------------------------------------

\* What a transfer has accessed and what is left add up to its length.
THEOREM LengthsAddUp == Spec => []LengthAddsUp
<1>1. IInv => LengthAddsUp
  BY DEF IInv
<1> QED
  BY <1>1, InitInv, StepInv, PTL DEF Spec

\* A read never finds bytes in the bank it fills.
THEOREM InBankAlwaysFree == Spec => []InBankFree
<1>1. IInv => InBankFree
  BY DEF IInv, BankInv, InBankFree
<1> QED
  BY <1>1, InitInv, StepInv, PTL DEF Spec

\* A transfer ends with its last byte or by a reset, in no other way.
THEOREM TransfersEndComplete == Spec => EndsComplete
<1>1. ASSUME IInv, [Next]_vars
      PROVE  [cur_vue_state # "IDLE" /\ cur_vue_state' = "IDLE" /\ ~bulk_reset
                => pos' = cur_command.length]_vars
  <2> SUFFICES ASSUME cur_vue_state # "IDLE", cur_vue_state' = "IDLE", ~bulk_reset
               PROVE  pos' = cur_command.length
    OBVIOUS
  <2>1. /\ left \in Nat /\ pos \in Nat /\ cur_command.length \in Nat
        /\ pos + left = cur_command.length
    BY <1>1, SizeAssumption DEF IInv, Types, LengthAddsUp, Commands
  <2>2. ~UNCHANGED cur_vue_state
    OBVIOUS
  <2>3. ExecWrite \/ BulkRead \/ ResetDevice \/ ExecCommand
    BY <1>1, <2>2 DEF Next, Device, Host, Begin, Send, Receive, SeeStall, Abort, Open, Settle,
                      AskHeader, Junk, MainUSBTask, NoOUT, StartStream, BreakRead,
                      StallTransaction, ReadStream, StreamUSBTask, StreamTimeout, ClearOUT, NoIN,
                      NothingToRead, TestFull, ClearIN, NoReset, ResetDone, firmware, vars
  <2>4. CASE ExecWrite \/ BulkRead
    <3>1. pos' = pos + Chunk /\ (LastChunk \/ UNCHANGED cur_vue_state)
      BY <2>4 DEF ExecWrite, BulkRead
    <3> QED
      BY <2>1, <2>2, <3>1 DEF LastChunk
  <2>5. CASE ResetDevice
    BY <1>1, <2>5 DEF ResetDevice, IInv, ResetInv
  <2>6. CASE ExecCommand
    BY <2>6 DEF ExecCommand
  <2> QED
    BY <2>3, <2>4, <2>5, <2>6
<1> QED
  BY <1>1, InitInv, StepInv, PTL DEF Spec, EndsComplete

\* From the moment REQ_RESET_ALL is taken until the reset is done the bulk
\* tasks access and select nothing, in the main loop and inside a stream.
THEOREM ResetAlwaysStops == Spec => ResetStopsAccess
<1>1. ASSUME IInv, [Next]_vars
      PROVE  [bulk_reset => (pos' = pos /\ (selected' => selected))]_vars
  <2> SUFFICES ASSUME bulk_reset PROVE pos' = pos /\ selected' \in {selected, FALSE}
    OBVIOUS
  <2>1. ~ExecWrite /\ ~BulkRead /\ ~ExecCommand
    BY <1>1 DEF IInv, ResetInv, ExecWrite, BulkRead, ExecCommand
  <2>2. CASE MainUSBTask \/ StreamUSBTask
    BY <1>1, <2>2, Serve DEF IInv, MainUSBTask, StreamUSBTask
  <2>3. CASE UNCHANGED <<pos, selected>> \/ ResetDevice
    BY <2>3 DEF ResetDevice
  <2>4. CASE ~(MainUSBTask \/ StreamUSBTask \/ UNCHANGED <<pos, selected>> \/ ResetDevice)
    BY <1>1, <2>1, <2>4 DEF Next, Device, Host, Begin, Send, Receive, SeeStall, Abort, Open,
                      Settle, AskHeader, Junk, NoOUT, StartStream, BreakRead, StallTransaction,
                      ReadStream, StreamTimeout, ClearOUT, NoIN, NothingToRead, TestFull, ClearIN,
                      NoReset, ResetDone, firmware, vars
  <2> QED
    BY <2>2, <2>3, <2>4
<1> QED
  BY <1>1, InitInv, StepInv, PTL DEF Spec, ResetStopsAccess
-----------------------------------------------------------------------------
(* VUEEvents implements Transfer.                                          *)

LEMMA RefinedInit == Init => Cartridge!Init
BY DEF Init, Cartridge!Init, Running

\* An access of a chunk is one of the abstract chunks.
LEMMA RefinedChunk ==
    ASSUME IInv, ExecWrite \/ BulkRead
    PROVE  Cartridge!Next
<1>1. /\ cur_vue_state # "IDLE" /\ left > 0 /\ ~bulk_reset
      /\ pos + left = cur_command.length
      /\ left \in Nat /\ pos \in Nat /\ cur_command.length \in Nat
  BY SizeAssumption DEF ExecWrite, BulkRead, IInv, LengthAddsUp, ResetInv, Types, Commands
<1>2. /\ pos' = pos + Chunk
      /\ cur_vue_state' = IF LastChunk THEN "IDLE" ELSE cur_vue_state
      /\ UNCHANGED <<cur_command, bulk_reset>>
  BY DEF ExecWrite, BulkRead
<1>3. CASE LastChunk
  <2>1. left \in 1 .. EPSize /\ cur_command.length - pos = left
    BY <1>1, <1>3, SizeAssumption DEF LastChunk, Chunk, Smaller
  <2> QED
    BY <1>1, <1>2, <1>3, <2>1 DEF Cartridge!Next, Cartridge!LastChunk, Cartridge!Over, Running
<1>4. CASE ~LastChunk
  <2>1. pos' = pos + EPSize /\ pos' < cur_command.length
    BY <1>1, <1>2, <1>4, ChunkFits, SizeAssumption
  <2> QED
    BY <1>1, <1>2, <1>4, <2>1 DEF Cartridge!Next, Cartridge!FullChunk, Running
<1> QED
  BY <1>3, <1>4

LEMMA RefinedStep == IInv /\ [Next]_vars => [Cartridge!Next]_(Cartridge!vars)
<1> SUFFICES ASSUME IInv, [Next]_vars PROVE [Cartridge!Next]_(Cartridge!vars)
  OBVIOUS
<1>1. CASE ExecWrite \/ BulkRead
  BY <1>1, RefinedChunk
<1>2. CASE MainUSBTask \/ StreamUSBTask
  <2>1. /\ bulk_reset \in BOOLEAN /\ bulk_reset' \in BOOLEAN /\ (bulk_reset => bulk_reset')
        /\ UNCHANGED <<cur_vue_state, cur_command, pos>>
    BY <1>2, Serve DEF IInv, Types, MainUSBTask, StreamUSBTask
  <2> QED
    BY <2>1 DEF Cartridge!Next, Cartridge!vars, Cartridge!AskReset, Running
<1>3. CASE ExecCommand
  <2>1. /\ cur_vue_state = "IDLE" /\ ~bulk_reset /\ UNCHANGED bulk_reset
    BY <1>3 DEF ExecCommand, IInv, ResetInv
  <2>2. PICK c \in Decoded :
           /\ cur_command' = c
           /\ \/ UNCHANGED cur_vue_state
              \/ c.length > 0 /\ cur_vue_state' = c.operation /\ pos' = 0
    BY <1>3 DEF ExecCommand
  <2>3. c.length \in Nat /\ c.operation \in {"READ", "WRITE"}
    BY SizeAssumption DEF Decoded, Commands
  <2>4. CASE UNCHANGED cur_vue_state
    BY <2>1, <2>4 DEF Cartridge!vars, Running
  <2>5. CASE c.length > 0 /\ cur_vue_state' = c.operation /\ pos' = 0
    BY <2>1, <2>2, <2>3, <2>5 DEF Cartridge!Next, Cartridge!Start, Running
  <2> QED
    BY <2>2, <2>4, <2>5
<1>4. CASE ResetDevice
  BY <1>4 DEF ResetDevice, IInv, ResetInv, Cartridge!Next, Cartridge!Reset, Cartridge!Over, Running
<1>5. CASE ResetDone
  BY <1>5 DEF ResetDone, IInv, ResetInv, Cartridge!Next, Cartridge!ResetDone, Running
<1>6. CASE UNCHANGED <<cur_vue_state, cur_command, pos, bulk_reset>>
  BY <1>6 DEF Cartridge!vars, Running
<1> QED
  <2>1. ASSUME Host \/ UNCHANGED vars PROVE UNCHANGED <<cur_vue_state, cur_command, pos, bulk_reset>>
    BY <2>1 DEF Host, Begin, Send, Receive, SeeStall, Abort, Open, Settle, AskHeader, Junk,
                firmware, vars
  <2>2. ASSUME NoOUT \/ StartStream \/ BreakRead \/ StallTransaction \/ ReadStream
                 \/ StreamTimeout \/ ClearOUT \/ NoIN \/ NothingToRead \/ TestFull \/ ClearIN
                 \/ NoReset
        PROVE  UNCHANGED <<cur_vue_state, cur_command, pos, bulk_reset>>
    BY <2>2 DEF NoOUT, StartStream, BreakRead, StallTransaction, ReadStream, StreamTimeout,
                ClearOUT, NoIN, NothingToRead, TestFull, ClearIN, NoReset, firmware
  <2> QED
    BY <1>1, <1>2, <1>3, <1>4, <1>5, <1>6, <2>1, <2>2 DEF Next, Device

\* Whatever the host sends and whenever, the firmware makes the accesses of
\* whole transfers, in order, and of a transfer that is reset a part.
THEOREM TransferImplemented == Spec => ImplementsTransfer
<1> QED
  BY InitInv, StepInv, RefinedInit, RefinedStep, PTL DEF Spec, ImplementsTransfer, Cartridge!Spec
=============================================================================
