------------------------------- MODULE VUEBus -------------------------------
(***************************************************************************)
(* The cartridge bus as vue.c drives it, one step per group of pin writes  *)
(* that the hardware can tell apart.                                       *)
(*                                                                         *)
(* The AD bus (ports D and B) carries address and data in turn.  Two       *)
(* latches on the board hold what the game edge connector sees: the lower  *)
(* one A0-A14, the upper one A15-A22 and the flags (busy lamp and chip     *)
(* selects).  vue_write_address_full loads both, vue_write_address_lo15    *)
(* only the lower one; vue_write_address picks one by looking at the       *)
(* lower address bits alone, so whether the connector sees the address     *)
(* that was asked for depends on everything written before.                *)
(*                                                                         *)
(* The callers (VUEEvents.c, main.c, USBEvents.c) are the actions enabled  *)
(* in pc = "idle": the program has one thread and the interrupt handlers   *)
(* touch no port, so a function of vue.c is never interleaved with         *)
(* another one, but any caller may come next.                              *)
(***************************************************************************)
EXTENDS Naturals

CONSTANTS
    LoSize,           \* words per load of the upper latch: 2^15
    HiSize,           \* values of A15-A22: 2^8
    Byte,             \* values of one lane of the AD bus
    PullUp,           \* 0xFF, what a released lane is set to
    AddrBits,         \* stands for address bits in a lane's out register
    BufSize,          \* VUE_CART_READER_EP_SIZE
    IMod,             \* range of the uint8_t loop counters: 2^8
    Header,           \* word address of the ROM header, [hi, lo]
    HeaderWords,      \* words in the ROM header: 0x10
    Transfers,        \* the <<op, mode>> pairs the host asks for
    HeaderWhileBusy   \* may REQ_READ_HEADER come between two chunks?

Lanes == {"L", "H"}                            \* VUE_ADL (port D), VUE_ADH (port B)
Chips == {"nROM_CE", "nRAM_CS", "nES"}
VUE_FLAG_MASK == Chips \cup {"nSTATUS"}        \* a set of lines stands for the bits that are 1
Strobes == {"nOE", "nUWR", "nLWR"}
Modes == {"16BIT", "8BIT_LO", "8BIT_HI"}
Ops == {"read", "write"}

ASSUME SizeAssumption ==
    /\ LoSize \in Nat \ {0, 1}
    /\ HiSize \in Nat \ {0}
ASSUME ByteAssumption == PullUp \in Byte /\ AddrBits \notin Byte
ASSUME BufAssumption ==
    /\ BufSize \in Nat \ {0}
    /\ \E k \in 1 .. BufSize : BufSize = 2 * k
    /\ IMod \in Nat
    /\ BufSize + 2 <= IMod
ASSUME HeaderAssumption ==
    /\ Header \in [hi : 0 .. HiSize - 1, lo : 0 .. LoSize - 1]
    /\ HeaderWords \in Nat \ {0}
    /\ Header.lo + HeaderWords < LoSize
    /\ 2 * HeaderWords + 2 <= IMod
ASSUME HostAssumption ==
    /\ Transfers \subseteq Ops \X Modes
    /\ HeaderWhileBusy \in BOOLEAN

VARIABLES
    dir, out,         \* DDRx and PORTx of the two lanes
    ctrl,             \* the lines of VUE_CTRL (port C) that are 1
    lowLatch, hiLatch,\* board: A0-A14; A15-A22 with the flags
    gec,              \* the last cycle the game edge connector saw
    address,          \* bulk_address, the pointer argument of the access functions
    hdr,              \* address of USBEvents.c
    buffer,           \* bulk_buffer
    op, mode, busy,   \* bulk_access_func, and whether a transfer is open
    length, i,        \* argument and loop counter of the running function, else 0
    fn, pc,           \* the running function and where it stands
    arg, full         \* the address being written, and by which function

vars == <<dir, out, ctrl, lowLatch, hiLatch, gec, address, hdr, buffer,
          op, mode, busy, length, i, fn, pc, arg, full>>

Addr == [flags : SUBSET VUE_FLAG_MASK, hi : 0 .. HiSize - 1, lo : 0 .. LoSize - 1]

\* Address 0 with every line of VUE_FLAG_MASK high: nothing selected, lamp off.
DefaultAddress == [flags |-> VUE_FLAG_MASK, hi |-> 0, lo |-> 0]

target_select_map ==
    [t \in {"RAM", "ROM", "EXPANSION"} |->
        VUE_FLAG_MASK \ {CASE t = "RAM"       -> "nRAM_CS"
                           [] t = "ROM"       -> "nROM_CE"
                           [] t = "EXPANSION" -> "nES"}]

\* Mutants of vue_inc_address: without VUE_ADDRESS_MASK, without
\* VUE_FLAG_MASK, without the carry into A15.
IncUnmasked(a) ==
    IF a.lo + 1 < LoSize THEN [a EXCEPT !.lo = @ + 1] ELSE [a EXCEPT !.lo = 0, !.hi = @ + 1]
IncDropsFlags(a) ==
    IF a.lo + 1 < LoSize
    THEN [flags |-> {}, hi |-> a.hi, lo |-> a.lo + 1]
    ELSE [flags |-> {}, hi |-> (a.hi + 1) % HiSize, lo |-> 0]
IncNoCarry(a) == [a EXCEPT !.lo = (@ + 1) % LoSize]

\* The 23 address bits as two digits: A15-A22 and A0-A14.
vue_inc_address(a) ==
    IF a.lo + 1 < LoSize
    THEN [a EXCEPT !.lo = @ + 1]
    ELSE [a EXCEPT !.lo = 0, !.hi = IF @ + 1 < HiSize THEN @ + 1 ELSE 0]

\* The address as the edge connector sees it.
Latched == [flags |-> hiLatch.flags, hi |-> hiLatch.hi, lo |-> lowLatch]

\* The lanes an access of mode m transfers, the write lines it strobes, and
\* the bytes it takes from the buffer.
LanesOf(m) == CASE m = "16BIT"   -> Lanes
                [] m = "8BIT_LO" -> {"L"}
                [] m = "8BIT_HI" -> {"H"}
StrobesOf(m) == CASE m = "16BIT"   -> {"nUWR", "nLWR"}
                  [] m = "8BIT_LO" -> {"nLWR"}
                  [] m = "8BIT_HI" -> {"nUWR"}

\* Mutants of StepOf.
StepOne(m) == 1
StepNone(m) == IF m = "16BIT" THEN 2 ELSE 0

StepOf(m) == IF m = "16BIT" THEN 2 ELSE 1

\* The buffer entry that goes with lane l in the iteration at i.
Slot(m, l) == IF m = "16BIT" /\ l = "H" THEN i + 2 ELSE i + 1

\* What a lane reads as: a lane the AVR drives has the driven value, any
\* other one is up to the cartridge, or floats.
Level(l) == IF dir[l] = "out" THEN {out[l]} ELSE Byte

\* What the two lanes may read as together.
Pins == {[x \in Lanes |-> IF x = "L" THEN l ELSE h] : l \in Level("L"), h \in Level("H")}

\* The buffer with the lanes of this iteration stored.
Stored(data) ==
    [k \in 1 .. BufSize |->
        IF \E l \in LanesOf(mode) : k = Slot(mode, l)
        THEN data[CHOOSE l \in LanesOf(mode) : k = Slot(mode, l)]
        ELSE buffer[k]]

Cycle(kind, m, data) ==
    [kind |-> kind, at |-> Latched, data |-> [l \in LanesOf(m) |-> data[l]]]
NoCycle == [kind |-> "none"]

-----------------------------------------------------------------------------

\* board_init() has run; main() is about to write the default address.
\* The latches power up with any contents.
Init ==
    /\ dir = [l \in Lanes |-> "in"]
    /\ out = [l \in Lanes |-> PullUp]
    /\ ctrl = Strobes
    /\ lowLatch \in 0 .. LoSize - 1
    /\ hiLatch \in [flags : SUBSET VUE_FLAG_MASK, hi : 0 .. HiSize - 1]
    /\ gec = NoCycle
    /\ address = DefaultAddress
    /\ hdr = DefaultAddress
    /\ buffer \in [1 .. BufSize -> {PullUp}]
    /\ op = "read" /\ mode = "16BIT" /\ busy = FALSE
    /\ length = 0 /\ i = 0
    /\ fn = "reset" /\ pc = "low"
    /\ arg = DefaultAddress /\ full = TRUE

-----------------------------------------------------------------------------
(* Calls of the address functions, and their steps.                        *)

vue_write_address_lo15(a) == arg' = a /\ full' = FALSE /\ pc' = "low"
vue_write_address_full(a) == arg' = a /\ full' = TRUE /\ pc' = "low"

\* Decide if only 15-bit or full write.
vue_write_address(a) ==
    IF a.lo # 0 THEN vue_write_address_lo15(a) ELSE vue_write_address_full(a)

\* Mutant of PullUpInputs.
PullUpLowOnly(lanes) ==
    /\ dir' = [dir EXCEPT !["L"] = "in"]
    /\ out' = [out EXCEPT !["L"] = PullUp]

\* Change lanes of the AD bus from OUT to PU IN.
PullUpInputs(lanes) ==
    /\ dir' = [l \in Lanes |-> IF l \in lanes THEN "in" ELSE dir[l]]
    /\ out' = [l \in Lanes |-> IF l \in lanes THEN PullUp ELSE out[l]]

\* The bus is turned around, A0-A14 are put on it, PL rises: the lower latch
\* takes them.
LoadLow ==
    /\ pc = "low"
    /\ dir' = [l \in Lanes |-> "out"]
    /\ out' = [l \in Lanes |-> AddrBits]
    /\ ctrl' = ctrl \cup {"PL"}
    /\ lowLatch' = arg.lo
    /\ pc' = "high"
    /\ UNCHANGED <<hiLatch, gec, address, hdr, buffer, op, mode, busy,
                   length, i, fn, arg, full>>

\* PL falls: with AD15 raised before (only vue_write_address_full does) the
\* upper latch takes flags and A15-A22 from the bus.
LoadHigh ==
    /\ pc = "high"
    /\ hiLatch' = IF full THEN [flags |-> arg.flags, hi |-> arg.hi] ELSE hiLatch
    /\ ctrl' = ctrl \ {"PL"}
    /\ pc' = "release"
    /\ UNCHANGED <<dir, out, lowLatch, gec, address, hdr, buffer, op, mode,
                   busy, length, i, fn, arg, full>>

\* The bus is released again, and the function returns to its caller.
Release ==
    /\ pc = "release"
    /\ PullUpInputs(Lanes)
    /\ pc' = IF fn \in {"read", "header"} THEN "oe"
             ELSE IF fn = "write" THEN "data" ELSE "idle"
    /\ UNCHANGED <<ctrl, lowLatch, hiLatch, gec, address, hdr, buffer, op,
                   mode, busy, length, i, fn, arg, full>>

-----------------------------------------------------------------------------
(* vue_read_data_*: one iteration is Loop, the address write,              *)
(* OutputEnable, Sample.  The header loop of USBEvents.c has the same      *)
(* shape with an address of its own.                                       *)

\* The access functions test i < length, and address the next word.
Loop ==
    /\ pc = "loop" /\ fn \in Ops
    /\ i < length
    /\ vue_write_address(address)
    /\ UNCHANGED <<dir, out, ctrl, lowLatch, hiLatch, gec, address, hdr,
                   buffer, op, mode, busy, length, i, fn>>

\* nOE falls; incrementing the address is the wait state.
OutputEnable ==
    /\ pc = "oe"
    /\ ctrl' = ctrl \ {"nOE"}
    /\ address' = IF fn = "read" THEN vue_inc_address(address) ELSE address
    /\ pc' = "sample"
    /\ UNCHANGED <<dir, out, lowLatch, hiLatch, gec, hdr, buffer, op, mode,
                   busy, length, i, fn, arg, full>>

\* The lanes of the access are read into the buffer, nOE rises.
Sample ==
    /\ pc = "sample" /\ fn = "read"
    /\ \E data \in Pins :
         /\ gec' = Cycle("read", mode, data)
         /\ buffer' = Stored(data)
    /\ ctrl' = ctrl \cup {"nOE"}
    /\ i' = (i + StepOf(mode)) % IMod
    /\ pc' = "loop"
    /\ UNCHANGED <<dir, out, lowLatch, hiLatch, address, hdr, op, mode, busy,
                   length, fn, arg, full>>

\* A read returns with the bus as the last address write left it; the local
\* variables are gone.
ReadDone ==
    /\ pc = "loop" /\ fn = "read"
    /\ i >= length
    /\ length' = 0 /\ i' = 0
    /\ pc' = "idle"
    /\ UNCHANGED <<dir, out, ctrl, lowLatch, hiLatch, gec, address, hdr,
                   buffer, op, mode, busy, fn, arg, full>>

-----------------------------------------------------------------------------
(* vue_write_data_*.                                                       *)

\* Mutant of DrivenBy.
DrivenLowOnly(m) == {"L"}

\* The lanes vue_write_data_* turn to output.  vue_write_data_8bit_hi puts
\* its byte on VUE_ADH and turns VUE_ADL.
DrivenBy(m) == IF m = "8BIT_HI" THEN {"L"} ELSE LanesOf(m)

PutData ==
    /\ pc = "data"
    /\ out' = [l \in Lanes |-> IF l \in LanesOf(mode) THEN buffer[Slot(mode, l)] ELSE out[l]]
    /\ dir' = [l \in Lanes |-> IF l \in DrivenBy(mode) THEN "out" ELSE dir[l]]
    /\ pc' = "strobe"
    /\ UNCHANGED <<ctrl, lowLatch, hiLatch, gec, address, hdr, buffer, op,
                   mode, busy, length, i, fn, arg, full>>

\* The write lines fall; incrementing the address is the wait state.
StrobeLow ==
    /\ pc = "strobe"
    /\ ctrl' = ctrl \ StrobesOf(mode)
    /\ address' = vue_inc_address(address)
    /\ pc' = "rise"
    /\ UNCHANGED <<dir, out, lowLatch, hiLatch, gec, hdr, buffer, op, mode,
                   busy, length, i, fn, arg, full>>

\* The write lines rise: the cartridge takes the strobed lanes.
StrobeHigh ==
    /\ pc = "rise"
    /\ \E data \in Pins : gec' = Cycle("write", mode, data)
    /\ ctrl' = ctrl \cup StrobesOf(mode)
    /\ i' = (i + StepOf(mode)) % IMod
    /\ pc' = "loop"
    /\ UNCHANGED <<dir, out, lowLatch, hiLatch, address, hdr, buffer, op,
                   mode, busy, length, fn, arg, full>>

\* A write releases the lanes of its mode before it returns.
WriteDone ==
    /\ pc = "loop" /\ fn = "write"
    /\ i >= length
    /\ PullUpInputs(LanesOf(mode))
    /\ length' = 0 /\ i' = 0
    /\ pc' = "idle"
    /\ UNCHANGED <<ctrl, lowLatch, hiLatch, gec, address, hdr, buffer, op,
                   mode, busy, fn, arg, full>>

-----------------------------------------------------------------------------
(* The callers.                                                            *)

\* Phase 0 of VUE_BulkRead_Task and VUE_BulkWrite_Task: pick the access
\* function, turn the lamp on, select the target.
Select(t, hi, lo, x) ==
    LET a == [flags |-> target_select_map[t] \ {"nSTATUS"}, hi |-> hi, lo |-> lo]
    IN /\ pc = "idle" /\ ~busy
       /\ op' = x[1] /\ mode' = x[2] /\ busy' = TRUE
       /\ address' = a
       /\ fn' = "select"
       /\ vue_write_address_full(a)
       /\ UNCHANGED <<dir, out, ctrl, lowLatch, hiLatch, gec, hdr, buffer, length, i>>

\* Phase 1 of VUE_BulkRead_Task.
ReadChunk(n) ==
    /\ pc = "idle" /\ busy /\ op = "read"
    /\ length' = n /\ i' = 0
    /\ fn' = "read" /\ pc' = "loop"
    /\ UNCHANGED <<dir, out, ctrl, lowLatch, hiLatch, gec, address, hdr,
                   buffer, op, mode, busy, arg, full>>

\* Phase 1 of VUE_BulkWrite_Task: n bytes from the host replace the first n
\* of bulk_buffer, the others stay what they were.
WriteChunk(n, data) ==
    /\ pc = "idle" /\ busy /\ op = "write"
    /\ buffer' = [k \in 1 .. BufSize |-> IF k <= n THEN data[k] ELSE buffer[k]]
    /\ length' = n /\ i' = 0
    /\ fn' = "write" /\ pc' = "loop"
    /\ UNCHANGED <<dir, out, ctrl, lowLatch, hiLatch, gec, address, hdr, op,
                   mode, busy, arg, full>>

\* The default branch of both tasks: lamp off, nothing selected.
Deselect ==
    /\ pc = "idle" /\ busy
    /\ busy' = FALSE
    /\ fn' = "deselect"
    /\ vue_write_address_full([address EXCEPT !.flags = VUE_FLAG_MASK])
    /\ UNCHANGED <<dir, out, ctrl, lowLatch, hiLatch, gec, address, hdr,
                   buffer, op, mode, length, i>>

\* The bulk reset of main(): write default state.
ResetBus ==
    /\ pc = "idle"
    /\ ctrl' = (ctrl \cup Strobes) \ {"PL"}
    /\ busy' = FALSE
    /\ fn' = "reset"
    /\ vue_write_address_full(DefaultAddress)
    /\ UNCHANGED <<dir, out, lowLatch, hiLatch, gec, address, hdr, buffer, op,
                   mode, length, i>>

\* REQ_READ_HEADER: a control request, served between two chunks as well.
ReadHeader ==
    /\ pc = "idle"
    /\ busy => HeaderWhileBusy
    /\ hdr' = [flags |-> hdr.flags \ {"nROM_CE"}, hi |-> Header.hi, lo |-> Header.lo]
    /\ i' = 0
    /\ fn' = "header" /\ pc' = "loop"
    /\ UNCHANGED <<dir, out, ctrl, lowLatch, hiLatch, gec, address, buffer,
                   op, mode, busy, length, arg, full>>

\* address++ has no mask: Header + HeaderWords stays inside A0-A14.
HeaderLoop ==
    /\ pc = "loop" /\ fn = "header"
    /\ i < 2 * HeaderWords
    /\ vue_write_address_full(hdr)
    /\ hdr' = [hdr EXCEPT !.lo = @ + 1]
    /\ UNCHANGED <<dir, out, ctrl, lowLatch, hiLatch, gec, address, buffer,
                   op, mode, busy, length, i, fn>>

\* The word goes to my_buffer, which nothing else reads.
HeaderSample ==
    /\ pc = "sample" /\ fn = "header"
    /\ \E data \in Pins : gec' = Cycle("read", "16BIT", data)
    /\ ctrl' = ctrl \cup {"nOE"}
    /\ i' = i + 2
    /\ pc' = "loop"
    /\ UNCHANGED <<dir, out, lowLatch, hiLatch, address, hdr, buffer, op,
                   mode, busy, length, fn, arg, full>>

HeaderDone ==
    /\ pc = "loop" /\ fn = "header"
    /\ i >= 2 * HeaderWords
    /\ hdr' = [hdr EXCEPT !.flags = @ \cup {"nROM_CE"}]
    /\ i' = 0
    /\ fn' = "deselect"
    /\ vue_write_address_full(hdr')
    /\ UNCHANGED <<dir, out, ctrl, lowLatch, hiLatch, gec, address, buffer,
                   op, mode, busy, length>>

-----------------------------------------------------------------------------

\* The steps of a running function.
Step ==
    \/ LoadLow \/ LoadHigh \/ Release
    \/ Loop \/ OutputEnable \/ Sample \/ ReadDone
    \/ PutData \/ StrobeLow \/ StrobeHigh \/ WriteDone
    \/ HeaderLoop \/ HeaderSample \/ HeaderDone

Call ==
    \/ \E t \in DOMAIN target_select_map, hi \in 0 .. HiSize - 1,
          lo \in 0 .. LoSize - 1, x \in Transfers : Select(t, hi, lo, x)
    \/ \E n \in 1 .. BufSize : ReadChunk(n)
    \/ \E n \in 1 .. BufSize : \E data \in [1 .. n -> Byte] : WriteChunk(n, data)
    \/ Deselect \/ ResetBus \/ ReadHeader

Next == Step \/ Call

Spec == Init /\ [][Next]_vars

\* The processor keeps executing a function it is in; nothing makes a caller
\* come.
FairSpec == Spec /\ WF_vars(Step)

-----------------------------------------------------------------------------

Data == [{"L"} -> Byte] \cup [{"H"} -> Byte] \cup [Lanes -> Byte]

\* Every variable has its type: no index leaves its range, no lane holds
\* anything but address bits or data.
TypeOK ==
    /\ dir \in [Lanes -> {"in", "out"}]
    /\ out \in [Lanes -> Byte \cup {AddrBits}]
    /\ ctrl \subseteq Strobes \cup {"PL"}
    /\ lowLatch \in 0 .. LoSize - 1
    /\ hiLatch \in [flags : SUBSET VUE_FLAG_MASK, hi : 0 .. HiSize - 1]
    /\ \/ gec = NoCycle
       \/ gec \in [kind : {"read", "write"}, at : Addr, data : Data]
    /\ address \in Addr /\ hdr \in Addr /\ arg \in Addr
    /\ buffer \in [1 .. BufSize -> Byte]
    /\ op \in Ops /\ mode \in Modes /\ busy \in BOOLEAN
    /\ length \in 0 .. BufSize
    /\ i \in 0 .. IMod - 1
    /\ fn \in Ops \cup {"header", "select", "deselect", "reset"}
    /\ pc \in {"idle", "loop", "low", "high", "release",
               "oe", "sample", "data", "strobe", "rise"}
    /\ full \in BOOLEAN

\* Which function is running where, that the
\* strobes are high but for the moment of an access, and address bits are on
\* the bus only while an address is written.
Control ==
    /\ pc \in {"oe", "sample"} => fn \in {"read", "header"}
    /\ pc \in {"data", "strobe", "rise"} => fn = "write"
    /\ pc = "loop" => fn \in Ops \cup {"header"}
    /\ fn = "header" => pc # "idle"
    /\ pc \notin {"sample", "rise"} => Strobes \subseteq ctrl
    /\ pc \in {"oe", "sample"} => \A l \in Lanes : dir[l] = "in" /\ out[l] = PullUp
    /\ pc = "sample" => Strobes \ {"nOE"} \subseteq ctrl
    /\ pc = "rise" => Strobes \ StrobesOf(mode) \subseteq ctrl
    /\ pc \notin {"high", "release"} => \A l \in Lanes : out[l] \in Byte

\* The loop counters: i is below length inside an iteration, even in a 16 bit
\* access; the header loop is at word i/2 of the header.
Counting ==
    /\ fn \in Ops /\ pc \notin {"idle", "loop"} => i < length
    /\ fn \in Ops /\ pc # "idle" /\ mode = "16BIT" =>
          \E k \in 0 .. BufSize : i = 2 * k
    /\ fn = "header" =>
          \E k \in 0 .. HeaderWords :
             /\ i = 2 * k
             /\ IF pc = "loop" THEN hdr.lo = Header.lo + k
                ELSE k < HeaderWords /\ hdr.lo = Header.lo + k + 1

Upper(a) == [flags |-> a.flags, hi |-> a.hi]

\* How far the latches are with the address being written; and, for as long
\* as a transfer is open, that the upper latch is right for the next word
\* unless that word makes vue_write_address load it.
Latching ==
    /\ busy <=> fn \in Ops \cup {"select"}
    /\ pc \in {"low", "high"} /\ ~full => hiLatch = Upper(arg)
    /\ pc = "high" => lowLatch = arg.lo
    /\ pc \in {"release", "oe", "sample", "data", "strobe", "rise"} => Latched = arg
    /\ fn \in Ops /\ pc \in {"low", "high", "release", "oe", "data", "strobe"} => address = arg
    /\ fn \in Ops /\ pc \in {"sample", "rise"} => address = vue_inc_address(arg)
    /\ fn = "select" /\ pc # "idle" => address = arg
    /\ busy /\ pc \in {"idle", "loop"} /\ address.lo # 0 => hiLatch = Upper(address)

\* The flags of a target with the lamp on.
TargetFlags == {target_select_map[t] \ {"nSTATUS"} : t \in DOMAIN target_select_map}

\* What is selected: the open transfer's target in its pointer, the ROM in
\* hdr while the header is read.  The flags in the upper latch are those of
\* the pointer from the moment a target is selected.
Selecting ==
    /\ busy => address.flags \in TargetFlags
    /\ hdr.flags = IF fn = "header" THEN VUE_FLAG_MASK \ {"nROM_CE"} ELSE VUE_FLAG_MASK
    /\ fn = "header" /\ pc # "loop" => arg.flags = hdr.flags
    /\ fn \in Ops \/ (fn = "select" /\ pc = "idle") => hiLatch.flags = address.flags

Released(l) == dir[l] = "in" /\ out[l] = PullUp

\* Which lanes are driven: both while an address is written, those of the
\* mode, with their bytes, from PutData until the loop of the write ends, and
\* none otherwise.
Driving ==
    /\ fn \in Ops => fn = op
    /\ <<op, mode>> \in Transfers \cup {<<"read", "16BIT">>}
    /\ "PL" \in ctrl <=> pc = "high"
    /\ pc \in {"idle", "data"} => \A l \in Lanes : Released(l)
    /\ pc \in {"loop", "strobe", "rise"} =>
          \A l \in Lanes : (fn = "write" /\ l \in LanesOf(mode)) \/ Released(l)
    /\ pc \in {"strobe", "rise"} =>
          \A l \in LanesOf(mode) : dir[l] = "out" /\ out[l] = buffer[Slot(mode, l)]

\* Outside a chunk there is no length and no counter, and the header loop
\* writes the address it has just passed.
Resting ==
    /\ fn \notin Ops \/ pc = "idle" => length = 0
    /\ fn # "header" /\ (fn \notin Ops \/ pc = "idle") => i = 0
    /\ fn \in Ops /\ pc # "idle" => length > 0
    /\ fn = "header" => hdr.hi = Header.hi
    /\ fn = "header" /\ pc # "loop" => arg.hi = Header.hi /\ arg.lo + 1 = hdr.lo

\* The inductive invariants behind TypeOK, NoContention and BufferBounds;
\* behind AddressLatched; behind OneChipSelected and ChipHeldDuringChunk;
\* behind WriteDrivesLanes and BusReleased; behind Implements.
CountInv == TypeOK /\ Control /\ Counting
BusInv == CountInv /\ Latching
SelectInv == BusInv /\ Selecting
DriveInv == CountInv /\ Driving
RefineInv == SelectInv /\ Driving /\ Resting

\* The cartridge is strobed only at the address the program meant: all 23
\* bits and the flags on the board's latches are those of the word being
\* accessed although vue_write_address loads the upper latch only when the
\* lower 15 bits are 0.
AddressLatched ==
    Strobes \subseteq ctrl \/ Latched = arg

\* In a transfer exactly one chip is selected while a strobe is low, and the
\* busy lamp is on; the header is read from the ROM with the lamp off.
OneChipSelected ==
    ~(Strobes \subseteq ctrl) =>
        IF fn = "header"
        THEN hiLatch.flags = VUE_FLAG_MASK \ {"nROM_CE"}
        ELSE hiLatch.flags \in TargetFlags

\* The cartridge and the processor never drive a lane of the AD bus against
\* each other: while nOE is low both lanes are inputs with the pull-up on.
NoContention ==
    "nOE" \notin ctrl => \A l \in Lanes : dir[l] = "in" /\ out[l] = PullUp

\* When the write lines rise, what the cartridge takes from the strobed
\* lanes are the bytes of this iteration: each lane is driven with its own.
WriteDrivesLanes ==
    pc = "rise" =>
        \A l \in LanesOf(mode) : dir[l] = "out" /\ out[l] = buffer[Slot(mode, l)]

\* Every function of vue.c leaves the bus as it found it: strobes high, PL
\* low, both lanes inputs with the pull-up on.
BusReleased ==
    pc = "idle" =>
        /\ ctrl = Strobes
        /\ \A l \in Lanes : dir[l] = "in" /\ out[l] = PullUp

\* With an odd length the 16 bit functions go one byte past it, never past
\* the end of bulk_buffer.
BufferBounds ==
    pc \in {"sample", "data", "strobe", "rise"} /\ fn \in Ops =>
        \A l \in LanesOf(mode) : Slot(mode, l) \in 1 .. BufSize

\* While an access function runs, whatever address it writes and wherever
\* the address wraps, the chip selects and the lamp do not change.
ChipHeldDuringChunk ==
    [][(fn \in Ops /\ pc # "idle") => (hiLatch'.flags = hiLatch.flags)]_vars

\* Every function of vue.c and the header loop return: the loop counter
\* reaches the length and does not wrap past it.
Returns == [](pc # "idle" => <>(pc = "idle"))

-----------------------------------------------------------------------------
(* What the access functions promise their callers, word by word.          *)

\* The word address as one number.
Word(a) == a.hi * LoSize + a.lo

\* In the wait state the pointer argument is already one word ahead.
Position ==
    Word(IF fn \in Ops /\ pc \in {"sample", "rise"} THEN arg ELSE address)

\* The line that is low in the flags of a target, and a cycle as the chip
\* sees it.
ChipOf(flags) == CHOOSE c \in Chips : c \notin flags
Seen(cycle) ==
    IF cycle.kind = "none" THEN cycle
    ELSE [kind |-> cycle.kind, low |-> VUE_FLAG_MASK \ cycle.at.flags,
          word |-> Word(cycle.at), data |-> cycle.data]

Abstract == INSTANCE CartAccess WITH
    WordCount   <- LoSize * HiSize,
    HeaderFirst <- Word(Header),
    chip        <- IF busy THEN ChipOf(address.flags) ELSE "none",
    ptr         <- IF busy THEN Position ELSE 0,
    kind        <- <<op, mode>>,
    todo        <- length,
    done        <- IF fn = "header" THEN 0 ELSE i,
    last        <- Seen(gec)

\* vue.c implements CartAccess: the pin sequences deliver exactly the reads
\* and writes asked for, each at the next word of the selected target.
Implements == Abstract!Spec
=============================================================================
