---------------------------- MODULE VUEBusProofs ----------------------------
(***************************************************************************)
(* Proofs about VUEBus for every size of the address range, the buffer and *)
(* the header, and every set of transfers: the type invariant; when the    *)
(* header is not read during a transfer, that every strobe finds its       *)
(* address on the latches and one chip selected; without 8 bit writes to   *)
(* the upper lane, that writes drive the bus and release it.               *)
(***************************************************************************)
EXTENDS VUEBus, TLAPS

-----------------------------------------------------------------------------
(* Lemmas about the operators of VUEBus.                                   *)

\* The increment stays inside the 23 bit range and keeps the flags.
LEMMA IncTyped ==
    ASSUME NEW a \in Addr
    PROVE  /\ vue_inc_address(a) \in Addr
           /\ vue_inc_address(a).flags = a.flags
<1>1. CASE a.lo + 1 < LoSize
  <2>1. vue_inc_address(a) = [a EXCEPT !.lo = a.lo + 1]
    BY <1>1 DEF vue_inc_address
  <2>2. a.lo + 1 \in 0 .. LoSize - 1
    BY <1>1, SizeAssumption DEF Addr
  <2> QED
    BY <2>1, <2>2 DEF Addr
<1>2. CASE ~(a.lo + 1 < LoSize)
  <2> DEFINE h == IF a.hi + 1 < HiSize THEN a.hi + 1 ELSE 0
  <2>1. vue_inc_address(a) = [a EXCEPT !.lo = 0, !.hi = h]
    BY <1>2 DEF vue_inc_address
  <2>2. h \in 0 .. HiSize - 1 /\ 0 \in 0 .. LoSize - 1
    BY SizeAssumption DEF Addr
  <2> HIDE DEF h
  <2> QED
    BY <2>1, <2>2 DEF Addr
<1> QED
  BY <1>1, <1>2

\* It changes the upper digit only when the lower one becomes 0.
LEMMA IncUpper ==
    ASSUME NEW a \in Addr, vue_inc_address(a).lo # 0
    PROVE  Upper(vue_inc_address(a)) = Upper(a)
  BY SizeAssumption DEF Addr, vue_inc_address, Upper

\* A target leaves one line low, so its address is one of 23 bits and flags.
LEMMA TargetTyped ==
    ASSUME NEW t \in DOMAIN target_select_map
    PROVE  target_select_map[t] \in SUBSET VUE_FLAG_MASK
  BY DEF target_select_map, VUE_FLAG_MASK

\* What the connector sees in an access is a well formed cycle.
LEMMA CycleTyped ==
    ASSUME TypeOK, NEW k \in {"read", "write"}, NEW m \in Modes,
           NEW d \in [Lanes -> Byte]
    PROVE  Cycle(k, m, d) \in [kind : {"read", "write"}, at : Addr, data : Data]
<1>1. Latched \in Addr
  BY DEF TypeOK, Latched, Addr
<1>2. [l \in LanesOf(m) |-> d[l]] \in Data
  <2>1. LanesOf(m) \in {{"L"}, {"H"}, Lanes} /\ LanesOf(m) \subseteq Lanes
    BY DEF LanesOf, Modes, Lanes
  <2>2. \A l \in LanesOf(m) : d[l] \in Byte
    BY <2>1
  <2>3. [l \in LanesOf(m) |-> d[l]] \in [LanesOf(m) -> Byte]
    BY <2>2
  <2> QED
    BY <2>1, <2>3 DEF Data
<1> QED
  BY <1>1, <1>2 DEF Cycle

\* What is read from the lanes are bytes, once the address bits are gone.
LEMMA PinsTyped ==
    ASSUME \A l \in Lanes : out[l] \in Byte
    PROVE  Pins \subseteq [Lanes -> Byte]
<1>1. \A l \in Lanes : Level(l) \subseteq Byte
  BY DEF Level
<1>2. ASSUME NEW l \in Byte, NEW h \in Byte
      PROVE  [x \in Lanes |-> IF x = "L" THEN l ELSE h] \in [Lanes -> Byte]
  OBVIOUS
<1> QED
  BY <1>1, <1>2 DEF Pins, Lanes

\* A number below the modulus is its own remainder.
LEMMA SmallMod ==
    ASSUME NEW m \in Nat, NEW n \in Nat, n < m
    PROVE  n % m = n
  OBVIOUS

\* Inside an iteration the bytes of the lanes are in the buffer, and the step
\* of the counter does not wrap.
LEMMA SlotInBuffer ==
    ASSUME TypeOK, Counting, fn \in Ops, pc \notin {"idle", "loop"}
    PROVE  \A l \in LanesOf(mode) : Slot(mode, l) \in 1 .. BufSize
<1>1. i < length /\ i \in Nat /\ length \in 0 .. BufSize /\ BufSize \in Nat
  BY BufAssumption DEF Counting, TypeOK
<1>2. CASE mode = "16BIT"
  <2>1. i + 2 <= BufSize
    <3>1. PICK k \in 0 .. BufSize : i = 2 * k
      BY <1>2 DEF Counting
    <3>2. PICK b \in 1 .. BufSize : BufSize = 2 * b
      BY BufAssumption
    <3> QED
      BY <1>1, <3>1, <3>2
  <2> QED
    BY <1>1, <1>2, <2>1 DEF Slot
<1>3. CASE mode # "16BIT"
  BY <1>1, <1>3 DEF Slot
<1> QED
  BY <1>2, <1>3

\* The next value of the loop counter is the sum, in the range of a uint8_t.
LEMMA StepNoWrap ==
    ASSUME TypeOK, Counting, fn \in Ops, pc \notin {"idle", "loop"}
    PROVE  /\ (i + StepOf(mode)) % IMod = i + StepOf(mode)
           /\ i + StepOf(mode) \in 0 .. IMod - 1
<1>1. i < length /\ i \in Nat /\ length \in 0 .. BufSize
  BY DEF Counting, TypeOK
<1>2. StepOf(mode) \in 1 .. 2
  BY DEF StepOf
<1>3. i + StepOf(mode) \in Nat /\ i + StepOf(mode) < IMod
  BY <1>1, <1>2, BufAssumption
<1> QED
  BY <1>3, SmallMod, BufAssumption

\* A read stores bytes.
LEMMA StoredTyped ==
    ASSUME TypeOK, NEW data \in [Lanes -> Byte]
    PROVE  Stored(data) \in [1 .. BufSize -> Byte]
<1>1. LanesOf(mode) \subseteq Lanes
  BY DEF TypeOK, LanesOf, Modes, Lanes
<1>2. ASSUME NEW k \in 1 .. BufSize, \E l \in LanesOf(mode) : k = Slot(mode, l)
      PROVE  data[CHOOSE l \in LanesOf(mode) : k = Slot(mode, l)] \in Byte
  BY <1>1, <1>2
<1>3. \A k \in 1 .. BufSize : buffer[k] \in Byte
  BY DEF TypeOK
<1> QED
  BY <1>2, <1>3 DEF Stored

\* Twice a number, and two more, is twice a number.
LEMMA NextEven ==
    ASSUME NEW n \in Nat, NEW j \in Nat, \E k \in 0 .. n : j = 2 * k, j < n
    PROVE  \E k \in 0 .. n : j + 2 = 2 * k
<1>1. PICK k \in 0 .. n : j = 2 * k
  OBVIOUS
<1>2. k + 1 \in 0 .. n /\ j + 2 = 2 * (k + 1)
  BY <1>1
<1> QED
  BY <1>2

\* After an access the upper latch is right for the next word, unless that
\* word loads it.
LEMMA UpperInStep ==
    ASSUME TypeOK, Latched = arg, vue_inc_address(arg).lo # 0
    PROVE  hiLatch = Upper(vue_inc_address(arg))
<1>1. hiLatch = Upper(arg)
  BY DEF TypeOK, Addr, Latched, Upper
<1> QED
  BY <1>1, IncUpper DEF TypeOK

-----------------------------------------------------------------------------
(* The steps of VUEBus.  Each lemma is about one action: CountInv is       *)
(* inductive whenever the header is read; Latching is, as long as that is  *)
(* not done during a transfer.                                             *)

\* Preserved when the lower latch is loaded.
LEMMA LoadLowStep ==
    ASSUME CountInv, LoadLow
    PROVE  CountInv' /\ (Latching => Latching')
<1> USE DEF CountInv
<1>1. TypeOK'
  BY DEF TypeOK, LoadLow, Addr
<1>2. Control'
  BY DEF Control, LoadLow, Ops, Strobes, Lanes
<1>3. Counting'
  BY DEF Control, Counting, LoadLow, Ops
<1>4. ASSUME Latching PROVE Latching'
  BY <1>4
     DEF Control, Latching, LoadLow, Latched, Upper, Ops
<1> QED
  BY <1>1, <1>2, <1>3, <1>4

\* Preserved when the upper latch is loaded, or kept.
LEMMA LoadHighStep ==
    ASSUME CountInv, LoadHigh
    PROVE  CountInv' /\ (Latching => Latching')
<1> USE DEF CountInv
<1>1. TypeOK'
  BY DEF TypeOK, LoadHigh, Addr
<1>2. Control'
  BY DEF Control, LoadHigh, Ops, Strobes, Lanes
<1>3. Counting'
  BY DEF Control, Counting, LoadHigh, Ops
<1>4. ASSUME Latching PROVE Latching'
  <2>1. hiLatch' = Upper(arg) /\ lowLatch' = arg.lo /\ arg' = arg
    BY <1>4 DEF LoadHigh, Latching, Upper
  <2>2. Latched' = arg'
    BY <2>1 DEF TypeOK, Addr, Latched, Upper
  <2> QED
    BY <1>4, <2>2 DEF LoadHigh, Control, Latching, Ops
<1> QED
  BY <1>1, <1>2, <1>3, <1>4

\* Preserved when the bus is released.
LEMMA ReleaseStep ==
    ASSUME CountInv, Release
    PROVE  CountInv' /\ (Latching => Latching')
<1> USE DEF CountInv
<1>1. TypeOK'
  BY ByteAssumption
     DEF TypeOK, Release, PullUpInputs, Addr
<1>2. Control'
  BY ByteAssumption
     DEF Control, Release, PullUpInputs, Ops, Strobes, Lanes
<1>3. Counting'
  BY DEF Control, Counting, Release, PullUpInputs, Ops
<1>4. ASSUME Latching PROVE Latching'
  BY <1>4
     DEF Control, Latching, TypeOK, Release, PullUpInputs, Latched, Upper, Ops
<1> QED
  BY <1>1, <1>2, <1>3, <1>4

\* Preserved when an access function addresses its next word.
LEMMA LoopStep ==
    ASSUME CountInv, Loop
    PROVE  CountInv' /\ (Latching => Latching')
<1> USE DEF CountInv
<1>1. TypeOK'
  BY DEF TypeOK, Loop, vue_write_address, vue_write_address_lo15, vue_write_address_full, Addr
<1>2. Control'
  BY DEF Control, Loop, vue_write_address, vue_write_address_lo15, vue_write_address_full, Ops,
     Strobes, Lanes
<1>3. Counting'
  BY DEF Control, Counting, Loop, vue_write_address, vue_write_address_lo15, vue_write_address_full, Ops
<1>4. ASSUME Latching PROVE Latching'
  BY <1>4
     DEF Control, Latching, Loop, vue_write_address, vue_write_address_lo15,
        vue_write_address_full, Latched, Upper, Ops
<1> QED
  BY <1>1, <1>2, <1>3, <1>4

\* Preserved when nOE falls.
LEMMA OutputEnableStep ==
    ASSUME CountInv, OutputEnable
    PROVE  CountInv' /\ (Latching => Latching')
<1> USE DEF CountInv
<1>1. TypeOK'
  BY IncTyped
     DEF TypeOK, OutputEnable, Addr
<1>2. Control'
  BY DEF Control, OutputEnable, Ops, Strobes, Lanes
<1>3. Counting'
  BY DEF Control, Counting, OutputEnable, Ops
<1>4. ASSUME Latching PROVE Latching'
  BY <1>4
     DEF Control, Latching, OutputEnable, Latched, Upper, Ops
<1> QED
  BY <1>1, <1>2, <1>3, <1>4

\* Preserved when the lanes are read.
LEMMA SampleStep ==
    ASSUME CountInv, Sample
    PROVE  CountInv' /\ (Latching => Latching')
<1> USE DEF CountInv
<1>a. /\ pc = "sample" /\ fn = "read" /\ pc' = "loop"
      /\ i' = (i + StepOf(mode)) % IMod
      /\ ctrl' = ctrl \cup {"nOE"}
      /\ UNCHANGED <<dir, out, lowLatch, hiLatch, address, hdr, op, mode, busy,
                     length, fn, arg, full>>
  BY DEF Sample
<1>b. i' = i + StepOf(mode) /\ i' \in 0 .. IMod - 1
  BY <1>a, StepNoWrap DEF Ops
<1>c. PICK data \in Pins : gec' = Cycle("read", mode, data) /\ buffer' = Stored(data)
  BY DEF Sample
<1>d. data \in [Lanes -> Byte]
  BY <1>a, <1>c, PinsTyped DEF Control
<1>1. TypeOK'
  <2>1. gec' \in [kind : {"read", "write"}, at : Addr, data : Data]
    BY <1>c, <1>d, CycleTyped DEF TypeOK
  <2>2. buffer' \in [1 .. BufSize -> Byte]
    BY <1>c, <1>d, StoredTyped
  <2> QED
    BY <1>a, <1>b, <2>1, <2>2 DEF TypeOK, Addr, Data, Strobes
<1>2. Control'
  BY <1>a DEF Control, Strobes, Ops, Lanes, TypeOK
<1>3. Counting'
  <2>1. ASSUME mode = "16BIT" PROVE \E k \in 0 .. BufSize : i' = 2 * k
    <3>1. i \in Nat /\ BufSize \in Nat /\ i < BufSize /\ i' = i + 2
      BY <1>a, <1>b, <2>1, BufAssumption DEF TypeOK, Counting, Ops, StepOf
    <3>2. \E k \in 0 .. BufSize : i = 2 * k
      BY <1>a, <2>1 DEF Counting, Ops
    <3> QED
      BY <3>1, <3>2, NextEven
  <2> QED
    BY <1>a, <2>1 DEF Counting, Ops
<1>4. ASSUME Latching PROVE Latching'
  <2>1. address' = vue_inc_address(arg) /\ Latched = arg
    BY <1>4, <1>a DEF Latching, Ops
  <2>2. address'.lo # 0 => hiLatch' = Upper(address')
    BY <1>a, <2>1, UpperInStep
  <2> QED
    BY <1>4, <1>a, <2>2 DEF Latching, Ops
<1> QED
  BY <1>1, <1>2, <1>3, <1>4

\* Preserved when a read returns.
LEMMA ReadDoneStep ==
    ASSUME CountInv, ReadDone
    PROVE  CountInv' /\ (Latching => Latching')
<1> USE DEF CountInv
<1>1. TypeOK'
  BY BufAssumption
     DEF TypeOK, ReadDone, Addr
<1>2. Control'
  BY DEF Control, ReadDone, Ops, Strobes, Lanes
<1>3. Counting'
  BY DEF Control, Counting, ReadDone, Ops
<1>4. ASSUME Latching PROVE Latching'
  BY <1>4
     DEF Control, Latching, ReadDone, Latched, Upper, Ops
<1> QED
  BY <1>1, <1>2, <1>3, <1>4

\* Preserved when data is put on the lanes.
LEMMA PutDataStep ==
    ASSUME CountInv, PutData
    PROVE  CountInv' /\ (Latching => Latching')
<1> USE DEF CountInv
<1>a. /\ pc = "data" /\ pc' = "strobe" /\ fn = "write"
      /\ UNCHANGED <<ctrl, lowLatch, hiLatch, gec, address, hdr, buffer, op, mode,
                     busy, length, i, fn, arg, full>>
  BY DEF PutData, Control
<1>b. dir' \in [Lanes -> {"in", "out"}]
  BY DEF PutData, TypeOK
<1>c. out' \in [Lanes -> Byte]
  <2>1. \A l \in LanesOf(mode) : buffer[Slot(mode, l)] \in Byte
    BY <1>a, SlotInBuffer DEF TypeOK, Ops
  <2>2. \A l \in Lanes : out[l] \in Byte
    BY <1>a DEF Control
  <2> QED
    BY <2>1, <2>2 DEF PutData
<1>1. TypeOK'
  BY <1>a, <1>b, <1>c DEF TypeOK, Addr
<1>2. Control'
  BY <1>a, <1>c DEF Control, Ops
<1>3. Counting'
  BY DEF Control, Counting, PutData, Ops
<1>4. ASSUME Latching PROVE Latching'
  BY <1>4
     DEF Control, Latching, PutData, Latched, Upper, Ops
<1> QED
  BY <1>1, <1>2, <1>3, <1>4

\* Preserved when the write lines fall.
LEMMA StrobeLowStep ==
    ASSUME CountInv, StrobeLow
    PROVE  CountInv' /\ (Latching => Latching')
<1> USE DEF CountInv
<1>1. TypeOK'
  BY IncTyped
     DEF TypeOK, StrobeLow, Addr
<1>2. Control'
  BY DEF Control, StrobeLow, Ops, Strobes, Lanes
<1>3. Counting'
  BY DEF Control, Counting, StrobeLow, Ops
<1>4. ASSUME Latching PROVE Latching'
  BY <1>4
     DEF Control, Latching, StrobeLow, Latched, Upper, Ops
<1> QED
  BY <1>1, <1>2, <1>3, <1>4

\* Preserved when the write lines rise.
LEMMA StrobeHighStep ==
    ASSUME CountInv, StrobeHigh
    PROVE  CountInv' /\ (Latching => Latching')
<1> USE DEF CountInv
<1>a. /\ pc = "rise" /\ fn = "write" /\ pc' = "loop"
      /\ i' = (i + StepOf(mode)) % IMod
      /\ ctrl' = ctrl \cup StrobesOf(mode)
      /\ UNCHANGED <<dir, out, lowLatch, hiLatch, address, hdr, buffer, op, mode,
                     busy, length, fn, arg, full>>
  BY DEF StrobeHigh, Control
<1>b. i' = i + StepOf(mode) /\ i' \in 0 .. IMod - 1
  BY <1>a, StepNoWrap DEF Ops
<1>c. PICK data \in Pins : gec' = Cycle("write", mode, data)
  BY DEF StrobeHigh
<1>d. data \in [Lanes -> Byte]
  BY <1>a, <1>c, PinsTyped DEF Control
<1>1. TypeOK'
  <2>1. gec' \in [kind : {"read", "write"}, at : Addr, data : Data]
    BY <1>c, <1>d, CycleTyped DEF TypeOK
  <2>2. StrobesOf(mode) \subseteq Strobes
    BY DEF TypeOK, Modes, StrobesOf, Strobes
  <2> QED
    BY <1>a, <1>b, <2>1, <2>2 DEF TypeOK, Addr, Data
<1>2. Control'
  BY <1>a DEF Control, Ops, Lanes, TypeOK
<1>3. Counting'
  <2>1. ASSUME mode = "16BIT" PROVE \E k \in 0 .. BufSize : i' = 2 * k
    <3>1. i \in Nat /\ BufSize \in Nat /\ i < BufSize /\ i' = i + 2
      BY <1>a, <1>b, <2>1, BufAssumption DEF TypeOK, Counting, Ops, StepOf
    <3>2. \E k \in 0 .. BufSize : i = 2 * k
      BY <1>a, <2>1 DEF Counting, Ops
    <3> QED
      BY <3>1, <3>2, NextEven
  <2> QED
    BY <1>a, <2>1 DEF Counting, Ops
<1>4. ASSUME Latching PROVE Latching'
  <2>1. address' = vue_inc_address(arg) /\ Latched = arg
    BY <1>4, <1>a DEF Latching, Ops
  <2>2. address'.lo # 0 => hiLatch' = Upper(address')
    BY <1>a, <2>1, UpperInStep
  <2> QED
    BY <1>4, <1>a, <2>2 DEF Latching, Ops
<1> QED
  BY <1>1, <1>2, <1>3, <1>4

\* Preserved when a write returns.
LEMMA WriteDoneStep ==
    ASSUME CountInv, WriteDone
    PROVE  CountInv' /\ (Latching => Latching')
<1> USE DEF CountInv
<1>1. TypeOK'
  BY ByteAssumption, BufAssumption
     DEF TypeOK, WriteDone, PullUpInputs, Addr
<1>2. Control'
  BY ByteAssumption
     DEF Control, WriteDone, PullUpInputs, Ops, Strobes, Lanes
<1>3. Counting'
  BY DEF Control, Counting, WriteDone, PullUpInputs, Ops
<1>4. ASSUME Latching PROVE Latching'
  BY <1>4
     DEF Control, Latching, WriteDone, PullUpInputs, Latched, Upper, Ops
<1> QED
  BY <1>1, <1>2, <1>3, <1>4

\* Preserved when the header loop addresses its next word.
LEMMA HeaderLoopStep ==
    ASSUME CountInv, HeaderLoop
    PROVE  CountInv' /\ (Latching => Latching')
<1> USE DEF CountInv
<1>a. PICK k \in 0 .. HeaderWords : i = 2 * k /\ hdr.lo = Header.lo + k
  BY DEF Counting, HeaderLoop
<1>b. k < HeaderWords /\ Header.lo \in Nat /\ hdr.lo + 1 < LoSize /\ hdr.lo + 1 \in Nat
  BY <1>a, HeaderAssumption, SizeAssumption DEF HeaderLoop
<1>c. hdr' = [hdr EXCEPT !.lo = hdr.lo + 1] /\ hdr \in Addr
  BY DEF HeaderLoop, TypeOK
<1>1. TypeOK'
  <2>1. hdr' \in Addr
    BY <1>b, <1>c, SizeAssumption DEF Addr
  <2> QED
    BY <2>1, <1>c DEF HeaderLoop, TypeOK, vue_write_address_full
<1>2. Control'
  BY DEF Control, HeaderLoop, vue_write_address_full, Ops, Strobes, Lanes
<1>3. Counting'
  <2>1. hdr'.lo = Header.lo + k + 1
    BY <1>a, <1>b, <1>c DEF Addr
  <2> QED
    BY <1>a, <1>b, <2>1 DEF HeaderLoop, vue_write_address_full, Counting, Ops
<1>4. ASSUME Latching PROVE Latching'
  BY <1>4
     DEF Control, Latching, HeaderLoop, vue_write_address_full, Latched, Upper, Ops
<1> QED
  BY <1>1, <1>2, <1>3, <1>4

\* Preserved when a word of the header is read.
LEMMA HeaderSampleStep ==
    ASSUME CountInv, HeaderSample
    PROVE  CountInv' /\ (Latching => Latching')
<1> USE DEF CountInv
<1>a. /\ pc = "sample" /\ fn = "header" /\ pc' = "loop"
      /\ i' = i + 2
      /\ ctrl' = ctrl \cup {"nOE"}
      /\ UNCHANGED <<dir, out, lowLatch, hiLatch, address, hdr, buffer, op, mode,
                     busy, length, fn, arg, full>>
  BY DEF HeaderSample
<1>b. PICK k \in 0 .. HeaderWords : i = 2 * k /\ k < HeaderWords /\ hdr.lo = Header.lo + k + 1
  BY <1>a DEF Counting
<1>c. PICK data \in Pins : gec' = Cycle("read", "16BIT", data)
  BY DEF HeaderSample
<1>d. data \in [Lanes -> Byte]
  BY <1>a, <1>c, PinsTyped DEF Control
<1>e. k + 1 \in 0 .. HeaderWords /\ i' = 2 * (k + 1) /\ Header.lo \in Nat
  BY <1>a, <1>b, HeaderAssumption
<1>1. TypeOK'
  <2>1. gec' \in [kind : {"read", "write"}, at : Addr, data : Data]
    BY <1>c, <1>d, CycleTyped DEF Modes
  <2>2. i' \in 0 .. IMod - 1
    BY <1>a, <1>b, HeaderAssumption, BufAssumption
  <2> QED
    BY <1>a, <2>1, <2>2 DEF TypeOK, Addr, Data, Strobes
<1>2. Control'
  BY <1>a DEF Control, Strobes, Ops, Lanes, TypeOK
<1>3. Counting'
  <2>1. hdr'.lo = Header.lo + (k + 1)
    BY <1>a, <1>b, <1>e
  <2> QED
    BY <1>a, <1>e, <2>1 DEF Counting, Ops
<1>4. ASSUME Latching PROVE Latching'
  BY <1>4
     DEF Control, Latching, HeaderSample, Latched, Upper, Ops
<1> QED
  BY <1>1, <1>2, <1>3, <1>4

\* Preserved when the header loop ends.
LEMMA HeaderDoneStep ==
    ASSUME CountInv, HeaderDone
    PROVE  CountInv' /\ (Latching => Latching')
<1> USE DEF CountInv
<1>1. TypeOK'
  <2>1. hdr' = [hdr EXCEPT !.flags = hdr.flags \cup {"nROM_CE"}] /\ arg' = hdr'
    BY DEF HeaderDone, vue_write_address_full
  <2>2. hdr' \in Addr
    BY <2>1 DEF TypeOK, Addr, VUE_FLAG_MASK, Chips
  <2>3. 0 \in 0 .. IMod - 1
    BY BufAssumption
  <2> QED
    BY <2>1, <2>2, <2>3 DEF HeaderDone, TypeOK, vue_write_address_full
<1>2. Control'
  BY DEF Control, HeaderDone, vue_write_address_full, Ops, Strobes, Lanes
<1>3. Counting'
  BY DEF Control, Counting, HeaderDone, vue_write_address_full, Ops
<1>4. ASSUME Latching PROVE Latching'
  BY <1>4
     DEF Control, Latching, HeaderDone, vue_write_address_full, Latched, Upper, Ops
<1> QED
  BY <1>1, <1>2, <1>3, <1>4

\* Preserved when a transfer is opened.
LEMMA SelectStep ==
    ASSUME CountInv, NEW t \in DOMAIN target_select_map, NEW hi \in 0 .. HiSize - 1,
           NEW lo \in 0 .. LoSize - 1, NEW x \in Transfers, Select(t, hi, lo, x)
    PROVE  CountInv' /\ (Latching => Latching')
<1> USE DEF CountInv
<1>a. [flags |-> target_select_map[t] \ {"nSTATUS"}, hi |-> hi, lo |-> lo] \in Addr
  BY TargetTyped DEF Addr
<1>b. x[1] \in Ops /\ x[2] \in Modes
  BY HostAssumption
<1>1. TypeOK'
  BY <1>a, <1>b DEF Select, TypeOK, vue_write_address_full
<1>2. Control'
  BY DEF Control, Select, vue_write_address_full, Ops, Strobes, Lanes
<1>3. Counting'
  BY DEF Control, Counting, Select, vue_write_address_full, Ops
<1>4. ASSUME Latching PROVE Latching'
  BY <1>4
     DEF Control, Latching, Select, vue_write_address_full, Latched, Upper, Ops
<1> QED
  BY <1>1, <1>2, <1>3, <1>4

\* Preserved when a chunk is read.
LEMMA ReadChunkStep ==
    ASSUME CountInv, NEW n \in 1 .. BufSize, ReadChunk(n)
    PROVE  CountInv' /\ (Latching => Latching')
<1> USE DEF CountInv
<1>1. TypeOK'
  BY BufAssumption
     DEF TypeOK, ReadChunk, Addr
<1>2. Control'
  BY DEF Control, ReadChunk, Ops, Strobes, Lanes
<1>3. Counting'
  BY BufAssumption
     DEF Control, Counting, ReadChunk, Ops
<1>4. ASSUME Latching PROVE Latching'
  BY <1>4
     DEF Control, Latching, ReadChunk, Latched, Upper, Ops
<1> QED
  BY <1>1, <1>2, <1>3, <1>4

\* Preserved when a chunk is written.
LEMMA WriteChunkStep ==
    ASSUME CountInv, NEW n \in 1 .. BufSize, NEW data \in [1 .. n -> Byte], WriteChunk(n, data)
    PROVE  CountInv' /\ (Latching => Latching')
<1> USE DEF CountInv
<1>1. TypeOK'
  BY BufAssumption
     DEF TypeOK, WriteChunk, Addr
<1>2. Control'
  BY DEF Control, WriteChunk, Ops, Strobes, Lanes
<1>3. Counting'
  BY BufAssumption
     DEF Control, Counting, WriteChunk, Ops
<1>4. ASSUME Latching PROVE Latching'
  BY <1>4
     DEF Control, Latching, WriteChunk, Latched, Upper, Ops
<1> QED
  BY <1>1, <1>2, <1>3, <1>4

\* Preserved when a transfer is closed.
LEMMA DeselectStep ==
    ASSUME CountInv, Deselect
    PROVE  CountInv' /\ (Latching => Latching')
<1> USE DEF CountInv
<1>1. TypeOK'
  BY DEF TypeOK, Deselect, vue_write_address_full, Addr
<1>2. Control'
  BY DEF Control, Deselect, vue_write_address_full, Ops, Strobes, Lanes
<1>3. Counting'
  BY DEF Control, Counting, Deselect, vue_write_address_full, Ops
<1>4. ASSUME Latching PROVE Latching'
  BY <1>4
     DEF Control, Latching, Deselect, vue_write_address_full, Latched, Upper, Ops
<1> QED
  BY <1>1, <1>2, <1>3, <1>4

\* Preserved when the bus is reset.
LEMMA ResetBusStep ==
    ASSUME CountInv, ResetBus
    PROVE  CountInv' /\ (Latching => Latching')
<1> USE DEF CountInv
<1>1. TypeOK'
  <2>1. DefaultAddress \in Addr
    BY SizeAssumption DEF DefaultAddress, Addr
  <2> QED
    BY <2>1 DEF ResetBus, TypeOK, vue_write_address_full
<1>2. Control'
  BY DEF Control, ResetBus, vue_write_address_full, Ops, Strobes, Lanes
<1>3. Counting'
  BY DEF Control, Counting, ResetBus, vue_write_address_full, Ops
<1>4. ASSUME Latching PROVE Latching'
  BY <1>4
     DEF Control, Latching, ResetBus, vue_write_address_full, Latched, Upper, Ops
<1> QED
  BY <1>1, <1>2, <1>3, <1>4

\* Preserved when the header is asked for.
LEMMA ReadHeaderStep ==
    ASSUME CountInv, ReadHeader
    PROVE  CountInv' /\ (Latching /\ HeaderWhileBusy = FALSE => Latching')
<1> USE DEF CountInv
<1>1. TypeOK'
  <2>1. hdr' \in Addr
    BY HeaderAssumption DEF ReadHeader, TypeOK, Addr
  <2>2. 0 \in 0 .. IMod - 1
    BY BufAssumption
  <2> QED
    BY <2>1, <2>2 DEF ReadHeader, TypeOK
<1>2. Control'
  BY DEF Control, ReadHeader, Ops, Strobes, Lanes
<1>3. Counting'
  BY HeaderAssumption
     DEF Control, Counting, ReadHeader, Ops
<1>4. ASSUME Latching, HeaderWhileBusy = FALSE PROVE Latching'
  BY <1>4
     DEF Control, Latching, ReadHeader, Latched, Upper, Ops
<1> QED
  BY <1>1, <1>2, <1>3, <1>4


-----------------------------------------------------------------------------
(* The theorems.                                                           *)

\* Both invariants hold when main() enters its loop.
LEMMA InvInit ==
    ASSUME Init
    PROVE  CountInv /\ Latching
<1>1. TypeOK
  <2>1. DefaultAddress \in Addr
    BY SizeAssumption DEF DefaultAddress, Addr
  <2>2. 0 \in 0 .. IMod - 1 /\ 0 \in 0 .. BufSize
    BY BufAssumption
  <2> QED
    BY <2>1, <2>2, ByteAssumption DEF Init, TypeOK, Ops, Modes
<1>2. Control /\ Counting /\ Latching
  BY ByteAssumption DEF Init, Control, Counting, Latching, Ops
<1> QED
  BY <1>1, <1>2 DEF CountInv

\* They are kept by every step of the specification.
LEMMA InvNext ==
    ASSUME CountInv, [Next]_vars
    PROVE  CountInv' /\ (Latching /\ HeaderWhileBusy = FALSE => Latching')
<1>1. CASE Next
  <2>1. CASE LoadLow
    BY <2>1, LoadLowStep
  <2>2. CASE LoadHigh
    BY <2>2, LoadHighStep
  <2>3. CASE Release
    BY <2>3, ReleaseStep
  <2>4. CASE Loop
    BY <2>4, LoopStep
  <2>5. CASE OutputEnable
    BY <2>5, OutputEnableStep
  <2>6. CASE Sample
    BY <2>6, SampleStep
  <2>7. CASE ReadDone
    BY <2>7, ReadDoneStep
  <2>8. CASE PutData
    BY <2>8, PutDataStep
  <2>9. CASE StrobeLow
    BY <2>9, StrobeLowStep
  <2>10. CASE StrobeHigh
    BY <2>10, StrobeHighStep
  <2>11. CASE WriteDone
    BY <2>11, WriteDoneStep
  <2>12. CASE HeaderLoop
    BY <2>12, HeaderLoopStep
  <2>13. CASE HeaderSample
    BY <2>13, HeaderSampleStep
  <2>14. CASE HeaderDone
    BY <2>14, HeaderDoneStep
  <2>15. CASE Deselect
    BY <2>15, DeselectStep
  <2>16. CASE ResetBus
    BY <2>16, ResetBusStep
  <2>17. CASE ReadHeader
    BY <2>17, ReadHeaderStep
  <2>18. CASE \E t \in DOMAIN target_select_map, hi \in 0 .. HiSize - 1,
                  lo \in 0 .. LoSize - 1, x \in Transfers : Select(t, hi, lo, x)
    BY <2>18, SelectStep
  <2>19. CASE \E n \in 1 .. BufSize : ReadChunk(n)
    BY <2>19, ReadChunkStep
  <2>20. CASE \E n \in 1 .. BufSize : \E data \in [1 .. n -> Byte] : WriteChunk(n, data)
    BY <2>20, WriteChunkStep
  <2> QED
    BY <1>1, <2>1, <2>2, <2>3, <2>4, <2>5, <2>6, <2>7, <2>8, <2>9, <2>10, <2>11, <2>12, <2>13,
       <2>14, <2>15, <2>16, <2>17, <2>18, <2>19, <2>20 DEF Next, Step, Call
<1>2. CASE UNCHANGED vars
  BY <1>2 DEF vars, CountInv, TypeOK, Control, Counting, Latching, Latched
<1> QED
  BY <1>1, <1>2

\* CountInv holds whatever the callers do.
LEMMA CountInvariant == Spec => []CountInv
<1>1. Init => CountInv
  BY InvInit
<1>2. CountInv /\ [Next]_vars => CountInv'
  BY InvNext
<1> QED
  BY <1>1, <1>2, PTL DEF Spec

\* The type invariant: in no sequence of calls does a counter of vue.c, an
\* address or the contents of a latch leave its range.
THEOREM TypeCorrect == Spec => []TypeOK
<1>1. CountInv => TypeOK
  BY DEF CountInv
<1> QED
  BY <1>1, CountInvariant, PTL

\* The access functions stay inside bulk_buffer, odd lengths included.
THEOREM BufferNeverOverrun == Spec => []BufferBounds
<1>1. CountInv => BufferBounds
  BY SlotInBuffer DEF CountInv, BufferBounds
<1> QED
  BY <1>1, CountInvariant, PTL

\* The processor never drives a lane while the cartridge may.
THEOREM NeverContends == Spec => []NoContention
<1>1. CountInv => NoContention
  BY DEF CountInv, TypeOK, Control, NoContention, Strobes, StrobesOf, Modes
<1> QED
  BY <1>1, CountInvariant, PTL

\* Every strobe finds its address on the latches, unless REQ_READ_HEADER is
\* served during a transfer.
THEOREM AddressAlwaysLatched ==
    ASSUME HeaderWhileBusy = FALSE
    PROVE  Spec => []AddressLatched
<1>1. Init => BusInv
  BY InvInit DEF BusInv
<1>2. BusInv /\ [Next]_vars => BusInv'
  BY InvNext DEF BusInv
<1>3. BusInv => AddressLatched
  BY DEF BusInv, CountInv, Control, Latching, AddressLatched
<1> QED
  BY <1>1, <1>2, <1>3, PTL DEF Spec

-----------------------------------------------------------------------------
(* Selecting: which chip the latches select.                               *)

\* Selecting is kept by every step.
LEMMA SelectingNext ==
    ASSUME BusInv, Selecting, [Next]_vars, HeaderWhileBusy = FALSE
    PROVE  Selecting'
<1> USE DEF BusInv, CountInv
<1>1. CASE Next
  <2>1. CASE LoadLow
    BY <2>1
       DEF Selecting, Latching, Control, Ops, LoadLow
  <2>2. CASE LoadHigh
    BY <2>2
       DEF Selecting, Latching, Control, Ops, LoadHigh
  <2>3. CASE Release
    BY <2>3
       DEF Selecting, Latching, Latched, Ops, Release, PullUpInputs
  <2>4. CASE Loop
    BY <2>4
       DEF Selecting, Latching, Control, Ops, Loop, vue_write_address, vue_write_address_lo15,
          vue_write_address_full
  <2>5. CASE OutputEnable
    <3>1. address'.flags = address.flags
      BY <2>5, IncTyped DEF TypeOK, OutputEnable
    <3> QED
      BY <2>5, <3>1 DEF Selecting, OutputEnable
  <2>6. CASE Sample
    BY <2>6
       DEF Selecting, Latching, Control, Ops, Sample
  <2>7. CASE ReadDone
    BY <2>7
       DEF Selecting, Latching, Control, Ops, ReadDone
  <2>8. CASE PutData
    BY <2>8
       DEF Selecting, Latching, Control, Ops, PutData
  <2>9. CASE StrobeLow
    <3>1. address'.flags = address.flags
      BY <2>9, IncTyped DEF TypeOK, StrobeLow
    <3> QED
      BY <2>9, <3>1 DEF Selecting, StrobeLow
  <2>10. CASE StrobeHigh
    BY <2>10
       DEF Selecting, Latching, Control, Ops, StrobeHigh
  <2>11. CASE WriteDone
    BY <2>11
       DEF Selecting, Latching, Control, Ops, WriteDone, PullUpInputs
  <2>12. CASE HeaderLoop
    BY <2>12
       DEF Selecting, Latching, Control, Ops, HeaderLoop, vue_write_address_full
  <2>13. CASE HeaderSample
    BY <2>13
       DEF Selecting, Latching, Control, Ops, HeaderSample
  <2>14. CASE HeaderDone
    <3>1. hdr'.flags = VUE_FLAG_MASK /\ fn' = "deselect"
      BY <2>14 DEF Selecting, TypeOK, Addr, HeaderDone, VUE_FLAG_MASK, Chips
    <3> QED
      BY <2>14, <3>1 DEF Selecting, Latching, HeaderDone, Ops, vue_write_address_full
  <2>15. CASE Deselect
    BY <2>15
       DEF Selecting, Latching, Control, Ops, Deselect, vue_write_address_full
  <2>16. CASE ResetBus
    BY <2>16
       DEF Selecting, Latching, Control, Ops, ResetBus, vue_write_address_full
  <2>17. CASE ReadHeader
    BY <2>17
       DEF Selecting, Latching, Control, Ops, ReadHeader
  <2>18. CASE \E t \in DOMAIN target_select_map, hi \in 0 .. HiSize - 1,
                  lo \in 0 .. LoSize - 1, x \in Transfers : Select(t, hi, lo, x)
    <3>1. PICK t \in DOMAIN target_select_map, hi \in 0 .. HiSize - 1,
               lo \in 0 .. LoSize - 1, x \in Transfers : Select(t, hi, lo, x)
      BY <2>18
    <3>2. address'.flags = target_select_map[t] \ {"nSTATUS"} /\ fn' = "select"
          /\ pc' = "low" /\ hdr' = hdr /\ fn # "header"
      BY <3>1 DEF Select, vue_write_address_full, Control
    <3>3. address'.flags \in TargetFlags
      BY <3>2 DEF TargetFlags
    <3> QED
      BY <3>2, <3>3 DEF Selecting, Ops
  <2>19. CASE \E n \in 1 .. BufSize : ReadChunk(n)
    BY <2>19
       DEF Selecting, Latching, Control, Ops, ReadChunk
  <2>20. CASE \E n \in 1 .. BufSize : \E data \in [1 .. n -> Byte] : WriteChunk(n, data)
    BY <2>20
       DEF Selecting, Latching, Control, Ops, WriteChunk
  <2> QED
    BY <1>1, <2>1, <2>2, <2>3, <2>4, <2>5, <2>6, <2>7, <2>8, <2>9, <2>10, <2>11, <2>12, <2>13,
       <2>14, <2>15, <2>16, <2>17, <2>18, <2>19, <2>20 DEF Next, Step, Call
<1>2. CASE UNCHANGED vars
  BY <1>2 DEF vars, Selecting, TargetFlags
<1> QED
  BY <1>1, <1>2


-----------------------------------------------------------------------------
(* Driving: which lanes the processor drives.                              *)

\* Driving is kept by every step.
LEMMA DrivingNext ==
    ASSUME DriveInv, [Next]_vars, <<"write", "8BIT_HI">> \notin Transfers
    PROVE  Driving'
<1> USE DEF DriveInv, CountInv
<1>1. CASE Next
  <2>1. CASE LoadLow
    BY <2>1
       DEF Driving, Released, Control, Ops, Strobes, Slot, LoadLow
  <2>2. CASE LoadHigh
    BY <2>2
       DEF Driving, Released, Control, Ops, Strobes, Slot, LoadHigh
  <2>3. CASE Release
    BY <2>3
       DEF Driving, Released, Control, Ops, Strobes, Slot, Release, PullUpInputs
  <2>4. CASE Loop
    BY <2>4
       DEF Driving, Released, Control, Ops, Strobes, Slot, Loop, vue_write_address,
          vue_write_address_lo15, vue_write_address_full
  <2>5. CASE OutputEnable
    BY <2>5
       DEF Driving, Released, Control, Ops, Strobes, Slot, OutputEnable
  <2>6. CASE Sample
    BY <2>6
       DEF Driving, Released, Control, Ops, Strobes, Slot, Sample
  <2>7. CASE ReadDone
    BY <2>7
       DEF Driving, Released, Control, Ops, Strobes, Slot, ReadDone
  <2>8. CASE PutData
    <3>1. mode # "8BIT_HI" /\ fn = "write" /\ pc' = "strobe"
      BY <2>8 DEF Driving, Control, Ops, PutData
    <3>2. DrivenBy(mode) = LanesOf(mode) /\ LanesOf(mode) \subseteq Lanes
      BY <3>1 DEF DrivenBy, TypeOK, LanesOf, Modes, Lanes
    <3>3. \A l \in LanesOf(mode) : dir'[l] = "out" /\ out'[l] = buffer[Slot(mode, l)]
      BY <2>8, <3>2 DEF PutData
    <3>4. \A l \in Lanes \ LanesOf(mode) : dir'[l] = "in" /\ out'[l] = PullUp
      BY <2>8, <3>2 DEF PutData, Driving, Released
    <3>5. UNCHANGED <<ctrl, buffer, op, mode, i, fn>> /\ pc = "data"
      BY <2>8 DEF PutData
    <3> QED
      BY <3>1, <3>3, <3>4, <3>5 DEF Driving, Released, Slot
  <2>9. CASE StrobeLow
    BY <2>9
       DEF Driving, Released, Control, Ops, Strobes, Slot, StrobeLow
  <2>10. CASE StrobeHigh
    <3>1. "PL" \notin ctrl'
      BY <2>10 DEF StrobeHigh, Driving, TypeOK, StrobesOf, Modes
    <3>2. UNCHANGED <<dir, out, op, mode, fn>> /\ pc = "rise" /\ pc' = "loop"
      BY <2>10 DEF StrobeHigh
    <3> QED
      BY <3>1, <3>2 DEF Driving, Released
  <2>11. CASE WriteDone
    BY <2>11
       DEF Driving, Released, Control, Ops, Strobes, Slot, WriteDone, PullUpInputs
  <2>12. CASE HeaderLoop
    BY <2>12
       DEF Driving, Released, Control, Ops, Strobes, Slot, HeaderLoop, vue_write_address_full
  <2>13. CASE HeaderSample
    BY <2>13
       DEF Driving, Released, Control, Ops, Strobes, Slot, HeaderSample
  <2>14. CASE HeaderDone
    BY <2>14
       DEF Driving, Released, Control, Ops, Strobes, Slot, HeaderDone, vue_write_address_full
  <2>15. CASE Deselect
    BY <2>15
       DEF Driving, Released, Control, Ops, Strobes, Slot, Deselect, vue_write_address_full
  <2>16. CASE ResetBus
    BY <2>16
       DEF Driving, Released, Control, Ops, Strobes, Slot, ResetBus, vue_write_address_full
  <2>17. CASE ReadHeader
    BY <2>17
       DEF Driving, Released, Control, Ops, Strobes, Slot, ReadHeader
  <2>18. CASE \E t \in DOMAIN target_select_map, hi \in 0 .. HiSize - 1,
                  lo \in 0 .. LoSize - 1, x \in Transfers : Select(t, hi, lo, x)
    <3>1. PICK t \in DOMAIN target_select_map, hi \in 0 .. HiSize - 1,
               lo \in 0 .. LoSize - 1, x \in Transfers : Select(t, hi, lo, x)
      BY <2>18
    <3>2. op' = x[1] /\ mode' = x[2] /\ fn' = "select" /\ pc = "idle" /\ pc' = "low"
          /\ ctrl' = ctrl
      BY <3>1 DEF Select, vue_write_address_full
    <3>3. <<op', mode'>> \in Transfers
      BY <3>2, HostAssumption
    <3> QED
      BY <3>2, <3>3 DEF Driving, Ops
  <2>19. CASE \E n \in 1 .. BufSize : ReadChunk(n)
    BY <2>19
       DEF Driving, Released, Control, Ops, Strobes, Slot, ReadChunk
  <2>20. CASE \E n \in 1 .. BufSize : \E data \in [1 .. n -> Byte] : WriteChunk(n, data)
    BY <2>20
       DEF Driving, Released, Control, Ops, Strobes, Slot, WriteChunk
  <2> QED
    BY <1>1, <2>1, <2>2, <2>3, <2>4, <2>5, <2>6, <2>7, <2>8, <2>9, <2>10, <2>11, <2>12, <2>13,
       <2>14, <2>15, <2>16, <2>17, <2>18, <2>19, <2>20 DEF Next, Step, Call
<1>2. CASE UNCHANGED vars
  BY <1>2 DEF vars, Driving, Released, Slot
<1> QED
  BY <1>1, <1>2

-----------------------------------------------------------------------------
(* What follows from them.                                                 *)

\* SelectInv holds as long as no header is read during a transfer.
LEMMA SelectInvariant ==
    ASSUME HeaderWhileBusy = FALSE
    PROVE  Spec => []SelectInv
<1>1. Init => SelectInv
  <2>1. Init => Selecting
    BY DEF Init, Selecting, DefaultAddress, Ops
  <2> QED
    BY <2>1, InvInit DEF SelectInv, BusInv
<1>2. SelectInv /\ [Next]_vars => SelectInv'
  BY InvNext, SelectingNext DEF SelectInv, BusInv
<1> QED
  BY <1>1, <1>2, PTL DEF Spec

\* In every access of a transfer one target is selected and the lamp is on;
\* the header is read from the ROM; unless REQ_READ_HEADER is served during a
\* transfer.
THEOREM TargetSelected ==
    ASSUME HeaderWhileBusy = FALSE
    PROVE  Spec => []OneChipSelected
<1>1. SelectInv => OneChipSelected
  <2> SUFFICES ASSUME SelectInv, ~(Strobes \subseteq ctrl)
               PROVE  IF fn = "header"
                      THEN hiLatch.flags = VUE_FLAG_MASK \ {"nROM_CE"}
                      ELSE hiLatch.flags \in TargetFlags
    BY DEF OneChipSelected
  <2> USE DEF SelectInv, BusInv, CountInv
  <2>1. pc \in {"sample", "rise"} /\ (fn = "header" \/ fn \in Ops)
    BY DEF Control, Ops
  <2>2. CASE fn = "header"
    <3>1. hiLatch.flags = arg.flags
      BY <2>1 DEF Latching, Latched
    <3> QED
      BY <2>1, <2>2, <3>1 DEF Selecting
  <2>3. CASE fn \in Ops
    BY <2>3 DEF Selecting, Latching, Ops
  <2> QED
    BY <2>1, <2>2, <2>3
<1> QED
  BY <1>1, SelectInvariant, PTL

\* No address an access function writes changes the chip selects or the lamp.
THEOREM ChipHeld ==
    ASSUME HeaderWhileBusy = FALSE
    PROVE  Spec => ChipHeldDuringChunk
<1>1. SelectInv /\ [Next]_vars =>
        [(fn \in Ops /\ pc # "idle") => (hiLatch'.flags = hiLatch.flags)]_vars
  <2> SUFFICES ASSUME SelectInv, Next, fn \in Ops, pc # "idle"
               PROVE  hiLatch'.flags = hiLatch.flags
    OBVIOUS
  <2> USE DEF SelectInv, BusInv, CountInv
  <2>1. CASE LoadHigh
    BY <2>1 DEF LoadHigh, Selecting, Latching
  <2>2. CASE ~LoadHigh
    <3>1. hiLatch' = hiLatch
      BY <2>2 DEF Next, Step, Call, LoadLow, Release, Loop, OutputEnable, Sample,
                  ReadDone, PutData, StrobeLow, StrobeHigh, WriteDone, HeaderLoop,
                  HeaderSample, HeaderDone, Select, ReadChunk, WriteChunk,
                  Deselect, ResetBus, ReadHeader
    <3> QED
      BY <3>1
  <2> QED
    BY <2>1, <2>2
<1> QED
  BY <1>1, SelectInvariant, PTL DEF Spec, ChipHeldDuringChunk

\* DriveInv holds as long as no 8 bit write goes to the upper lane.
LEMMA DriveInvariant ==
    ASSUME <<"write", "8BIT_HI">> \notin Transfers
    PROVE  Spec => []DriveInv
<1>1. Init => DriveInv
  <2>1. Init => Driving
    BY DEF Init, Driving, Strobes, Ops
  <2> QED
    BY <2>1, InvInit DEF DriveInv
<1>2. DriveInv /\ [Next]_vars => DriveInv'
  BY InvNext, DrivingNext DEF DriveInv
<1> QED
  BY <1>1, <1>2, PTL DEF Spec

\* Every write drives the lanes it strobes with the bytes of the buffer,
\* unless vue_write_data_8bit_hi is used.
THEOREM WritesDriven ==
    ASSUME <<"write", "8BIT_HI">> \notin Transfers
    PROVE  Spec => []WriteDrivesLanes
<1>1. DriveInv => WriteDrivesLanes
  BY DEF DriveInv, Driving, WriteDrivesLanes
<1> QED
  BY <1>1, DriveInvariant, PTL

\* Every function leaves the bus released, unless vue_write_data_8bit_hi is
\* used.
THEOREM BusAlwaysReleased ==
    ASSUME <<"write", "8BIT_HI">> \notin Transfers
    PROVE  Spec => []BusReleased
<1>1. DriveInv => BusReleased
  <2> SUFFICES ASSUME DriveInv, pc = "idle"
               PROVE  ctrl = Strobes /\ \A l \in Lanes : Released(l)
    BY DEF BusReleased, Released
  <2> USE DEF DriveInv, CountInv
  <2>1. ctrl \subseteq Strobes \cup {"PL"} /\ Strobes \subseteq ctrl /\ "PL" \notin ctrl
    BY DEF TypeOK, Control, Driving
  <2>2. ctrl = Strobes
    BY <2>1
  <2> QED
    BY <2>2 DEF Driving
<1> QED
  BY <1>1, DriveInvariant, PTL
=============================================================================
