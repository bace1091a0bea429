--------------------------- MODULE VUEBusRefinement ---------------------------
(***************************************************************************)
(* VUEBus implements CartAccess, for every size of the address range, the  *)
(* buffer and the header: the pin sequences of vue.c are accesses to       *)
(* consecutive words of one chip, unless the header is read during a       *)
(* transfer or the upper lane is written on its own.                       *)
(***************************************************************************)
EXTENDS VUEBusProofs

-----------------------------------------------------------------------------
(* The address as one number.                                              *)

\* More rows of the address range hold more words.
LEMMA TimesOrdered ==
    ASSUME NEW a \in Nat, NEW b \in Nat, NEW c \in Nat, a <= b
    PROVE  a * c <= b * c
<1>1. PICK d \in Nat : b = a + d
  <2>1. b - a \in Nat /\ b = a + (b - a)
    OBVIOUS
  <2> QED
    BY <2>1
<1>2. b * c = a * c + d * c /\ d * c \in Nat /\ a * c \in Nat
  BY <1>1
<1> QED
  BY <1>2

\* A word address is in the 23 bit range.
LEMMA WordTyped ==
    ASSUME NEW a \in Addr
    PROVE  /\ Word(a) \in Nat
           /\ Word(a) < LoSize * HiSize
           /\ LoSize * HiSize \in Nat
<1>1. a.hi \in Nat /\ a.lo \in Nat /\ a.lo < LoSize /\ a.hi + 1 <= HiSize
      /\ LoSize \in Nat /\ HiSize \in Nat
  BY SizeAssumption DEF Addr
<1>2. (a.hi + 1) * LoSize <= HiSize * LoSize
  BY <1>1, TimesOrdered
<1>3. /\ (a.hi + 1) * LoSize = a.hi * LoSize + LoSize
      /\ HiSize * LoSize = LoSize * HiSize
      /\ a.hi * LoSize \in Nat /\ LoSize * HiSize \in Nat
  BY <1>1
<1> QED
  BY <1>1, <1>2, <1>3 DEF Word

\* vue_inc_address goes on to the next word, and from the last one to 0.
LEMMA WordInc ==
    ASSUME NEW a \in Addr
    PROVE  Word(vue_inc_address(a)) = (Word(a) + 1) % (LoSize * HiSize)
<1> DEFINE b == vue_inc_address(a)
<1>1. a.hi \in Nat /\ a.lo \in Nat /\ a.lo < LoSize /\ a.hi + 1 <= HiSize
      /\ LoSize \in Nat /\ LoSize > 0 /\ HiSize \in Nat /\ HiSize > 0
  BY SizeAssumption DEF Addr
<1>2. b \in Addr
  BY IncTyped
<1>3. CASE a.lo + 1 < LoSize
  <2>1. b.hi = a.hi /\ b.lo = a.lo + 1
    BY <1>3 DEF vue_inc_address, Addr
  <2>2. Word(b) = Word(a) + 1
    BY <1>1, <2>1 DEF Word
  <2> QED
    BY <1>2, <2>2, WordTyped, SmallMod
<1>4. CASE ~(a.lo + 1 < LoSize) /\ a.hi + 1 < HiSize
  <2>1. b.hi = a.hi + 1 /\ b.lo = 0 /\ a.lo + 1 = LoSize
    BY <1>1, <1>4 DEF vue_inc_address, Addr
  <2>2. (a.hi + 1) * LoSize = a.hi * LoSize + LoSize /\ a.hi * LoSize \in Nat
    BY <1>1
  <2>3. Word(b) = Word(a) + 1
    BY <1>1, <2>1, <2>2 DEF Word
  <2> QED
    BY <1>2, <2>3, WordTyped, SmallMod
<1>5. CASE ~(a.lo + 1 < LoSize) /\ ~(a.hi + 1 < HiSize)
  <2>1. b.hi = 0 /\ b.lo = 0 /\ a.lo + 1 = LoSize /\ a.hi + 1 = HiSize
    BY <1>1, <1>5 DEF vue_inc_address, Addr
  <2>2. /\ (a.hi + 1) * LoSize = a.hi * LoSize + LoSize /\ a.hi * LoSize \in Nat
        /\ HiSize * LoSize = LoSize * HiSize
    BY <1>1
  <2>3. Word(a) + 1 = LoSize * HiSize
    BY <1>1, <2>1, <2>2 DEF Word
  <2>4. Word(b) = 0
    BY <1>1, <2>1 DEF Word
  <2>5. LoSize * HiSize \in Nat \ {0}
    BY <1>1, <1>2, WordTyped
  <2>6. (LoSize * HiSize) % (LoSize * HiSize) = 0
    BY <2>5
  <2> QED
    BY <2>3, <2>4, <2>6
<1> QED
  BY <1>3, <1>4, <1>5

-----------------------------------------------------------------------------
(* The chip, and the lanes of an access.                                   *)

\* A target's flags have one chip low, and the lamp.
LEMMA OneChip ==
    ASSUME NEW f \in TargetFlags
    PROVE  /\ ChipOf(f) \in {"nROM_CE", "nRAM_CS", "nES"}
           /\ VUE_FLAG_MASK \ f = {ChipOf(f), "nSTATUS"}
<1>1. PICK c \in Chips : f = (VUE_FLAG_MASK \ {c}) \ {"nSTATUS"}
  BY DEF TargetFlags, target_select_map, Chips
<1>2. c \notin f /\ \A d \in Chips : d \notin f => d = c
  BY <1>1 DEF VUE_FLAG_MASK, Chips
<1>3. ChipOf(f) = c
  BY <1>2 DEF ChipOf
<1> QED
  BY <1>1, <1>3 DEF VUE_FLAG_MASK, Chips

\* The lanes, bytes and steps of the abstract access are those of the code.
LEMMA SameLanes ==
    ASSUME TypeOK
    PROVE  /\ DOMAIN Abstract!Lane(mode) = LanesOf(mode)
           /\ \A l \in LanesOf(mode) : Slot(mode, l) = i + Abstract!Lane(mode)[l]
           /\ Abstract!Size(mode) = StepOf(mode)
           /\ \A l, m \in LanesOf(mode) : Slot(mode, l) = Slot(mode, m) => l = m
           /\ LanesOf(mode) \subseteq Lanes
<1>1. i \in Nat
  BY DEF TypeOK
<1>2. CASE mode = "16BIT"
  BY <1>1, <1>2 DEF Abstract!Lane, Abstract!Size, LanesOf, Slot, StepOf, Lanes
<1>3. CASE mode = "8BIT_LO"
  BY <1>1, <1>3 DEF Abstract!Lane, Abstract!Size, LanesOf, Slot, StepOf, Lanes
<1>4. CASE mode = "8BIT_HI"
  BY <1>1, <1>4 DEF Abstract!Lane, Abstract!Size, LanesOf, Slot, StepOf, Lanes
<1> QED
  BY <1>2, <1>3, <1>4 DEF TypeOK, Modes

-----------------------------------------------------------------------------
(* Resting: nothing is left of a chunk when it is over.                    *)

\* Resting is kept by every step.
LEMMA RestingNext ==
    ASSUME RefineInv, [Next]_vars
    PROVE  Resting'
<1> USE DEF RefineInv, SelectInv, BusInv, CountInv
<1>1. CASE Next
  <2>1. CASE LoadLow
    BY <2>1 DEF Resting, Control, Ops, LoadLow
  <2>2. CASE LoadHigh
    BY <2>2 DEF Resting, Control, Ops, LoadHigh
  <2>3. CASE Release
    BY <2>3 DEF Resting, Control, Ops, Release, PullUpInputs
  <2>4. CASE Loop
    BY <2>4 DEF Resting, Control, Ops, Loop, vue_write_address, vue_write_address_lo15,
       vue_write_address_full
  <2>5. CASE OutputEnable
    BY <2>5 DEF Resting, Control, Ops, OutputEnable
  <2>6. CASE Sample
    BY <2>6 DEF Resting, Control, Ops, Sample
  <2>7. CASE ReadDone
    BY <2>7 DEF Resting, Control, Ops, ReadDone
  <2>8. CASE PutData
    BY <2>8 DEF Resting, Control, Ops, PutData
  <2>9. CASE StrobeLow
    BY <2>9 DEF Resting, Control, Ops, StrobeLow
  <2>10. CASE StrobeHigh
    BY <2>10 DEF Resting, Control, Ops, StrobeHigh
  <2>11. CASE WriteDone
    BY <2>11 DEF Resting, Control, Ops, WriteDone, PullUpInputs
  <2>12. CASE HeaderLoop
    <3>1. hdr' = [hdr EXCEPT !.lo = hdr.lo + 1] /\ arg' = hdr /\ fn = "header"
      BY <2>12 DEF HeaderLoop, vue_write_address_full
    <3>2. hdr'.hi = hdr.hi /\ arg'.lo + 1 = hdr'.lo
      BY <3>1 DEF TypeOK, Addr
    <3> QED
      BY <2>12, <3>1, <3>2 DEF Resting, Control, Ops, HeaderLoop, vue_write_address_full
  <2>13. CASE HeaderSample
    BY <2>13 DEF Resting, Control, Ops, HeaderSample
  <2>14. CASE HeaderDone
    BY <2>14 DEF Resting, Control, Ops, HeaderDone, vue_write_address_full
  <2>15. CASE Deselect
    BY <2>15 DEF Resting, Control, Ops, Deselect, vue_write_address_full
  <2>16. CASE ResetBus
    BY <2>16 DEF Resting, Control, Ops, ResetBus, vue_write_address_full
  <2>17. CASE ReadHeader
    BY <2>17 DEF Resting, Control, Ops, ReadHeader
  <2>18. CASE \E t \in DOMAIN target_select_map, hi \in 0 .. HiSize - 1,
                  lo \in 0 .. LoSize - 1, x \in Transfers : Select(t, hi, lo, x)
    BY <2>18 DEF Resting, Control, Ops, Select, vue_write_address_full
  <2>19. CASE \E n \in 1 .. BufSize : ReadChunk(n)
    BY <2>19, BufAssumption DEF Resting, Control, Ops, ReadChunk
  <2>20. CASE \E n \in 1 .. BufSize : \E data \in [1 .. n -> Byte] : WriteChunk(n, data)
    BY <2>20, BufAssumption DEF Resting, Control, Ops, WriteChunk
  <2> QED
    BY <1>1, <2>1, <2>2, <2>3, <2>4, <2>5, <2>6, <2>7, <2>8, <2>9, <2>10, <2>11, <2>12, <2>13,
       <2>14, <2>15, <2>16, <2>17, <2>18, <2>19, <2>20 DEF Next, Step, Call
<1>2. CASE UNCHANGED vars
  BY <1>2 DEF vars, Resting
<1> QED
  BY <1>1, <1>2

\* RefineInv holds where the header is not read during a transfer and the
\* upper lane is not written on its own.
LEMMA RefineInit ==
    ASSUME Init
    PROVE  RefineInv
<1>1. CountInv /\ Latching
  BY InvInit
<1>2. Selecting
  BY DEF Init, Selecting, DefaultAddress, Ops
<1>3. Driving
  BY DEF Init, Driving, Strobes, Ops
<1>4. Resting
  BY DEF Init, Resting, Ops
<1> QED
  BY <1>1, <1>2, <1>3, <1>4 DEF RefineInv, SelectInv, BusInv

\* RefineInv is kept by every step.
LEMMA RefineNext ==
    ASSUME RefineInv, [Next]_vars, HeaderWhileBusy = FALSE,
           <<"write", "8BIT_HI">> \notin Transfers
    PROVE  RefineInv'
  BY InvNext, SelectingNext, DrivingNext, RestingNext
     DEF RefineInv, SelectInv, BusInv, DriveInv

-----------------------------------------------------------------------------
(* The mapping.                                                            *)

\* A step that leaves the transfer, its position, the buffer and the
\* connector alone is not visible.
LEMMA Invisible ==
    ASSUME UNCHANGED <<busy, op, mode, buffer, length, gec>>,
           busy => address'.flags = address.flags /\ Position' = Position,
           (IF fn' = "header" THEN 0 ELSE i') = (IF fn = "header" THEN 0 ELSE i)
    PROVE  UNCHANGED Abstract!vars
  BY DEF Abstract!vars

\* The default state is the abstract one without a transfer.
LEMMA RefinedInit ==
    ASSUME Init
    PROVE  Abstract!Init
<1>1. Seen(gec) = [kind |-> "none"]
  BY DEF Init, NoCycle, Seen
<1>2. buffer = [k \in 1 .. BufSize |-> PullUp]
  BY DEF Init
<1> QED
  BY <1>1, <1>2 DEF Init, Abstract!Init

\* The end of an iteration, whichever way the bytes go, is one access at the
\* position of the transfer.
LEMMA AccessMade ==
    ASSUME RefineInv, fn \in Ops, pc \in {"sample", "rise"}, pc' = "loop",
           UNCHANGED <<op, mode, busy, length, fn, address>>,
           i' = (i + StepOf(mode)) % IMod,
           NEW data \in [Lanes -> Byte],
           gec' = Cycle(op, mode, data), buffer' = Stored(data),
           op = "write" => \A l \in LanesOf(mode) : data[l] = buffer[Slot(mode, l)]
    PROVE  Abstract!Access
<1> USE DEF RefineInv, SelectInv, BusInv, CountInv
<1> DEFINE made == IF fn = "header" THEN 0 ELSE i
           next == IF busy THEN Position ELSE 0
           x == <<op, mode>>
           lane == Abstract!Lane(x[2])
           d == [l \in LanesOf(mode) |-> data[l]]
<1>1. fn # "header" /\ fn' # "header" /\ busy /\ busy' /\ Latched = arg /\ i < length
  BY DEF Latching, Counting, Ops
<1>2. made = i /\ made' = i' /\ x[1] = op /\ x[2] = mode
  BY <1>1
<1>3. /\ DOMAIN lane = LanesOf(mode)
      /\ \A l \in LanesOf(mode) : Slot(mode, l) = made + lane[l]
      /\ Abstract!Size(x[2]) = StepOf(mode)
      /\ LanesOf(mode) \subseteq Lanes
  BY <1>2, SameLanes
<1>4. d \in [DOMAIN lane -> Byte]
  BY <1>3
<1>5. x[1] = "write" => \A l \in DOMAIN lane : d[l] = buffer[made + lane[l]]
  BY <1>2, <1>3
<1>6. buffer' = [k \in 1 .. BufSize |->
                   IF \E l \in DOMAIN lane : k = made + lane[l]
                   THEN d[CHOOSE l \in DOMAIN lane : k = made + lane[l]]
                   ELSE buffer[k]]
  <2>1. ASSUME NEW k \in 1 .. BufSize, \E l \in LanesOf(mode) : k = Slot(mode, l)
        PROVE  d[CHOOSE l \in DOMAIN lane : k = made + lane[l]]
                 = data[CHOOSE l \in LanesOf(mode) : k = Slot(mode, l)]
    <3>1. PICK m \in LanesOf(mode) : k = Slot(mode, m)
      BY <2>1
    <3>2. (CHOOSE l \in LanesOf(mode) : k = Slot(mode, l)) = m
      BY <3>1, SameLanes
    <3>3. (CHOOSE l \in DOMAIN lane : k = made + lane[l]) = m
      <4>1. \A l \in DOMAIN lane : k = made + lane[l] <=> l = m
        <5>1. \A l \in LanesOf(mode) : k = Slot(mode, l) <=> l = m
          BY <3>1, SameLanes
        <5> HIDE DEF lane, made
        <5> QED
          BY <5>1, <1>3
      <4>2. m \in DOMAIN lane
        BY <1>3
      <4> HIDE DEF lane, made
      <4> QED
        BY <4>1, <4>2
    <3> QED
      BY <3>2, <3>3
  <2>2. ASSUME NEW k \in 1 .. BufSize
        PROVE  (\E l \in DOMAIN lane : k = made + lane[l])
                 <=> \E l \in LanesOf(mode) : k = Slot(mode, l)
    <3> HIDE DEF lane, made
    <3> QED
      BY <1>3
  <2> HIDE DEF lane, d, made
  <2> QED
    BY <2>1, <2>2 DEF Stored
<1>7. /\ address = vue_inc_address(arg) /\ arg \in Addr /\ arg.flags = address.flags
      /\ address.flags \in TargetFlags
  <2>1. address = vue_inc_address(arg) /\ arg \in Addr
    BY DEF Latching, TypeOK
  <2> QED
    BY <1>1, <2>1, IncTyped DEF Selecting
<1>8. next = Word(arg) /\ next' = (next + 1) % (LoSize * HiSize)
  <2>1. Position = Word(arg)
    BY DEF Position
  <2>2. Position' = Word(address)
    BY DEF Position
  <2> QED
    BY <1>1, <1>7, <2>1, <2>2, WordInc
<1>9. Seen(gec)' = [kind |-> x[1],
                    low |-> {IF busy THEN ChipOf(address.flags) ELSE "none", "nSTATUS"},
                    word |-> next, data |-> d]
  <2>1. VUE_FLAG_MASK \ arg.flags = {ChipOf(address.flags), "nSTATUS"}
    BY <1>7, OneChip
  <2>2. gec' = [kind |-> op, at |-> arg, data |-> d]
    BY <1>1 DEF Cycle
  <2> HIDE DEF d, next, x
  <2>3. op # "none"
    BY DEF TypeOK, Ops
  <2>4. gec'.kind = op /\ gec'.at = arg /\ gec'.data = d
    BY <2>2
  <2>5. Seen(gec)' = [kind |-> gec'.kind, low |-> VUE_FLAG_MASK \ gec'.at.flags,
                      word |-> Word(gec'.at), data |-> gec'.data]
    BY <2>3, <2>4 DEF Seen
  <2> QED
    BY <1>1, <1>2, <1>8, <2>1, <2>4, <2>5
<1>10. made' = made + Abstract!Size(x[2])
  BY <1>2, <1>3, StepNoWrap
<1>11. made < length
  BY <1>1, <1>2
<1>12. UNCHANGED <<IF busy THEN ChipOf(address.flags) ELSE "none", x, length>>
  OBVIOUS
<1> HIDE DEF d
<1> QED
  BY <1>4, <1>5, <1>6, <1>8, <1>9, <1>10, <1>11, <1>12 DEF Abstract!Access

\* A read stores what the lanes carried.
LEMMA SampleRefined ==
    ASSUME RefineInv, Sample
    PROVE  Abstract!Access
<1>1. PICK data \in Pins : gec' = Cycle("read", mode, data) /\ buffer' = Stored(data)
  BY DEF Sample
<1>2. data \in [Lanes -> Byte]
  BY PinsTyped DEF Sample, RefineInv, SelectInv, BusInv, CountInv, Control
<1>3. op = "read" /\ fn = "read"
  BY DEF Sample, RefineInv, Driving, Ops
<1> QED
  BY <1>1, <1>2, <1>3, AccessMade DEF Sample, Ops

\* A write carries the bytes of the buffer, and leaves them there.
LEMMA StrobeHighRefined ==
    ASSUME RefineInv, StrobeHigh
    PROVE  Abstract!Access
<1>1. PICK data \in Pins : gec' = Cycle("write", mode, data)
  BY DEF StrobeHigh
<1>2. pc = "rise" /\ fn = "write" /\ op = "write"
  BY DEF StrobeHigh, RefineInv, SelectInv, BusInv, CountInv, Control, Driving, Ops
<1>3. data \in [Lanes -> Byte]
  BY <1>2, PinsTyped DEF RefineInv, SelectInv, BusInv, CountInv, Control
<1>4. \A l \in LanesOf(mode) : data[l] = buffer[Slot(mode, l)]
  <2> SUFFICES ASSUME NEW l \in LanesOf(mode)
               PROVE  data[l] = buffer[Slot(mode, l)]
    OBVIOUS
  <2>1. dir[l] = "out" /\ out[l] = buffer[Slot(mode, l)] /\ l \in Lanes
    BY <1>2, SameLanes DEF RefineInv, SelectInv, BusInv, CountInv, Driving
  <2>2. data[l] \in Level(l)
    BY <2>1 DEF Pins, Lanes
  <2> QED
    BY <2>1, <2>2 DEF Level
<1>5. buffer' = Stored(data)
  <2>1. ASSUME NEW k \in 1 .. BufSize, \E l \in LanesOf(mode) : k = Slot(mode, l)
        PROVE  data[CHOOSE l \in LanesOf(mode) : k = Slot(mode, l)] = buffer[k]
    <3>1. PICK m \in LanesOf(mode) : k = Slot(mode, m)
      BY <2>1
    <3>2. (CHOOSE l \in LanesOf(mode) : k = Slot(mode, l)) = m
      BY <3>1, SameLanes DEF RefineInv, SelectInv, BusInv, CountInv
    <3> QED
      BY <1>4, <3>1, <3>2
  <2>2. buffer = [k \in 1 .. BufSize |-> buffer[k]]
    BY DEF RefineInv, SelectInv, BusInv, CountInv, TypeOK
  <2>3. Stored(data) = [k \in 1 .. BufSize |-> buffer[k]]
    BY <2>1 DEF Stored
  <2> QED
    BY <2>2, <2>3 DEF StrobeHigh
<1> QED
  BY <1>1, <1>2, <1>3, <1>4, <1>5, AccessMade DEF StrobeHigh, Ops

\* The header loop reads the words of the header, from the ROM.
LEMMA HeaderSampleRefined ==
    ASSUME RefineInv, HeaderSample
    PROVE  Abstract!HeaderWord
<1> USE DEF RefineInv, SelectInv, BusInv, CountInv
<1>1. fn = "header" /\ fn' = "header" /\ ~busy /\ ~busy' /\ length = 0 /\ pc = "sample"
  BY DEF HeaderSample, Latching, Resting, Ops
<1>2. PICK data \in Pins : gec' = Cycle("read", "16BIT", data)
  BY DEF HeaderSample
<1>3. data \in [Lanes -> Byte]
  BY <1>1, PinsTyped DEF Control
<1>4. PICK k \in 0 .. HeaderWords : k < HeaderWords /\ hdr.lo = Header.lo + k + 1
  BY <1>1 DEF Counting
<1>5. arg.hi = Header.hi /\ arg.lo = Header.lo + k
  <2>1. arg.hi = Header.hi /\ arg.lo + 1 = hdr.lo
    BY <1>1 DEF Resting
  <2>2. arg.lo \in Nat /\ Header.lo \in Nat /\ hdr.lo \in Nat
    BY HeaderAssumption, SizeAssumption DEF TypeOK, Addr
  <2> QED
    BY <1>4, <2>1, <2>2
<1>6. Word(arg) \in Word(Header) .. Word(Header) + HeaderWords - 1
  <2>1. Header.hi \in Nat /\ Header.lo \in Nat /\ LoSize \in Nat /\ HeaderWords \in Nat
    BY HeaderAssumption, SizeAssumption
  <2>2. Header.hi * LoSize \in Nat
    BY <2>1
  <2>3. Word(arg) = Word(Header) + k /\ Word(Header) \in Nat
    BY <1>5, <2>1, <2>2 DEF Word
  <2> QED
    BY <1>4, <2>1, <2>3
<1>7. Latched = arg /\ VUE_FLAG_MASK \ arg.flags = {"nROM_CE"}
  <2>1. arg.flags = VUE_FLAG_MASK \ {"nROM_CE"}
    BY <1>1 DEF Selecting
  <2> QED
    BY <1>1, <2>1 DEF Latching, VUE_FLAG_MASK, Chips
<1>8. Seen(gec)' = [kind |-> "read", low |-> {"nROM_CE"}, word |-> Word(arg),
                    data |-> [L |-> data["L"], H |-> data["H"]]]
  <2>1. [l \in LanesOf("16BIT") |-> data[l]] = [L |-> data["L"], H |-> data["H"]]
    BY DEF LanesOf, Lanes
  <2>2. gec' = [kind |-> "read", at |-> arg, data |-> [L |-> data["L"], H |-> data["H"]]]
    BY <1>2, <1>7, <2>1 DEF Cycle
  <2> QED
    BY <1>7, <2>2 DEF Seen
<1>9. data["L"] \in Byte /\ data["H"] \in Byte
  BY <1>3 DEF Lanes
<1>10. \E w \in Word(Header) .. Word(Header) + HeaderWords - 1, l, h \in Byte :
          Seen(gec)' = [kind |-> "read", low |-> {"nROM_CE"}, word |-> w,
                        data |-> [L |-> l, H |-> h]]
  BY <1>6, <1>8, <1>9
<1> QED
  BY <1>1, <1>10 DEF Abstract!HeaderWord, HeaderSample

\* Phase 0 opens a transfer at a word of the range, on one chip.
LEMMA SelectRefined ==
    ASSUME RefineInv, NEW t \in DOMAIN target_select_map, NEW hi \in 0 .. HiSize - 1,
           NEW lo \in 0 .. LoSize - 1, NEW x \in Transfers, Select(t, hi, lo, x)
    PROVE  Abstract!Open
<1> USE DEF RefineInv, SelectInv, BusInv, CountInv
<1>1. /\ ~busy /\ busy' /\ fn' = "select" /\ pc = "idle" /\ pc' = "low"
      /\ op' = x[1] /\ mode' = x[2]
      /\ address' = [flags |-> target_select_map[t] \ {"nSTATUS"}, hi |-> hi, lo |-> lo]
      /\ UNCHANGED <<buffer, length, i, gec>>
  BY DEF Select, vue_write_address_full
<1>2. ChipOf(address'.flags) \in {"nROM_CE", "nRAM_CS", "nES"}
  BY <1>1, OneChip DEF TargetFlags
<1>3. Position' \in 0 .. LoSize * HiSize - 1
  <2>1. address' \in Addr
    BY <1>1, TargetTyped DEF Addr
  <2>2. Position' = Word(address')
    BY <1>1 DEF Position, Ops
  <2> QED
    BY <2>1, <2>2, WordTyped
<1>4. <<op', mode'>> \in Transfers
  BY <1>1, HostAssumption
<1>5. fn # "header"
  BY <1>1 DEF Control
<1> QED
  BY <1>1, <1>2, <1>3, <1>4, <1>5 DEF Abstract!Open

\* Every step is a step of CartAccess or is not visible to the callers.
LEMMA RefinedStep ==
    ASSUME RefineInv, [Next]_vars, HeaderWhileBusy = FALSE
    PROVE  [Abstract!Next]_(Abstract!vars)
<1> USE DEF RefineInv, SelectInv, BusInv, CountInv
<1>1. CASE Next
  <2>1. CASE LoadLow
    BY <2>1, Invisible DEF LoadLow, Position
  <2>2. CASE LoadHigh
    BY <2>2, Invisible DEF LoadHigh, Position
  <2>3. CASE Release
    BY <2>3, Invisible DEF Release, Position, Ops
  <2>4. CASE Loop
    BY <2>4, Invisible
       DEF Loop, Position, vue_write_address, vue_write_address_lo15, vue_write_address_full
  <2>5. CASE OutputEnable
    <3>1. address'.flags = address.flags
      BY <2>5, IncTyped DEF TypeOK, OutputEnable
    <3>2. busy => Position' = Position
      BY <2>5 DEF OutputEnable, Position, Latching, Control, Ops
    <3> QED
      BY <2>5, <3>1, <3>2, Invisible DEF OutputEnable
  <2>6. CASE Sample
    BY <2>6, SampleRefined DEF Abstract!Next
  <2>7. CASE ReadDone
    <3>1. Abstract!Finish
      BY <2>7 DEF ReadDone, Abstract!Finish, Position, Resting, Ops, TypeOK
    <3> QED
      BY <3>1 DEF Abstract!Next
  <2>8. CASE PutData
    BY <2>8, Invisible DEF PutData, Position
  <2>9. CASE StrobeLow
    <3>1. address'.flags = address.flags
      BY <2>9, IncTyped DEF TypeOK, StrobeLow
    <3>2. busy => Position' = Position
      BY <2>9 DEF StrobeLow, Position, Latching, Control, Ops
    <3> QED
      BY <2>9, <3>1, <3>2, Invisible DEF StrobeLow
  <2>10. CASE StrobeHigh
    BY <2>10, StrobeHighRefined DEF Abstract!Next
  <2>11. CASE WriteDone
    <3>1. Abstract!Finish
      BY <2>11 DEF WriteDone, Abstract!Finish, Position, Resting, Ops, TypeOK
    <3> QED
      BY <3>1 DEF Abstract!Next
  <2>12. CASE HeaderLoop
    BY <2>12, Invisible DEF HeaderLoop, Position, Ops, vue_write_address_full
  <2>13. CASE HeaderSample
    BY <2>13, HeaderSampleRefined DEF Abstract!Next
  <2>14. CASE HeaderDone
    <3>1. ~busy /\ ~busy'
      BY <2>14 DEF HeaderDone, Latching, Ops
    <3> QED
      BY <2>14, <3>1, Invisible DEF HeaderDone
  <2>15. CASE Deselect
    <3>1. ChipOf(address.flags) # "none"
      BY <2>15, OneChip DEF Deselect, Selecting
    <3>2. length = 0 /\ fn # "header"
      BY <2>15 DEF Deselect, Resting, Control
    <3>3. Abstract!Close
      BY <2>15, <3>1, <3>2 DEF Deselect, Abstract!Close
    <3> QED
      BY <3>3 DEF Abstract!Next
  <2>16. CASE ResetBus
    <3>1. length = 0 /\ fn # "header" /\ fn' # "header" /\ busy' = FALSE
          /\ UNCHANGED <<op, mode, buffer, length, i, gec, address>>
      BY <2>16 DEF ResetBus, Resting, Control
    <3>2. CASE busy
      <4>1. ChipOf(address.flags) # "none"
        BY <3>2, OneChip DEF Selecting
      <4>2. Abstract!Close
        BY <3>1, <3>2, <4>1 DEF Abstract!Close
      <4> QED
        BY <4>2 DEF Abstract!Next
    <3>3. CASE ~busy
      <4>1. busy \in BOOLEAN
        BY DEF TypeOK
      <4>2. busy' = busy
        BY <3>1, <3>3, <4>1
      <4> QED
        BY <3>1, <3>3, <4>2, Invisible
    <3> QED
      BY <3>2, <3>3
  <2>17. CASE ReadHeader
    <3>1. ~busy /\ fn # "header" /\ i = 0
      BY <2>17 DEF ReadHeader, Control, Resting
    <3> QED
      BY <2>17, <3>1, Invisible DEF ReadHeader
  <2>18. CASE \E t \in DOMAIN target_select_map, hi \in 0 .. HiSize - 1,
                  lo \in 0 .. LoSize - 1, x \in Transfers : Select(t, hi, lo, x)
    BY <2>18, SelectRefined DEF Abstract!Next
  <2>19. CASE \E n \in 1 .. BufSize : ReadChunk(n)
    <3>1. PICK n \in 1 .. BufSize : ReadChunk(n)
      BY <2>19
    <3>2. ChipOf(address.flags) # "none"
      BY <3>1, OneChip DEF ReadChunk, Selecting
    <3>3. length = 0 /\ fn # "header" /\ Position' = Position
      BY <3>1 DEF ReadChunk, Resting, Control, Position
    <3>4. Abstract!Chunk(n)
      BY <3>1, <3>2, <3>3 DEF ReadChunk, Abstract!Chunk
    <3> QED
      BY <3>4 DEF Abstract!Next
  <2>20. CASE \E n \in 1 .. BufSize : \E data \in [1 .. n -> Byte] : WriteChunk(n, data)
    <3>1. PICK n \in 1 .. BufSize : \E data \in [1 .. n -> Byte] : WriteChunk(n, data)
      BY <2>20
    <3>2. ChipOf(address.flags) # "none"
      BY <3>1, OneChip DEF WriteChunk, Selecting
    <3>3. length = 0 /\ fn # "header" /\ Position' = Position
      BY <3>1 DEF WriteChunk, Resting, Control, Position
    <3>4. Abstract!Chunk(n)
      BY <3>1, <3>2, <3>3 DEF WriteChunk, Abstract!Chunk
    <3> QED
      BY <3>4 DEF Abstract!Next
  <2> QED
    BY <1>1, <2>1, <2>2, <2>3, <2>4, <2>5, <2>6, <2>7, <2>8, <2>9, <2>10, <2>11, <2>12, <2>13,
       <2>14, <2>15, <2>16, <2>17, <2>18, <2>19, <2>20 DEF Next, Step, Call
<1>2. CASE UNCHANGED vars
  BY <1>2, Invisible DEF vars, Position
<1> QED
  BY <1>1, <1>2

\* vue.c implements CartAccess: the accesses a chunk asks for reach the chip
\* of the transfer, word after word, with the bytes of the buffer.  It does
\* so as long as the header is not read during a transfer and the upper lane
\* is not written on its own.
THEOREM CartAccessImplemented ==
    ASSUME HeaderWhileBusy = FALSE, <<"write", "8BIT_HI">> \notin Transfers
    PROVE  Spec => Implements
<1>1. Init => RefineInv /\ Abstract!Init
  BY RefineInit, RefinedInit
<1>2. RefineInv /\ [Next]_vars => RefineInv' /\ [Abstract!Next]_(Abstract!vars)
  BY RefineNext, RefinedStep
<1> QED
  BY <1>1, <1>2, PTL DEF Spec, Implements, Abstract!Spec

=============================================================================
