---------------------------- MODULE VUEEventsBytes ----------------------------
(***************************************************************************)
(* What is in a bank, or in the buffer of a stream, is bytes the host or   *)
(* the cartridge has numbered, and no more of them than a packet holds.    *)
(***************************************************************************)
EXTENDS VUEEventsProofs, SequenceTheorems

Own(q, c) == \A j \in 1 .. Len(q) : q[j][2] = c

\* A packet that is taken whole leaves nothing.
LEMMA TakenWhole ==
    ASSUME NEW S, NEW q \in Seq(S)
    PROVE  /\ <<>> \o SubSeq(q, 1, Len(q)) = q
           /\ SubSeq(q, Len(q) + 1, Len(q)) = <<>>
<1>1. Len(q) \in Nat
  BY LenProperties
<1>2. SubSeq(q, 1, Len(q)) = q
  BY SubSeqFull
<1>3. SubSeq(q, Len(q) + 1, Len(q)) = <<>>
  BY <1>1, SubSeqEmpty
<1> QED
  BY <1>2, <1>3, ConcatEmptySeq

Bytes == {"cmd", "data", "junk"} \X Commands \X Nat

\* The bytes of a command are its own and tell it from every other one.
LEMMA CommandBytes ==
    ASSUME NEW c
    PROVE  /\ Len(CmdBytes(c)) = CmdSize
           /\ Own(CmdBytes(c), c)
           /\ \A d : CmdBytes(d) = CmdBytes(c) => d = c
           /\ c \in Commands => CmdBytes(c) \in Seq(Bytes)
<1>1. CmdSize \in Nat /\ CmdSize >= 1
  BY SizeAssumption
<1>2. Len(CmdBytes(c)) = CmdSize
  BY <1>1 DEF CmdBytes
<1>3. ASSUME NEW d, NEW j \in 1 .. CmdSize
      PROVE  CmdBytes(d)[j][2] = d
  BY <1>3 DEF CmdBytes, CmdByte
<1>4. Own(CmdBytes(c), c)
  BY <1>2, <1>3 DEF Own
<1>5. ASSUME NEW d, CmdBytes(d) = CmdBytes(c)
      PROVE  d = c
  BY <1>1, <1>3, <1>5
<1>6. ASSUME c \in Commands
      PROVE  CmdBytes(c) \in Seq(Bytes)
  <2>1. \A j \in 1 .. CmdSize : CmdByte(c, j) \in Bytes
    BY <1>6 DEF Bytes, CmdByte
  <2> QED
    BY <1>1, <2>1 DEF CmdBytes
<1> QED
  BY <1>2, <1>4, <1>5, <1>6

\* The bytes of a chunk are those of their transfer.
LEMMA ChunkBytes ==
    ASSUME NEW c, NEW first, NEW n \in Nat
    PROVE  /\ Len(DataBytes(c, first, n)) = n
           /\ Own(DataBytes(c, first, n), c)
           /\ DataBytes(c, first, 0) = <<>>
           /\ c \in Commands /\ first \in Nat => DataBytes(c, first, n) \in Seq(Bytes)
<1>1. Len(DataBytes(c, first, n)) = n
  BY DEF DataBytes
<1>2. Own(DataBytes(c, first, n), c)
  BY <1>1 DEF Own, DataBytes, DataByte
<1>3. DataBytes(c, first, 0) = <<>>
  <2> DEFINE e == DataBytes(c, first, 0)
  <2>1. e \in Seq({DataByte(c, first + j) : j \in 1 .. 0}) /\ Len(e) = 0
    BY DEF DataBytes
  <2> QED
    BY <2>1, EmptySeq
<1>4. ASSUME c \in Commands, first \in Nat
      PROVE  DataBytes(c, first, n) \in Seq(Bytes)
  <2>1. \A j \in 1 .. n : DataByte(c, first + j) \in Bytes
    BY <1>4 DEF Bytes, DataByte
  <2> QED
    BY <2>1 DEF DataBytes
<1> QED
  BY <1>1, <1>2, <1>3, <1>4

-----------------------------------------------------------------------------
(* The invariant.                                                          *)

InStream == pc \in {"stream", "stream_usb", "exec"}

\* A stream has got no more than it wants; outside of one nothing is got.
BytesInv ==
    /\ hcmd \in Commands /\ hpos \in Nat
    /\ got \in Seq(Bytes) /\ outBank \in Seq(Bytes) /\ inBank \in Seq(Bytes)
    /\ Len(got) <= Wanted /\ Len(outBank) <= EPSize /\ Len(inBank) <= EPSize
    /\ ~InStream => got = <<>>

ControlTypes ==
    /\ {selected, outFull, inReady, outStall} \subseteq BOOLEAN
    /\ pc \in {"usb", "out", "stream", "stream_usb", "exec", "stall", "clear",
               "in", "tail", "send", "check", "unstall"}
    /\ host \in {"ready", "command", "writing", "reading", "clearing", "resetting", "settle",
                "opening", "opened"}

TypeInv == IInv /\ BytesInv /\ ControlTypes

LEMMA WantedFits == IInv => Wanted \in 0 .. EPSize
BY SizeAssumption DEF IInv, Types, Wanted, Chunk, Smaller

LEMMA InitTypes == Init => TypeInv
<1> SUFFICES ASSUME Init PROVE TypeInv
  OBVIOUS
<1>1. IInv /\ ControlTypes
  BY InitInv DEF Init, ControlTypes
<1>2. <<>> \in Seq(Bytes) /\ Len(<<>>) = 0
  BY EmptySeq
<1>3. BytesInv
  BY <1>1, <1>2, WantedFits, SizeAssumption DEF Init, BytesInv, InStream, IInv, Types
<1> QED
  BY <1>1, <1>3 DEF TypeInv

LEMMA ControlStep ==
    ASSUME TypeInv, [Next]_vars
    PROVE  ControlTypes'
<1> USE DEF ControlTypes
<1>1. CASE Host
  <2>1. CASE Send
    <3>1. outFull' = TRUE /\ UNCHANGED <<selected, pc, inReady, outStall>>
      BY <2>1 DEF Send, firmware
    <3>2. host' \in {"command", "writing", "ready", "reading"}
      BY <2>1 DEF Send
    <3> QED
      BY <3>1, <3>2 DEF TypeInv
  <2>2. CASE Receive
    BY <2>2 DEF TypeInv, Receive, EmptyIN, firmware
  <2>3. CASE Begin \/ SeeStall \/ Abort \/ Open \/ Settle \/ AskHeader \/ Junk
    BY <2>3 DEF TypeInv, Begin, SeeStall, Abort, Open, Settle, AskHeader, Junk,
                firmware, banks, hostVars
  <2> QED
    BY <1>1, <2>1, <2>2, <2>3 DEF Host
<1>2. CASE MainUSBTask \/ StreamUSBTask
  <2>1. ServeControl /\ pc' \in {"check", "out", "clear", "stream"}
    BY <1>2 DEF MainUSBTask, StreamUSBTask
  <2>2. setup \in Requests \cup {"none"}
    BY DEF TypeInv, IInv, Types
  <2> QED
    BY <2>1, <2>2 DEF TypeInv, ServeControl, Requests, FlushBanks, EmptyIN, EmptyOUT, banks
<1>3. CASE NoOUT \/ StartStream \/ BreakRead \/ StallTransaction \/ ReadStream \/ StreamTimeout
            \/ ClearOUT \/ NoIN \/ NothingToRead \/ TestFull \/ ClearIN \/ NoReset
  BY <1>3 DEF TypeInv, NoOUT, StartStream, BreakRead, StallTransaction, ReadStream, StreamTimeout,
              ClearOUT, NoIN, NothingToRead, TestFull, ClearIN, NoReset, EmptyOUT, firmware, banks,
              hostVars
<1>4. CASE ExecCommand \/ ExecWrite \/ BulkRead \/ ResetDevice \/ ResetDone
  BY <1>4 DEF TypeInv, ExecCommand, ExecWrite, BulkRead, ResetDevice, ResetDone, FlushBanks,
              EmptyOUT, EmptyIN, banks, hostVars
<1>5. CASE UNCHANGED vars
  BY <1>5 DEF TypeInv, vars, firmware, banks, hostVars
<1> QED
  BY <1>1, <1>2, <1>3, <1>4, <1>5 DEF Next, Device

-----------------------------------------------------------------------------

\* A step that leaves the buffer and the length of the stream alone, and
\* empties banks or leaves them.
LEMMA BytesKept ==
    ASSUME TypeInv, IInv',
           hcmd' \in Commands, hpos' \in Nat,
           outBank' \in {outBank, <<>>}, inBank' \in {inBank, <<>>},
           \/ UNCHANGED <<cur_vue_state, left, got>> /\ (InStream => InStream')
           \/ got' = <<>>
    PROVE  BytesInv'
<1>1. <<>> \in Seq(Bytes) /\ Len(<<>>) = 0
  BY EmptySeq
<1>2. Wanted' \in 0 .. EPSize
  BY SizeAssumption DEF IInv, Types, Wanted, Chunk, Smaller
<1>3. EPSize \in Nat
  BY SizeAssumption
<1>4. got' \in Seq(Bytes) /\ Len(got') <= Wanted' /\ (~InStream' => got' = <<>>)
  <2>1. CASE UNCHANGED <<cur_vue_state, left, got>> /\ (InStream => InStream')
    BY <2>1 DEF TypeInv, BytesInv, Wanted, Chunk
  <2>2. CASE got' = <<>>
    BY <1>1, <1>2, <2>2
  <2> QED
    BY <2>1, <2>2
<1>5. outBank' \in Seq(Bytes) /\ Len(outBank') <= EPSize
  <2>1. CASE outBank' = outBank
    BY <2>1 DEF TypeInv, BytesInv
  <2>2. CASE outBank' = <<>>
    BY <1>1, <1>3, <2>2
  <2> QED
    BY <2>1, <2>2
<1>6. inBank' \in Seq(Bytes) /\ Len(inBank') <= EPSize
  <2>1. CASE inBank' = inBank
    BY <2>1 DEF TypeInv, BytesInv
  <2>2. CASE inBank' = <<>>
    BY <1>1, <1>3, <2>2
  <2> QED
    BY <2>1, <2>2
<1> QED
  BY <1>4, <1>5, <1>6 DEF BytesInv

\* The stream takes from the packet no more than it still wants.
LEMMA StreamBytes ==
    ASSUME TypeInv, IInv', ReadStream
    PROVE  BytesInv'
<1> DEFINE n == Smaller(Wanted - Len(got), Len(outBank))
<1>1. /\ got \in Seq(Bytes) /\ outBank \in Seq(Bytes) /\ EPSize \in Nat
      /\ Len(got) \in Nat /\ Len(outBank) \in Nat /\ Len(outBank) <= EPSize
      /\ Wanted \in 0 .. EPSize /\ Len(got) <= Wanted
  BY WantedFits, LenProperties, SizeAssumption DEF TypeInv, BytesInv
<1>2. n \in 0 .. Len(outBank) /\ Len(got) + n <= Wanted
  BY <1>1 DEF Smaller
<1>3. /\ got' = got \o SubSeq(outBank, 1, n)
      /\ outBank' = SubSeq(outBank, n + 1, Len(outBank)) \/ outBank' = <<>>
      /\ UNCHANGED <<cur_vue_state, left, inBank, hcmd, hpos>>
      /\ InStream'
  BY DEF ReadStream, EmptyOUT, InStream, hostVars
<1> HIDE DEF n
<1>4. SubSeq(outBank, 1, n) \in Seq(Bytes) /\ Len(SubSeq(outBank, 1, n)) = n
  <2>1. \A i \in 1 .. n : outBank[i] \in Bytes
    BY <1>1, <1>2, ElementOfSeq
  <2> QED
    BY <1>2, <2>1, SubSeqProperties
<1>5. /\ SubSeq(outBank, n + 1, Len(outBank)) \in Seq(Bytes)
      /\ Len(SubSeq(outBank, n + 1, Len(outBank))) <= EPSize
  <2>1. \A i \in n + 1 .. Len(outBank) : outBank[i] \in Bytes
    BY <1>1, <1>2, ElementOfSeq
  <2>2. /\ SubSeq(outBank, n + 1, Len(outBank)) \in Seq(Bytes)
        /\ Len(SubSeq(outBank, n + 1, Len(outBank)))
             = IF n + 1 <= Len(outBank) THEN Len(outBank) - (n + 1) + 1 ELSE 0
    BY <1>1, <1>2, <2>1, SubSeqProperties
  <2> QED
    BY <1>1, <1>2, <2>2
<1>6. got' \in Seq(Bytes) /\ Len(got') = Len(got) + n
  BY <1>1, <1>3, <1>4, ConcatProperties
<1>7. Wanted' = Wanted
  BY <1>3 DEF Wanted, Chunk
<1>8. outBank' \in Seq(Bytes) /\ Len(outBank') <= EPSize
  <2>1. CASE outBank' = SubSeq(outBank, n + 1, Len(outBank))
    BY <1>5, <2>1
  <2>2. CASE outBank' = <<>>
    BY <1>1, <2>2, EmptySeq
  <2> QED
    BY <1>3, <2>1, <2>2
<1> QED
  BY <1>1, <1>2, <1>3, <1>6, <1>7, <1>8 DEF TypeInv, BytesInv

\* A chunk of a read fits the bank, which is empty.
LEMMA BulkReadBytes ==
    ASSUME TypeInv, IInv', BulkRead
    PROVE  BytesInv'
<1>1. /\ cur_command \in Commands /\ pos \in Nat /\ left \in Nat /\ left > 0
      /\ inBank = <<>>
  BY DEF TypeInv, IInv, Types, LengthAddsUp, BankInv, BulkRead
<1>2. Chunk \in Nat /\ Chunk <= EPSize /\ EPSize \in Nat
  BY <1>1, SizeAssumption DEF Chunk, Smaller
<1>3. /\ DataBytes(cur_command, pos, Chunk) \in Seq(Bytes)
      /\ Len(DataBytes(cur_command, pos, Chunk)) = Chunk
  BY <1>1, <1>2, ChunkBytes
<1>4. inBank' = DataBytes(cur_command, pos, Chunk)
  BY <1>1, <1>3, ConcatEmptySeq DEF BulkRead
<1>5. /\ pc = "in" /\ pc' = "tail"
      /\ UNCHANGED <<got, outBank, hcmd, hpos>>
  BY DEF BulkRead, hostVars
<1>6. got = <<>> /\ Wanted' \in 0 .. EPSize
  <2>1. got = <<>>
    BY <1>5 DEF TypeInv, BytesInv, InStream
  <2>2. left' \in Nat
    BY DEF IInv, Types
  <2> QED
    BY <2>1, <2>2, SizeAssumption DEF Wanted, Chunk, Smaller
<1> QED
  BY <1>2, <1>3, <1>4, <1>5, <1>6, EmptySeq DEF TypeInv, BytesInv, InStream

\* A packet of the host is no longer than the bank.
LEMMA SendBytes ==
    ASSUME TypeInv, IInv', Send
    PROVE  BytesInv'
<1> DEFINE total == IF host = "command" THEN CmdSize ELSE hcmd.length
           most  == Smaller(total - hpos, EPSize - (hpos % EPSize))
<1>1. /\ hpos \in Nat /\ hcmd \in Commands /\ hcmd.length \in Nat /\ total \in Nat
      /\ EPSize \in Nat /\ EPSize > 0 /\ hpos % EPSize \in Nat
  <2>1. hpos \in Nat /\ hcmd \in Commands
    BY DEF TypeInv, BytesInv
  <2>2. hcmd.length \in Nat
    BY <2>1, SizeAssumption DEF Commands
  <2>3. EPSize \in Nat /\ EPSize > 0 /\ CmdSize \in Nat
    BY SizeAssumption
  <2> QED
    BY <2>1, <2>2, <2>3
<1>2. PICK n \in 1 .. most :
         /\ outBank' = IF host = "command"
                       THEN SubSeq(CmdBytes(hcmd), hpos + 1, hpos + n)
                       ELSE DataBytes(hcmd, hpos, n)
         /\ hpos' \in {hpos + n, 0}
  BY DEF Send
<1>3. n \in Nat /\ n >= 1 /\ n <= EPSize /\ hpos + n <= total
  BY <1>1 DEF Smaller
<1> HIDE DEF most
<1>4. outBank' \in Seq(Bytes) /\ Len(outBank') = n
  <2>1. CASE host = "command"
    <3>1. CmdBytes(hcmd) \in Seq(Bytes) /\ Len(CmdBytes(hcmd)) = CmdSize
      BY <1>1, CommandBytes
    <3>2. \A i \in hpos + 1 .. hpos + n : CmdBytes(hcmd)[i] \in Bytes
      BY <1>1, <1>3, <2>1, <3>1, ElementOfSeq
    <3>3. /\ SubSeq(CmdBytes(hcmd), hpos + 1, hpos + n) \in Seq(Bytes)
          /\ Len(SubSeq(CmdBytes(hcmd), hpos + 1, hpos + n)) = n
      BY <1>1, <1>3, <3>2, SubSeqProperties
    <3> QED
      BY <1>2, <2>1, <3>3
  <2>2. CASE host # "command"
    BY <1>1, <1>2, <1>3, <2>2, ChunkBytes
  <2> QED
    BY <2>1, <2>2
<1>5. UNCHANGED <<cur_vue_state, left, got, pc, inBank, hcmd>>
  BY DEF Send, firmware
<1>6. Wanted' = Wanted /\ (InStream' <=> InStream)
  BY <1>5 DEF Wanted, Chunk, InStream
<1>7. hpos' \in Nat
  BY <1>1, <1>2, <1>3
<1> QED
  BY <1>3, <1>4, <1>5, <1>6, <1>7 DEF TypeInv, BytesInv

LEMMA BytesStep ==
    ASSUME TypeInv, [Next]_vars, IInv'
    PROVE  BytesInv'
<1>1. hcmd \in Commands /\ hpos \in Nat
  BY DEF TypeInv, BytesInv
<1>2. CASE ReadStream
  BY <1>2, StreamBytes
<1>3. CASE BulkRead
  BY <1>3, BulkReadBytes
<1>4. CASE Send
  BY <1>4, SendBytes
<1>5. CASE Receive
  <2>1. Len(inBank) \in Nat
    BY LenProperties DEF TypeInv, BytesInv
  <2>2. hpos' \in Nat /\ UNCHANGED hcmd
    BY <1>1, <1>5, <2>1 DEF Receive
  <2>3. UNCHANGED <<cur_vue_state, left, got, pc, outBank>> /\ inBank' = <<>>
    BY <1>5 DEF Receive, EmptyIN, firmware
  <2> QED
    BY <1>1, <2>2, <2>3, BytesKept DEF InStream
<1>6. CASE Junk
  <2>1. <<JunkByte(hcmd)>> \in Seq(Bytes) /\ Len(<<JunkByte(hcmd)>>) = 1 /\ 1 <= EPSize
    BY <1>1, SizeAssumption DEF Bytes, JunkByte
  <2>2. /\ UNCHANGED <<cur_vue_state, left, got, pc, inBank, hcmd, hpos>>
        /\ outBank' = <<JunkByte(hcmd)>>
    BY <1>6 DEF Junk, firmware, hostVars
  <2> QED
    BY <2>1, <2>2 DEF TypeInv, BytesInv, InStream, Wanted, Chunk
<1>7. CASE Begin \/ SeeStall \/ Abort \/ Open \/ Settle \/ AskHeader \/ UNCHANGED vars
  <2>1. UNCHANGED <<cur_vue_state, left, got, pc, outBank, inBank>>
    BY <1>7 DEF Begin, SeeStall, Abort, Open, Settle, AskHeader, vars, firmware, banks
  <2>2. hcmd' \in Commands /\ hpos' \in Nat
    BY <1>1, <1>7 DEF Begin, SeeStall, Abort, Open, Settle, AskHeader, vars, hostVars
  <2> QED
    BY <2>1, <2>2, BytesKept DEF InStream
<1>8. CASE MainUSBTask \/ StreamUSBTask
  <2>1. ServeControl /\ UNCHANGED <<cur_vue_state, left, hcmd, hpos>>
    BY <1>8 DEF MainUSBTask, StreamUSBTask
  <2>2. outBank' \in {outBank, <<>>} /\ inBank' \in {inBank, <<>>}
    BY <2>1 DEF TypeInv, IInv, Types, ServeControl, Requests, FlushBanks, EmptyIN, EmptyOUT, banks
  <2>3. \/ UNCHANGED got /\ (InStream => InStream')
        \/ got' = <<>>
    BY <1>8 DEF MainUSBTask, StreamUSBTask, InStream
  <2> QED
    BY <1>1, <2>1, <2>2, <2>3, BytesKept
<1>9. CASE \/ NoOUT \/ StartStream \/ BreakRead \/ StallTransaction \/ StreamTimeout \/ ClearOUT
           \/ NoIN \/ NothingToRead \/ TestFull \/ ClearIN \/ NoReset \/ ResetDevice \/ ResetDone
  <2>1. UNCHANGED <<left, got, hcmd, hpos>> /\ (UNCHANGED cur_vue_state \/ ResetDevice)
    BY <1>9 DEF NoOUT, StartStream, BreakRead, StallTransaction, StreamTimeout, ClearOUT, NoIN,
                NothingToRead, TestFull, ClearIN, NoReset, ResetDevice, ResetDone, firmware, hostVars
  <2>2. outBank' \in {outBank, <<>>} /\ inBank' \in {inBank, <<>>}
    BY <1>9 DEF NoOUT, StartStream, BreakRead, StallTransaction, StreamTimeout, ClearOUT, NoIN,
                NothingToRead, TestFull, ClearIN, NoReset, ResetDevice, ResetDone, EmptyOUT,
                FlushBanks, EmptyIN, banks
  <2>3. InStream => InStream'
    BY <1>9 DEF NoOUT, StartStream, BreakRead, StallTransaction, StreamTimeout, ClearOUT, NoIN,
                NothingToRead, TestFull, ClearIN, NoReset, ResetDevice, ResetDone, InStream
  <2>4. ResetDevice => got' = <<>>
    BY DEF ResetDevice, TypeInv, BytesInv, InStream
  <2> QED
    BY <1>1, <2>1, <2>2, <2>3, <2>4, BytesKept
<1>10. CASE ExecCommand \/ ExecWrite
  <2>1. got' = <<>> /\ UNCHANGED <<hcmd, hpos, inBank>> /\ outBank' \in {outBank, <<>>}
    BY <1>10 DEF ExecCommand, ExecWrite, EmptyOUT, banks, hostVars
  <2> QED
    BY <1>1, <2>1, BytesKept
<1> QED
  BY <1>2, <1>3, <1>4, <1>5, <1>6, <1>7, <1>8, <1>9, <1>10 DEF Next, Device, Host

LEMMA StepTypes == TypeInv /\ [Next]_vars => TypeInv'
<1> SUFFICES ASSUME TypeInv, [Next]_vars PROVE TypeInv'
  OBVIOUS
<1>1. IInv'
  BY StepInv DEF TypeInv
<1> QED
  BY <1>1, BytesStep, ControlStep DEF TypeInv

\* Whatever the host sends, in packets of any size and at any time, a stream
\* gets no more than it asked for and a bank holds no more than a packet: a
\* chunk never runs over bulk_buffer or the endpoint (VUEEvents.c:216).
THEOREM TypesOK == Spec => []TypeOK
<1>1. TypeInv => TypeOK
  <2> SUFFICES ASSUME TypeInv PROVE TypeOK
    OBVIOUS
  <2>1. ASSUME NEW q \in {got, outBank, inBank}
        PROVE  /\ Len(q) <= EPSize
               /\ \A j \in 1 .. Len(q) : /\ q[j][1] \in {"cmd", "data", "junk"}
                                         /\ q[j][2] \in Commands
    <3>1. q \in Seq(Bytes) /\ Len(q) <= EPSize
      <4>1. Len(got) \in Nat /\ Wanted \in 0 .. EPSize /\ EPSize \in Nat
        BY WantedFits, LenProperties, SizeAssumption DEF TypeInv, BytesInv
      <4> QED
        BY <4>1 DEF TypeInv, BytesInv
    <3>2. \A j \in 1 .. Len(q) : q[j] \in Bytes
      BY <3>1, ElementOfSeq
    <3> QED
      BY <3>1, <3>2 DEF Bytes
  <2> QED
    BY <2>1 DEF TypeInv, IInv, Types, BytesInv, ControlTypes, TypeOK
<1> QED
  BY <1>1, InitTypes, StepTypes, PTL DEF Spec

=============================================================================
