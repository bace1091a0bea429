---------------------------- MODULE VUEEventsOrder ----------------------------
(***************************************************************************)
(* What is in the banks and the stream: the commands the firmware takes    *)
(* are commands, the bytes it writes are those the host sent for these     *)
(* words, the bytes it has read are those the host waits for, and nothing  *)
(* is left over from one transfer to the next.  This needs a host that     *)
(* sends whole chunks, sends nothing during a read, waits for its resets   *)
(* and resets the device when its program starts anew.                     *)
(***************************************************************************)
EXTENDS VUEEventsBytes

\* The host of which all this is said.
Orderly ==
    /\ Splits = FALSE /\ Unruly = FALSE /\ HostWaits = TRUE
    /\ Opens \in {"never", "resetting"}

-----------------------------------------------------------------------------
(* The invariant.                                                          *)

\* A packet waits that the firmware will take, and where its bytes are.
Pending == outFull /\ pc \notin {"stall", "clear"}
Packet == IF pc = "exec" THEN got ELSE outBank

\* The host's command was invalid, or came while one was being stalled; and
\* command c waits.
Lost == cur_vue_state = "IDLE" /\ (pc = "stall" \/ outStall)
Fresh(c) == cur_vue_state = "IDLE" /\ Pending /\ Packet = CmdBytes(c)

\* The firmware by itself: a stream takes one packet, which is one command
\* or the chunk of a write that is due.
PacketInv ==
    /\ pc # "stream_usb"
    /\ pc \in {"stream", "exec"} => outFull
    /\ pc # "exec" => got = <<>>
    /\ ~outFull \/ pc = "exec" => outBank = <<>>
    /\ pc = "clear" => outFull \/ outStall
    /\ pc = "stall" => cur_vue_state = "IDLE"
    /\ outStall => cur_vue_state = "IDLE" /\ pc # "stall" /\ (outFull => pc = "clear")
    /\ cur_vue_state = "IDLE" => ~selected
    /\ pc = "unstall" => ~outFull /\ inBank = <<>>
    /\ Pending =>
         \/ cur_vue_state = "IDLE" /\ \E c \in Commands : Packet = CmdBytes(c)
         \/ cur_vue_state = "WRITE" /\ Packet = DataBytes(cur_command, pos, Chunk)

\* The host waits for the request it has made.
RequestInv ==
    /\ bulk_reset => host = "settle"
    /\ setup = "RESET_ALL" => host = "resetting"
    /\ setup = "CLEAR_HALT" => host = "clearing"
    /\ setup = "SET_CONFIGURATION" => host = "opening" /\ Opens # "never"

\* Host and firmware together: between two transfers the firmware has at
\* most the last packet of the one before to take, ...
Between ==
    /\ cur_vue_state # "READ" /\ inBank = <<>>
    /\ cur_vue_state = "WRITE" => Pending /\ LastChunk
    /\ \A c \in Commands : Fresh(c) => c.length = 0

\* ... in a write the host is at most one chunk ahead, ...
Writing ==
    /\ inBank = <<>> /\ Own(outBank, hcmd)
    /\ hpos < hcmd.length /\ hpos % EPSize = 0
    /\ \/ Lost
       \/ Fresh(hcmd) /\ hcmd.operation = "WRITE" /\ hpos = 0
       \/ /\ cur_vue_state = "WRITE" /\ cur_command = hcmd
          /\ hpos = IF Pending THEN pos + Chunk ELSE pos
          /\ Pending => ~LastChunk

\* ... in a read the firmware is ahead by what is in the bank, ...
Reading ==
    /\ Own(outBank, hcmd)
    /\ hpos < hcmd.length
    /\ inBank = DataBytes(hcmd, hpos, Len(inBank))
    /\ \/ Lost /\ inBank = <<>>
       \/ Fresh(hcmd) /\ hcmd.operation = "READ" /\ hpos = 0 /\ inBank = <<>>
       \/ /\ cur_vue_state = "READ" /\ cur_command = hcmd
          /\ pos = hpos + Len(inBank)
       \/ /\ cur_vue_state = "IDLE" /\ ~Pending /\ ~inReady
          /\ hpos + Len(inBank) = hcmd.length

\* ... and a stall is cleared while nothing goes on.
Clearing == cur_vue_state = "IDLE" /\ outStall /\ inBank = <<>>

HostInv ==
    /\ host = "command" => hpos = 0
    /\ host \in {"ready", "command"} \/ (host = "settle" /\ ~bulk_reset) => Between
    /\ host = "writing" => Writing
    /\ host = "reading" => Reading
    /\ host = "clearing" => Clearing

OrderInv == TypeInv /\ PacketInv /\ RequestInv /\ HostInv

-----------------------------------------------------------------------------
(* Packets.                                                                *)

LEMMA MultipleOf ==
    ASSUME NEW e \in Nat, e > 0, NEW k \in Nat
    PROVE  (e * k) % e = 0
BY SMT

\* A host that has sent whole packets goes on with a whole packet.
LEMMA NextPacket ==
    ASSUME NEW n \in Nat, n % EPSize = 0
    PROVE  (n + EPSize) % EPSize = 0
<1>1. EPSize \in Nat /\ EPSize > 0
  BY SizeAssumption
<1>2. PICK k \in Nat : n = EPSize * k
  BY <1>1
<1>3. n + EPSize = EPSize * (k + 1) /\ k + 1 \in Nat
  BY <1>1, <1>2
<1>4. (EPSize * (k + 1)) % EPSize = 0
  BY <1>1, <1>3, MultipleOf
<1> QED
  BY <1>3, <1>4

\* The stream takes the packet in one go.
LEMMA StreamTakes ==
    ASSUME OrderInv, ReadStream
    PROVE  got' = outBank /\ outBank' = <<>> /\ pc' = "exec" /\ outFull /\ outFull'
<1>1. pc = "stream" /\ outFull /\ Pending /\ got = <<>> /\ Packet = outBank
  BY DEF ReadStream, OrderInv, PacketInv, Pending, Packet
<1>0. /\ outBank \in Seq(Bytes) /\ IInv /\ PacketInv
      /\ CmdSize \in Nat
  BY SizeAssumption DEF OrderInv, TypeInv, BytesInv
<1>2. outBank \in Seq(Bytes) /\ Len(outBank) = Wanted /\ Wanted \in Nat
  <2>1. CASE cur_vue_state = "IDLE" /\ \E c \in Commands : Packet = CmdBytes(c)
    BY <1>0, <1>1, <2>1, CommandBytes DEF Wanted
  <2>2. CASE cur_vue_state = "WRITE" /\ Packet = DataBytes(cur_command, pos, Chunk)
    <3>1. Chunk \in Nat /\ cur_command \in Commands /\ pos \in Nat
      BY <1>0, <2>2, ChunkFits DEF IInv, LengthAddsUp, Types
    <3> QED
      BY <1>0, <1>1, <2>2, <3>1, ChunkBytes DEF Wanted
  <2> QED
    BY <1>0, <1>1, <2>1, <2>2 DEF PacketInv
<1>3. Smaller(Wanted - Len(got), Len(outBank)) = Len(outBank) /\ Len(got) = 0
  BY <1>1, <1>2 DEF Smaller
<1>4. Len(got) + Len(outBank) = Wanted
  BY <1>2, <1>3
<1>5. /\ got' = got \o SubSeq(outBank, 1, Len(outBank))
      /\ outBank' = SubSeq(outBank, Len(outBank) + 1, Len(outBank))
      /\ pc' = "exec" /\ outFull' = outFull
  BY <1>3, <1>4 DEF ReadStream
<1> QED
  BY <1>1, <1>2, <1>5, TakenWhole

-----------------------------------------------------------------------------
(* One step of the device.                                                 *)

\* The host waits, and what it may rely on is kept.
LEMMA HostKept ==
    ASSUME HostInv, UNCHANGED <<host, hcmd, hpos, bulk_reset>>,
           Between => Between', Writing => Writing', Reading => Reading', Clearing => Clearing'
    PROVE  HostInv'
BY DEF HostInv

\* The steps that neither take a packet nor give one.
LEMMA QuietOrder ==
    ASSUME OrderInv,
           UNCHANGED <<cur_vue_state, cur_command, left, pos, selected, bulk_reset, got,
                       outFull, outBank, outStall, inBank, setup, host, hcmd, hpos>>,
           inReady' => inReady,
           pc \notin {"exec", "stall", "clear"},
           pc' \notin {"stream_usb", "exec", "stall", "clear", "unstall"},
           pc' = "stream" => outFull
    PROVE  PacketInv' /\ RequestInv' /\ HostInv'
<1>1. /\ Pending' <=> Pending
      /\ Packet' = Packet
      /\ Chunk' = Chunk
      /\ LastChunk' <=> LastChunk
  BY DEF Pending, Packet, Chunk, LastChunk
<1>2. \A c : Fresh(c)' <=> Fresh(c)
  BY <1>1 DEF Fresh
<1>3. PacketInv' /\ RequestInv'
  BY <1>1 DEF OrderInv, PacketInv, RequestInv
<1>4. Between => Between'
  BY <1>1, <1>2 DEF Between
<1>5. Writing => Writing'
  BY <1>1, <1>2 DEF Writing, Lost, Own
<1>6. Reading => Reading'
  BY <1>1, <1>2 DEF Reading, Lost, Own
<1>7. Clearing => Clearing'
  BY DEF Clearing
<1> QED
  BY <1>3, <1>4, <1>5, <1>6, <1>7, HostKept DEF OrderInv

LEMMA QuietSteps ==
    ASSUME OrderInv,
           NoOUT \/ StartStream \/ NoIN \/ NothingToRead \/ TestFull \/ ClearIN \/ NoReset
    PROVE  PacketInv' /\ RequestInv' /\ HostInv'
<1>1. /\ UNCHANGED <<cur_vue_state, cur_command, left, pos, selected, bulk_reset, got,
                     outFull, outBank, outStall, inBank, setup, host, hcmd, hpos>>
      /\ inReady' => inReady
  BY DEF NoOUT, StartStream, NoIN, NothingToRead, TestFull, ClearIN, NoReset,
         firmware, banks, hostVars
<1>2. /\ pc \notin {"exec", "stall", "clear"}
      /\ pc' \notin {"stream_usb", "exec", "stall", "clear", "unstall"}
      /\ pc' = "stream" => outFull
  BY DEF NoOUT, StartStream, NoIN, NothingToRead, TestFull, ClearIN, NoReset
<1> QED
  BY <1>1, <1>2, QuietOrder

\* Nothing comes during a read, no stream waits for a packet and none is
\* left incomplete.
LEMMA NeverSteps ==
    ASSUME OrderInv
    PROVE  ~BreakRead /\ ~StreamTimeout /\ ~StreamUSBTask
BY DEF OrderInv, PacketInv, Pending, BreakRead, StreamTimeout, StreamUSBTask

\* The packet moves from the bank to the buffer.
LEMMA StreamOrder ==
    ASSUME OrderInv, ReadStream
    PROVE  PacketInv' /\ RequestInv' /\ HostInv'
<1>1. /\ got' = outBank /\ outBank' = <<>> /\ pc = "stream" /\ pc' = "exec" /\ outFull /\ outFull'
      /\ UNCHANGED <<cur_vue_state, cur_command, left, pos, selected, bulk_reset,
                     inReady, inBank, outStall, setup, host, hcmd, hpos>>
  BY StreamTakes DEF ReadStream, hostVars
<1>2. Pending /\ Pending' /\ Packet' = Packet /\ Chunk' = Chunk /\ (LastChunk' <=> LastChunk)
  BY <1>1 DEF Pending, Packet, Chunk, LastChunk
<1>3. \A c : Fresh(c)' <=> Fresh(c)
  BY <1>1, <1>2 DEF Fresh
<1>4. PacketInv' /\ RequestInv'
  BY <1>1, <1>2 DEF OrderInv, PacketInv, RequestInv
<1>5. Own(outBank', hcmd')
  BY <1>1 DEF Own
<1>6. Between => Between'
  BY <1>1, <1>2, <1>3 DEF Between
<1>7. Writing => Writing'
  BY <1>1, <1>2, <1>3, <1>5 DEF Writing, Lost
<1>8. Reading => Reading'
  BY <1>1, <1>2, <1>3, <1>5 DEF Reading, Lost
<1>9. Clearing => Clearing'
  BY <1>1 DEF Clearing
<1> QED
  BY <1>1, <1>4, <1>6, <1>7, <1>8, <1>9, HostKept DEF OrderInv

\* The endpoint is stalled; the host's packet, if there is one, is lost.
LEMMA StallOrder ==
    ASSUME OrderInv, StallTransaction
    PROVE  PacketInv' /\ RequestInv' /\ HostInv'
<1>1. /\ pc = "stall" /\ pc' = "clear" /\ outStall' = TRUE
      /\ UNCHANGED <<cur_vue_state, cur_command, left, pos, selected, bulk_reset, got,
                     outFull, outBank, inReady, inBank, setup, host, hcmd, hpos>>
  BY DEF StallTransaction, firmware, hostVars
<1>2. ~Pending /\ ~Pending' /\ cur_vue_state = "IDLE" /\ ~outStall
  BY <1>1 DEF Pending, OrderInv, PacketInv
<1>3. PacketInv' /\ RequestInv'
  BY <1>1, <1>2 DEF OrderInv, PacketInv, RequestInv
<1>4. Between => Between'
  BY <1>1, <1>2 DEF Between, Fresh
<1>5. Writing => Writing'
  BY <1>1, <1>2 DEF Writing, Lost, Own
<1>6. Reading => Reading'
  BY <1>1, <1>2 DEF Reading, Lost, Own, Fresh
<1>7. Clearing => Clearing'
  BY <1>2 DEF Clearing
<1> QED
  BY <1>1, <1>3, <1>4, <1>5, <1>6, <1>7, HostKept DEF OrderInv

\* What is left of a packet that was taken goes.
LEMMA ClearOrder ==
    ASSUME OrderInv, ClearOUT
    PROVE  PacketInv' /\ RequestInv' /\ HostInv'
<1>1. /\ pc = "clear" /\ pc' = "in" /\ outFull' = FALSE /\ outBank' = <<>>
      /\ UNCHANGED <<cur_vue_state, cur_command, left, pos, selected, bulk_reset, got,
                     outStall, inReady, inBank, setup, host, hcmd, hpos>>
  BY DEF ClearOUT, EmptyOUT, firmware, hostVars
<1>2. ~Pending /\ ~Pending'
  BY <1>1 DEF Pending
<1>3. PacketInv' /\ RequestInv'
  BY <1>1, <1>2 DEF OrderInv, PacketInv, RequestInv
<1>4. Between => Between'
  BY <1>1, <1>2 DEF Between, Fresh
<1>5. Writing => Writing'
  BY <1>1, <1>2 DEF Writing, Lost, Own, Fresh
<1>6. Reading => Reading'
  BY <1>1, <1>2 DEF Reading, Lost, Own, Fresh
<1>7. Clearing => Clearing'
  BY <1>1 DEF Clearing
<1> QED
  BY <1>1, <1>3, <1>4, <1>5, <1>6, <1>7, HostKept DEF OrderInv

\* A command is decoded as the one the host sent: an invalid one goes on to
\* the stall, one without a length is done, any other is started.
LEMMA CommandOrder ==
    ASSUME OrderInv, ExecCommand
    PROVE  PacketInv' /\ RequestInv' /\ HostInv'
<1>1. pc = "exec" /\ cur_vue_state = "IDLE" /\ outFull /\ Pending /\ Packet = got /\ outBank = <<>>
  BY DEF ExecCommand, OrderInv, PacketInv, Pending, Packet
<1>2. ~outStall /\ ~selected
  BY <1>1 DEF OrderInv, PacketInv
<1>3. PICK c \in Commands : got = CmdBytes(c)
  BY <1>1 DEF OrderInv, PacketInv
<1>4. \A d : Fresh(d) => d = c
  BY <1>1, <1>3, CommandBytes DEF Fresh
<1>5. Fresh(c)
  BY <1>1, <1>3 DEF Fresh
<1>6. Decoded = {c}
  BY <1>3, CommandBytes DEF Decoded
<1>7. /\ cur_command' = c /\ left' = c.length /\ got' = <<>>
      /\ \/ /\ outFull' = FALSE /\ outBank' = <<>> /\ pc' = "stall"
            /\ UNCHANGED <<cur_vue_state, pos, selected>>
         \/ /\ c.length = 0 /\ pc' = "clear"
            /\ UNCHANGED <<cur_vue_state, pos, selected, outFull, outBank>>
         \/ /\ c.length > 0 /\ pc' = "clear"
            /\ cur_vue_state' = c.operation /\ pos' = 0 /\ selected' = TRUE
            /\ UNCHANGED <<outFull, outBank>>
  BY <1>6 DEF ExecCommand, EmptyOUT
<1>8. UNCHANGED <<bulk_reset, inReady, inBank, outStall, setup, host, hcmd, hpos>>
  BY DEF ExecCommand, hostVars
<1>9. c.length \in Nat /\ c.operation \in {"READ", "WRITE"}
  BY SizeAssumption DEF Commands
<1>10. ~Pending' /\ \A d : ~Fresh(d)'
  BY <1>7 DEF Pending, Fresh
<1>11. RequestInv'
  BY <1>8 DEF OrderInv, RequestInv
<1>12. PacketInv'
  <2>1. CASE /\ outFull' = FALSE /\ outBank' = <<>> /\ pc' = "stall"
             /\ UNCHANGED <<cur_vue_state, selected>>
    BY <1>1, <1>2, <1>7, <1>8, <1>10, <2>1 DEF PacketInv
  <2>2. CASE pc' = "clear" /\ UNCHANGED <<cur_vue_state, selected, outFull, outBank>>
    BY <1>1, <1>2, <1>7, <1>8, <1>10, <2>2 DEF PacketInv
  <2>3. CASE pc' = "clear" /\ cur_vue_state' = c.operation /\ UNCHANGED <<outFull, outBank>>
    BY <1>1, <1>2, <1>7, <1>8, <1>9, <1>10, <2>3 DEF PacketInv
  <2> QED
    BY <1>7, <2>1, <2>2, <2>3
<1>13. Own(outBank', hcmd')
  <2>1. outBank' = <<>>
    BY <1>1, <1>7
  <2> QED
    BY <2>1, EmptySeq DEF Own
<1>14. ASSUME Between PROVE Between'
  <2>1. c.length = 0 /\ inBank = <<>>
    BY <1>5, <1>14 DEF Between
  <2>2. UNCHANGED cur_vue_state
    BY <1>7, <2>1
  <2> QED
    BY <1>1, <1>8, <1>10, <2>1, <2>2 DEF Between
<1>15. ASSUME Writing PROVE Writing'
  <2>1. c = hcmd /\ c.operation = "WRITE" /\ hpos = 0 /\ c.length # 0
    BY <1>1, <1>2, <1>4, <1>9, <1>15 DEF Writing, Lost
  <2>2. inBank = <<>> /\ hpos < hcmd.length /\ hpos % EPSize = 0
    BY <1>15 DEF Writing
  <2>3. CASE pc' = "stall" /\ UNCHANGED cur_vue_state
    BY <1>1, <1>8, <1>13, <2>2, <2>3 DEF Writing, Lost
  <2>4. CASE cur_vue_state' = c.operation /\ pos' = 0
    BY <1>7, <1>8, <1>10, <1>13, <2>1, <2>2, <2>4 DEF Writing
  <2> QED
    BY <1>7, <2>1, <2>3, <2>4
<1>16. ASSUME Reading PROVE Reading'
  <2>1. c = hcmd /\ c.operation = "READ" /\ hpos = 0 /\ c.length # 0 /\ inBank = <<>>
    BY <1>1, <1>2, <1>4, <1>9, <1>16 DEF Reading, Lost
  <2>2. hpos < hcmd.length /\ inBank = DataBytes(hcmd, hpos, Len(inBank))
    BY <1>16 DEF Reading
  <2>3. CASE pc' = "stall" /\ UNCHANGED cur_vue_state
    BY <1>1, <1>8, <1>13, <2>1, <2>2, <2>3 DEF Reading, Lost
  <2>4. CASE cur_vue_state' = c.operation /\ pos' = 0
    <3>1. pos' = hpos + Len(inBank)
      BY <2>1, <2>4, EmptySeq
    <3> QED
      BY <1>7, <1>8, <1>13, <2>1, <2>2, <2>4, <3>1 DEF Reading
  <2> QED
    BY <1>7, <2>1, <2>3, <2>4
<1>17. Clearing => Clearing'
  BY <1>2 DEF Clearing
<1> QED
  BY <1>8, <1>11, <1>12, <1>14, <1>15, <1>16, <1>17, HostKept DEF OrderInv

\* A chunk is written: the one the host has sent.
LEMMA WriteOrder ==
    ASSUME OrderInv, ExecWrite
    PROVE  PacketInv' /\ RequestInv' /\ HostInv'
<1>1. /\ pc = "exec" /\ cur_vue_state = "WRITE" /\ outFull /\ Pending /\ outBank = <<>>
      /\ ~outStall
  BY DEF ExecWrite, OrderInv, PacketInv, Pending
<1>2. /\ pos' = pos + Chunk /\ pc' = "clear" /\ got' = <<>>
      /\ LastChunk => cur_vue_state' = "IDLE" /\ selected' = FALSE
      /\ ~LastChunk => cur_vue_state' = "WRITE"
      /\ UNCHANGED <<cur_command, bulk_reset, outFull, outBank, inReady, inBank, outStall,
                     setup, host, hcmd, hpos>>
  BY <1>1 DEF ExecWrite, banks, hostVars
<1>3. ~Pending' /\ \A d : ~Fresh(d)'
  BY <1>2 DEF Pending, Fresh
<1>4. PacketInv' /\ RequestInv'
  BY <1>1, <1>2, <1>3 DEF OrderInv, PacketInv, RequestInv
<1>5. Between => Between'
  BY <1>1, <1>2, <1>3 DEF Between
<1>6. Writing => Writing'
  BY <1>1, <1>2, <1>3 DEF Writing, Lost, Fresh, Own
<1>7. ~Reading /\ ~Clearing
  BY <1>1 DEF Reading, Lost, Fresh, Clearing
<1> QED
  BY <1>2, <1>4, <1>5, <1>6, <1>7, HostKept DEF OrderInv

\* A chunk is read: the next bytes of what the host waits for.
LEMMA ReadOrder ==
    ASSUME OrderInv, BulkRead
    PROVE  PacketInv' /\ RequestInv' /\ HostInv'
<1>1. /\ pc = "in" /\ inReady /\ cur_vue_state = "READ" /\ ~outStall /\ ~Pending /\ ~outFull
      /\ outBank = <<>> /\ got = <<>>
  BY DEF BulkRead, OrderInv, PacketInv, Pending
<1>2. /\ inBank = <<>> /\ left \in Nat /\ left > 0 /\ pos + left = cur_command.length
      /\ pos \in Nat /\ hpos \in Nat
  BY <1>1 DEF OrderInv, TypeInv, BytesInv, IInv, Types, LengthAddsUp, BankInv
<1>3. /\ pos' = pos + Chunk /\ pc' = "tail"
      /\ inBank' = inBank \o DataBytes(cur_command, pos, Chunk)
      /\ LastChunk => cur_vue_state' = "IDLE" /\ selected' = FALSE /\ inReady' = FALSE
      /\ ~LastChunk => cur_vue_state' = "READ"
      /\ UNCHANGED <<cur_command, bulk_reset, got, outFull, outBank, outStall,
                     setup, host, hcmd, hpos>>
  BY <1>1 DEF BulkRead, hostVars
<1>4. Chunk \in Nat
  BY <1>2, ChunkFits
<1>5. inBank' = DataBytes(cur_command, pos, Chunk) /\ Len(inBank') = Chunk
  <2>1. cur_command \in Commands
    BY DEF OrderInv, TypeInv, IInv, Types
  <2>2. /\ DataBytes(cur_command, pos, Chunk) \in Seq(Bytes)
        /\ Len(DataBytes(cur_command, pos, Chunk)) = Chunk
    BY <1>2, <1>4, <2>1, ChunkBytes
  <2> QED
    BY <1>2, <1>3, <2>2, ConcatEmptySeq
<1>6. ~Pending' /\ \A d : ~Fresh(d)'
  BY <1>1, <1>3 DEF Pending, Fresh
<1>7. PacketInv' /\ RequestInv'
  BY <1>1, <1>3, <1>6 DEF OrderInv, PacketInv, RequestInv
<1>8. ~Between /\ ~Writing /\ ~Clearing
  BY <1>1 DEF Between, Writing, Lost, Fresh, Clearing
<1>9. ASSUME Reading PROVE Reading'
  <2>1. cur_command = hcmd /\ pos = hpos
    <3>1. pos = hpos + Len(inBank) /\ cur_command = hcmd
      BY <1>1, <1>9 DEF Reading, Lost, Fresh
    <3> QED
      BY <1>2, <3>1, EmptySeq
  <2>2. inBank' = DataBytes(hcmd', hpos', Len(inBank')) /\ hpos' < hcmd'.length /\ Own(outBank', hcmd')
    BY <1>3, <1>5, <1>9, <2>1 DEF Reading, Own
  <2>3. CASE LastChunk
    <3>1. hpos + Len(inBank') = hcmd.length
      BY <1>2, <1>5, <2>1, <2>3 DEF LastChunk
    <3> QED
      BY <1>3, <1>6, <2>2, <2>3, <3>1 DEF Reading
  <2>4. CASE ~LastChunk
    BY <1>3, <1>5, <2>1, <2>2, <2>4 DEF Reading
  <2> QED
    BY <2>3, <2>4
<1> QED
  BY <1>3, <1>7, <1>8, <1>9, HostKept DEF OrderInv

\* A reset leaves nothing in the state machine and the banks, and the host
\* that asked for it waits until it is over.
LEMMA ResetOrder ==
    ASSUME OrderInv, ResetDevice \/ ResetDone
    PROVE  PacketInv' /\ RequestInv' /\ HostInv'
<1>1. bulk_reset /\ host = "settle"
  BY DEF OrderInv, TypeInv, IInv, Types, ResetInv, RequestInv, ResetDevice, ResetDone
<1>2. CASE ResetDevice
  <2>1. /\ pc = "check" /\ pc' = "unstall" /\ cur_vue_state' = "IDLE" /\ selected' = FALSE
        /\ outFull' = FALSE /\ outBank' = <<>> /\ inBank' = <<>>
        /\ UNCHANGED <<got, outStall, bulk_reset, setup, host, hcmd, hpos>>
    BY <1>2 DEF ResetDevice, FlushBanks, EmptyOUT, EmptyIN, hostVars
  <2>2. PacketInv'
    BY <2>1 DEF OrderInv, PacketInv, Pending
  <2>3. RequestInv' /\ HostInv'
    BY <1>1, <2>1 DEF OrderInv, RequestInv, HostInv
  <2> QED
    BY <2>2, <2>3
<1>3. CASE ResetDone
  <2>1. /\ pc = "unstall" /\ pc' = "usb" /\ outStall' = FALSE /\ bulk_reset' = FALSE
        /\ UNCHANGED <<cur_vue_state, selected, got, outFull, outBank, inBank,
                       setup, host, hcmd, hpos>>
    BY <1>3 DEF ResetDone, hostVars
  <2>2. cur_vue_state = "IDLE" /\ ~outFull /\ inBank = <<>>
    BY <2>1 DEF OrderInv, PacketInv, TypeInv, IInv, ResetInv
  <2>3. ~Pending' /\ \A d : ~Fresh(d)'
    BY <2>1, <2>2 DEF Pending, Fresh
  <2>4. PacketInv' /\ RequestInv'
    BY <2>1, <2>2, <2>3 DEF OrderInv, PacketInv, RequestInv
  <2>5. Between'
    BY <2>1, <2>2, <2>3 DEF Between
  <2> QED
    BY <1>1, <2>1, <2>4, <2>5 DEF HostInv
<1> QED
  BY <1>2, <1>3

\* A control request is served in the main loop.
LEMMA RequestOrder ==
    ASSUME Orderly, OrderInv, MainUSBTask
    PROVE  PacketInv' /\ RequestInv' /\ HostInv'
<1>1. /\ pc = "usb" /\ pc' \in {"check", "out"} /\ ServeControl
      /\ UNCHANGED <<cur_vue_state, cur_command, left, pos, got, hcmd, hpos>>
  BY DEF MainUSBTask
<1>2. setup \in Requests \cup {"none"}
  BY DEF OrderInv, TypeInv, IInv, Types
<1>3. got = <<>>
  BY <1>1 DEF OrderInv, PacketInv
<1>4. CASE setup = "none"
  <2>1. UNCHANGED <<selected, bulk_reset, outFull, outBank, outStall, inReady, inBank, setup, host>>
    BY <1>1, <1>4 DEF ServeControl, banks
  <2> QED
    BY <1>1, <2>1, QuietOrder
<1>5. CASE setup = "READ_HEADER"
  <2>1. /\ UNCHANGED <<bulk_reset, outFull, outBank, outStall, inReady, inBank, host>>
        /\ selected' = FALSE /\ setup' = "none"
    BY <1>1, <1>5 DEF ServeControl, banks
  <2>2. /\ Pending' <=> Pending
        /\ Packet' = Packet /\ Chunk' = Chunk
        /\ LastChunk' <=> LastChunk
    BY <1>1, <2>1 DEF Pending, Packet, Chunk, LastChunk
  <2>3. \A c : Fresh(c)' <=> Fresh(c)
    BY <1>1, <2>2 DEF Fresh
  <2>4. PacketInv' /\ RequestInv'
    BY <1>1, <2>1, <2>2 DEF OrderInv, PacketInv, RequestInv
  <2>5. Between => Between'
    BY <1>1, <2>1, <2>2, <2>3 DEF Between
  <2>6. Writing => Writing'
    BY <1>1, <2>1, <2>2, <2>3 DEF Writing, Lost, Own
  <2>7. Reading => Reading'
    BY <1>1, <2>1, <2>2, <2>3 DEF Reading, Lost, Own
  <2>8. Clearing => Clearing'
    BY <1>1, <2>1 DEF Clearing
  <2> QED
    BY <1>1, <2>1, <2>4, <2>5, <2>6, <2>7, <2>8, HostKept DEF OrderInv
<1>6. CASE setup = "RESET_ALL"
  <2>1. /\ UNCHANGED <<selected, outFull, outBank, outStall, inReady, inBank>>
        /\ setup' = "none" /\ bulk_reset' = TRUE /\ host' = "settle"
    BY <1>1, <1>6 DEF ServeControl, banks, Orderly
  <2>2. /\ Pending' <=> Pending
        /\ Packet' = Packet /\ Chunk' = Chunk
    BY <1>1, <2>1 DEF Pending, Packet, Chunk
  <2>3. PacketInv'
    BY <1>1, <2>1, <2>2 DEF OrderInv, PacketInv
  <2>4. RequestInv' /\ HostInv'
    BY <2>1 DEF RequestInv, HostInv
  <2> QED
    BY <2>3, <2>4
<1>7. CASE setup = "CLEAR_HALT"
  <2>1. /\ outStall' = FALSE /\ outFull' = FALSE /\ outBank' = <<>>
        /\ setup' = "none" /\ host' = "ready"
        /\ UNCHANGED <<bulk_reset, selected, inBank>>
    BY <1>1, <1>7 DEF ServeControl, EmptyOUT
  <2>2. Clearing /\ ~bulk_reset
    BY <1>7 DEF OrderInv, RequestInv, HostInv, TypeInv, IInv, Types
  <2>3. ~Pending' /\ \A d : ~Fresh(d)'
    BY <2>1 DEF Pending, Fresh
  <2>4. PacketInv'
    BY <1>1, <1>3, <2>1, <2>3 DEF OrderInv, PacketInv
  <2>5. Between'
    BY <1>1, <2>1, <2>2, <2>3 DEF Between, Clearing
  <2>6. RequestInv' /\ HostInv'
    BY <2>1, <2>2, <2>5 DEF RequestInv, HostInv
  <2> QED
    BY <2>4, <2>6
<1>8. CASE setup = "SET_CONFIGURATION"
  <2>1. host = "opening" /\ ~bulk_reset /\ Opens = "resetting"
    BY <1>8 DEF OrderInv, RequestInv, Orderly
  <2>2. /\ outStall' = FALSE /\ outFull' = FALSE /\ outBank' = <<>>
        /\ setup' = "none" /\ host' = "opened"
        /\ UNCHANGED <<bulk_reset, selected>>
    BY <1>1, <1>8, <2>1 DEF ServeControl, FlushBanks, EmptyOUT
  <2>3. PacketInv'
    BY <1>1, <1>3, <2>2 DEF OrderInv, PacketInv, Pending
  <2>4. RequestInv' /\ HostInv'
    BY <2>1, <2>2 DEF RequestInv, HostInv
  <2> QED
    BY <2>3, <2>4
<1> QED
  BY <1>2, <1>4, <1>5, <1>6, <1>7, <1>8 DEF Requests

-----------------------------------------------------------------------------
(* One step of the host.                                                   *)

\* The host sends nothing, takes nothing and is not told anything: it makes
\* a request, or begins.
LEMMA AskOrder ==
    ASSUME Orderly, OrderInv, Begin \/ SeeStall \/ Abort \/ Open \/ Settle \/ AskHeader
    PROVE  PacketInv' /\ RequestInv' /\ HostInv'
<1>1. UNCHANGED <<cur_vue_state, cur_command, left, pos, selected, bulk_reset, got, pc,
                  outFull, outBank, inReady, inBank, outStall>>
  BY DEF Begin, SeeStall, Abort, Open, Settle, AskHeader, firmware, banks
<1>2. /\ Pending' <=> Pending
      /\ Packet' = Packet /\ Chunk' = Chunk
      /\ LastChunk' <=> LastChunk
  BY <1>1 DEF Pending, Packet, Chunk, LastChunk
<1>3. \A c : Fresh(c)' <=> Fresh(c)
  BY <1>1, <1>2 DEF Fresh
<1>4. PacketInv'
  BY <1>1, <1>2 DEF OrderInv, PacketInv
<1>5. Between' <=> Between
  BY <1>1, <1>2, <1>3 DEF Between
<1>6. CASE Begin
  <2>1. host = "ready" /\ host' = "command" /\ hpos' = 0 /\ UNCHANGED setup
    BY <1>6 DEF Begin
  <2>2. RequestInv'
    BY <1>1, <2>1 DEF OrderInv, RequestInv
  <2>3. HostInv'
    BY <1>5, <2>1 DEF OrderInv, HostInv
  <2> QED
    BY <1>4, <2>2, <2>3
<1>7. CASE SeeStall
  <2>1. /\ host \in {"command", "writing"} /\ outStall /\ setup' = "CLEAR_HALT"
        /\ host' = "clearing" /\ ~bulk_reset
    BY <1>7 DEF SeeStall, OrderInv, RequestInv
  <2>2. cur_vue_state = "IDLE" /\ inBank = <<>>
    BY <2>1 DEF OrderInv, PacketInv, HostInv, Between, Writing
  <2>3. RequestInv' /\ HostInv'
    BY <1>1, <2>1, <2>2 DEF RequestInv, HostInv, Clearing
  <2> QED
    BY <1>4, <2>3
<1>8. CASE Abort \/ Open
  <2>1. /\ ~bulk_reset
        /\ \/ setup' = "RESET_ALL" /\ host' = "resetting"
           \/ setup' = "SET_CONFIGURATION" /\ host' = "opening" /\ Opens # "never"
    BY <1>8 DEF Abort, Open, OrderInv, RequestInv
  <2>2. RequestInv' /\ HostInv'
    BY <1>1, <2>1 DEF RequestInv, HostInv
  <2> QED
    BY <1>4, <2>2
<1>9. CASE Settle
  <2>1. host = "settle" /\ ~bulk_reset /\ host' = "ready" /\ UNCHANGED <<setup, hcmd, hpos>>
    BY <1>9 DEF Settle
  <2>2. RequestInv' /\ HostInv'
    BY <1>1, <1>5, <2>1 DEF OrderInv, RequestInv, HostInv
  <2> QED
    BY <1>4, <2>2
<1>10. CASE AskHeader
  <2>1. setup' = "READ_HEADER" /\ UNCHANGED <<host, hcmd, hpos>>
    BY <1>10 DEF AskHeader
  <2>2. RequestInv'
    BY <1>1, <2>1 DEF OrderInv, RequestInv
  <2>3. Writing => Writing'
    BY <1>1, <1>2, <1>3, <2>1 DEF Writing, Lost, Own
  <2>4. Reading => Reading'
    BY <1>1, <1>2, <1>3, <2>1 DEF Reading, Lost, Own
  <2>5. Clearing => Clearing'
    BY <1>1 DEF Clearing
  <2> QED
    BY <1>1, <1>4, <1>5, <2>1, <2>2, <2>3, <2>4, <2>5, HostKept DEF OrderInv
<1> QED
  BY <1>6, <1>7, <1>8, <1>9, <1>10

\* Where the device can be when the host is able to send: its OUT half
\* neither holds a packet nor works on one.
LEMMA SendReady ==
    ASSUME OrderInv, Send
    PROVE  /\ pc \notin {"stream", "stream_usb", "exec", "clear", "unstall"}
           /\ ~outFull /\ ~outStall /\ ~Pending /\ got = <<>>
           /\ outFull' = TRUE
           /\ UNCHANGED <<cur_vue_state, cur_command, left, pos, selected, bulk_reset, got, pc,
                          inReady, inBank, outStall, setup, hcmd>>
<1>1. /\ ~outFull /\ ~outStall /\ outFull' = TRUE /\ host \in {"command", "writing"}
      /\ UNCHANGED <<cur_vue_state, cur_command, left, pos, selected, bulk_reset, got, pc,
                     inReady, inBank, outStall, setup, hcmd>>
  BY DEF Send, firmware
<1>2. pc \notin {"stream", "stream_usb", "exec", "clear"} /\ got = <<>> /\ ~Pending
  BY <1>1 DEF OrderInv, PacketInv, Pending
<1>3. pc # "unstall"
  BY <1>1 DEF OrderInv, RequestInv, TypeInv, IInv, ResetInv
<1> QED
  BY <1>1, <1>2, <1>3

\* The packet of a command is the command.
LEMMA SendCommand ==
    ASSUME Orderly, OrderInv, Send, host = "command"
    PROVE  PacketInv' /\ RequestInv' /\ HostInv'
<1>0. /\ pc \notin {"stream", "stream_usb", "exec", "clear", "unstall"}
      /\ ~outFull /\ ~outStall /\ ~Pending /\ got = <<>>
      /\ outFull' = TRUE
      /\ UNCHANGED <<cur_vue_state, cur_command, left, pos, selected, bulk_reset, got, pc,
                     inReady, inBank, outStall, setup, hcmd>>
  BY SendReady
<1>1. hpos = 0 /\ Between /\ hcmd \in Commands
  BY DEF OrderInv, HostInv, TypeInv, BytesInv
<1>2. cur_vue_state = "IDLE" /\ inBank = <<>>
  <2>1. cur_vue_state \in {"IDLE", "READ", "WRITE"}
    BY DEF OrderInv, TypeInv, IInv, Types, States
  <2> QED
    BY <1>1, <2>1, <1>0 DEF Between
<1>3. /\ CmdSize \in Nat /\ EPSize \in Nat /\ CmdSize > 0 /\ CmdSize <= EPSize
      /\ hcmd.length \in Nat /\ hcmd.operation \in {"READ", "WRITE"}
  <2>1. hcmd.length \in Nat /\ hcmd.operation \in {"READ", "WRITE"}
    BY <1>1, SizeAssumption DEF Commands
  <2>2. CmdSize \in Nat /\ EPSize \in Nat /\ CmdSize > 0 /\ CmdSize <= EPSize
    BY SizeAssumption
  <2> QED
    BY <2>1, <2>2
<1>4. 0 % EPSize = 0 /\ Smaller(CmdSize - 0, EPSize - (0 % EPSize)) = CmdSize
  <2>1. 0 % EPSize = 0
    BY <1>3
  <2> QED
    BY <1>3, <2>1 DEF Smaller
<1>5. /\ outBank' = SubSeq(CmdBytes(hcmd), 0 + 1, 0 + CmdSize)
      /\ hpos' = 0
      /\ host' = IF hcmd.length = 0 THEN "ready"
                 ELSE IF hcmd.operation = "READ" THEN "reading" ELSE "writing"
  BY <1>1, <1>3, <1>4 DEF Send, Orderly
<1>6. outBank' = CmdBytes(hcmd)
  <2>1. CmdBytes(hcmd) \in Seq(Bytes) /\ Len(CmdBytes(hcmd)) = CmdSize
    BY <1>1, CommandBytes
  <2> QED
    BY <1>3, <1>5, <2>1, SubSeqFull
<1>7. /\ Pending' <=> pc # "stall"
      /\ Packet' = CmdBytes(hcmd)
  BY <1>6, <1>0 DEF Pending, Packet
<1>8. \A d \in Commands : Fresh(d)' => d = hcmd
  BY <1>7, CommandBytes DEF Fresh
<1>9. Lost' \/ Fresh(hcmd)'
  BY <1>2, <1>7, <1>0 DEF Lost, Fresh
<1>10. Own(outBank', hcmd')
  BY <1>6, CommandBytes, <1>0
<1>11. PacketInv'
  BY <1>1, <1>2, <1>7, <1>0 DEF OrderInv, PacketInv
<1>12. RequestInv'
  BY <1>0 DEF OrderInv, RequestInv
<1>13. CASE hcmd.length = 0
  <2>1. Between'
    BY <1>2, <1>8, <1>13, <1>0 DEF Between
  <2> QED
    BY <1>5, <1>11, <1>12, <1>13, <2>1 DEF HostInv
<1>14. CASE hcmd.length # 0 /\ hcmd.operation = "READ"
  <2>1. inBank' = DataBytes(hcmd', hpos', Len(inBank'))
    <3>1. inBank' = <<>> /\ Len(<<>>) = 0
      BY <1>2, <1>0, EmptySeq
    <3> QED
      BY <3>1, ChunkBytes
  <2>2. Reading'
    BY <1>2, <1>3, <1>5, <1>9, <1>10, <1>14, <2>1, <1>0 DEF Reading
  <2> QED
    BY <1>5, <1>11, <1>12, <1>14, <2>2 DEF HostInv
<1>15. CASE hcmd.length # 0 /\ hcmd.operation = "WRITE"
  <2>1. Writing'
    BY <1>2, <1>3, <1>4, <1>5, <1>9, <1>10, <1>15, <1>0 DEF Writing
  <2> QED
    BY <1>5, <1>11, <1>12, <1>15, <2>1 DEF HostInv
<1> QED
  BY <1>3, <1>13, <1>14, <1>15

\* A packet of data is the chunk that is due, or is lost with its command.
LEMMA SendData ==
    ASSUME Orderly, OrderInv, Send, host = "writing"
    PROVE  PacketInv' /\ RequestInv' /\ HostInv'
<1>0. /\ pc \notin {"stream", "stream_usb", "exec", "clear", "unstall"}
      /\ ~outFull /\ ~outStall /\ ~Pending /\ got = <<>>
      /\ outFull' = TRUE
      /\ UNCHANGED <<cur_vue_state, cur_command, left, pos, selected, bulk_reset, got, pc,
                     inReady, inBank, outStall, setup, hcmd>>
  BY SendReady
<1> DEFINE n == Smaller(hcmd.length - hpos, EPSize)
<1>1. /\ Writing /\ hcmd \in Commands /\ hpos \in Nat /\ hcmd.length \in Nat
      /\ EPSize \in Nat /\ EPSize > 0
  <2>1. Writing /\ hcmd \in Commands /\ hpos \in Nat
    BY DEF OrderInv, HostInv, TypeInv, BytesInv
  <2>2. hcmd.length \in Nat
    BY <2>1, SizeAssumption DEF Commands
  <2>3. EPSize \in Nat /\ EPSize > 0
    BY SizeAssumption
  <2> QED
    BY <2>1, <2>2, <2>3
<1>2. hpos < hcmd.length /\ hpos % EPSize = 0 /\ inBank = <<>>
  BY <1>1 DEF Writing
<1>3. /\ n \in Nat /\ n > 0 /\ hpos + n <= hcmd.length
      /\ hpos + n < hcmd.length => n = EPSize
  BY <1>1, <1>2 DEF Smaller
<1>4. n = Smaller(hcmd.length - hpos, EPSize - (hpos % EPSize))
  BY <1>1, <1>2
<1>5. /\ outBank' = DataBytes(hcmd, hpos, n)
      /\ hpos + n < hcmd.length => hpos' = hpos + n /\ host' = "writing"
      /\ ~(hpos + n < hcmd.length) => hpos' = 0 /\ host' = "ready"
  BY <1>4 DEF Send, Orderly
<1> HIDE DEF n
<1>6. Own(outBank', hcmd')
  BY <1>3, <1>5, ChunkBytes, <1>0
<1>7. hpos + n < hcmd.length => hpos' % EPSize = 0
  BY <1>1, <1>2, <1>3, <1>5, NextPacket
<1>8. RequestInv'
  BY <1>0 DEF OrderInv, RequestInv
<1>9. CASE Lost
  <2>1. pc = "stall" /\ cur_vue_state = "IDLE"
    BY <1>9, <1>0 DEF Lost
  <2>2. ~Pending' /\ Lost' /\ \A d : ~Fresh(d)'
    BY <2>1, <1>0 DEF Pending, Lost, Fresh
  <2>3. PacketInv'
    BY <2>1, <2>2, <1>0 DEF OrderInv, PacketInv
  <2>4. CASE hpos + n < hcmd.length
    <3>1. Writing'
      BY <1>2, <1>5, <1>6, <1>7, <2>2, <2>4, <1>0 DEF Writing
    <3> QED
      BY <1>5, <1>8, <2>3, <2>4, <3>1 DEF HostInv
  <2>5. CASE ~(hpos + n < hcmd.length)
    <3>1. Between'
      BY <1>2, <2>1, <2>2, <1>0 DEF Between
    <3> QED
      BY <1>5, <1>8, <2>3, <2>5, <3>1 DEF HostInv
  <2> QED
    BY <2>4, <2>5
<1>10. CASE ~Lost
  <2>1. cur_vue_state = "WRITE" /\ cur_command = hcmd /\ hpos = pos
    BY <1>1, <1>10, <1>0 DEF Writing, Fresh
  <2>2. pos + left = hcmd.length /\ left \in Nat /\ pos \in Nat /\ pc # "stall"
    BY <2>1 DEF OrderInv, PacketInv, TypeInv, IInv, Types, LengthAddsUp
  <2>3. n = Chunk /\ (LastChunk <=> ~(hpos + n < hcmd.length))
    <3>1. hcmd.length - hpos = left
      BY <1>1, <2>1, <2>2
    <3>2. n = Chunk
      BY <3>1 DEF n, Chunk
    <3> QED
      BY <1>1, <1>3, <2>1, <2>2, <3>2 DEF LastChunk
  <2>4. /\ Pending' /\ Packet' = DataBytes(cur_command, pos, Chunk)
        /\ Chunk' = Chunk
        /\ LastChunk' <=> LastChunk
    BY <1>5, <2>1, <2>2, <2>3, <1>0 DEF Pending, Packet, Chunk, LastChunk
  <2>5. PacketInv'
    BY <2>1, <2>2, <2>4, <1>0 DEF OrderInv, PacketInv
  <2>6. CASE hpos + n < hcmd.length
    <3>1. Writing'
      BY <1>2, <1>5, <1>6, <1>7, <2>1, <2>3, <2>4, <2>6, <1>0 DEF Writing
    <3> QED
      BY <1>5, <1>8, <2>5, <2>6, <3>1 DEF HostInv
  <2>7. CASE ~(hpos + n < hcmd.length)
    <3>1. Between'
      BY <1>2, <2>1, <2>3, <2>4, <2>7, <1>0 DEF Between, Fresh
    <3> QED
      BY <1>5, <1>8, <2>5, <2>7, <3>1 DEF HostInv
  <2> QED
    BY <2>6, <2>7
<1> QED
  BY <1>9, <1>10

\* The host takes what it waits for; with the last byte the firmware is
\* done, too.
LEMMA ReceiveOrder ==
    ASSUME OrderInv, Receive
    PROVE  PacketInv' /\ RequestInv' /\ HostInv'
<1>1. /\ host = "reading" /\ inBank' = <<>>
      /\ UNCHANGED <<cur_vue_state, cur_command, left, pos, selected, bulk_reset, got, pc,
                     outFull, outBank, outStall, setup, hcmd>>
      /\ hpos + Len(inBank) < hcmd.length => hpos' = hpos + Len(inBank) /\ host' = "reading"
      /\ ~(hpos + Len(inBank) < hcmd.length) => hpos' = 0 /\ host' = "ready"
  BY DEF Receive, EmptyIN, firmware
<1>2. Reading /\ hcmd \in Commands /\ hpos \in Nat /\ inBank \in Seq(Bytes) /\ ~bulk_reset
  BY <1>1 DEF OrderInv, HostInv, TypeInv, BytesInv, RequestInv
<1>3. Len(inBank) \in Nat /\ Len(<<>>) = 0 /\ hcmd.length \in Nat
  <2>1. hcmd.length \in Nat
    BY <1>2, SizeAssumption DEF Commands
  <2> QED
    BY <1>2, <2>1, LenProperties, EmptySeq
<1>4. /\ Pending' <=> Pending
      /\ Packet' = Packet /\ Chunk' = Chunk
      /\ LastChunk' <=> LastChunk
  BY <1>1 DEF Pending, Packet, Chunk, LastChunk
<1>5. \A c : Fresh(c)' <=> Fresh(c)
  BY <1>1, <1>4 DEF Fresh
<1>6. PacketInv'
  BY <1>1, <1>4 DEF OrderInv, PacketInv
<1>7. RequestInv'
  BY <1>1, <1>2 DEF OrderInv, RequestInv
<1>8. CASE hpos + Len(inBank) < hcmd.length
  <2>1. inBank' = DataBytes(hcmd', hpos', Len(inBank')) /\ Len(inBank') = 0
    BY <1>1, <1>3, ChunkBytes
  <2>2. hpos' < hcmd'.length /\ Own(outBank', hcmd')
    BY <1>1, <1>2, <1>8 DEF Reading, Own
  <2>3. ASSUME Lost, inBank = <<>>
        PROVE  Reading'
    BY <1>1, <2>1, <2>2, <2>3 DEF Reading, Lost
  <2>4. ASSUME Fresh(hcmd), hcmd.operation = "READ", hpos = 0, inBank = <<>>
        PROVE  Reading'
    <3>1. hpos' = 0 /\ Fresh(hcmd)'
      BY <1>1, <1>3, <1>4, <1>8, <2>4 DEF Fresh
    <3> QED
      BY <1>1, <2>1, <2>2, <2>4, <3>1 DEF Reading
  <2>5. ASSUME cur_vue_state = "READ", cur_command = hcmd, pos = hpos + Len(inBank)
        PROVE  Reading'
    <3>1. pos' = hpos' + Len(inBank')
      BY <1>1, <1>2, <1>3, <1>8, <2>1, <2>5
    <3> QED
      BY <1>1, <2>1, <2>2, <2>5, <3>1 DEF Reading
  <2>6. Reading'
    BY <1>2, <1>8, <2>3, <2>4, <2>5, <1>3 DEF Reading
  <2> QED
    BY <1>1, <1>6, <1>7, <1>8, <2>6 DEF HostInv
<1>9. CASE ~(hpos + Len(inBank) < hcmd.length)
  <2>1. inBank # <<>>
    BY <1>2, <1>3, <1>9 DEF Reading
  <2>2. ~(cur_vue_state = "READ" /\ cur_command = hcmd /\ pos = hpos + Len(inBank))
    BY <1>2, <1>3, <1>9 DEF OrderInv, TypeInv, IInv, Types, LengthAddsUp
  <2>3. cur_vue_state = "IDLE" /\ ~Pending
    BY <1>2, <2>1, <2>2 DEF Reading
  <2>4. Between'
    BY <1>1, <1>4, <2>3 DEF Between, Fresh
  <2> QED
    BY <1>1, <1>6, <1>7, <1>9, <2>4 DEF HostInv
<1> QED
  BY <1>8, <1>9

-----------------------------------------------------------------------------

LEMMA InitOrder == Init => OrderInv
<1> SUFFICES ASSUME Init PROVE OrderInv
  OBVIOUS
<1>1. TypeInv
  BY InitTypes
<1>2. PacketInv /\ RequestInv /\ HostInv
  BY DEF Init, PacketInv, Pending, RequestInv, HostInv
<1> QED
  BY <1>1, <1>2 DEF OrderInv

LEMMA StepOrder ==
    ASSUME Orderly, OrderInv, [Next]_vars
    PROVE  OrderInv'
<1>1. TypeInv'
  BY StepTypes DEF OrderInv
<1>2. PacketInv' /\ RequestInv' /\ HostInv'
  <2>1. CASE Device
    BY <2>1, QuietSteps, NeverSteps, StreamOrder, StallOrder, ClearOrder, CommandOrder, WriteOrder,
       ReadOrder, ResetOrder, RequestOrder DEF Device
  <2>2. CASE Send
    BY <2>2, SendCommand, SendData DEF Send
  <2>3. CASE Begin \/ SeeStall \/ Abort \/ Open \/ Settle \/ AskHeader
    BY <2>3, AskOrder
  <2>4. CASE Receive
    BY <2>4, ReceiveOrder
  <2>5. ~Junk
    BY DEF Junk, Orderly
  <2>6. CASE UNCHANGED vars
    <3>1. UNCHANGED <<cur_vue_state, cur_command, left, pos, selected, bulk_reset, got, pc,
                      outFull, outBank, inReady, outStall, inBank, setup, host, hcmd, hpos>>
      BY <2>6 DEF vars, firmware, banks, hostVars
    <3>2. /\ Pending' <=> Pending
          /\ Packet' = Packet /\ Chunk' = Chunk
          /\ LastChunk' <=> LastChunk
      BY <3>1 DEF Pending, Packet, Chunk, LastChunk
    <3>3. \A c : Fresh(c)' <=> Fresh(c)
      BY <3>1, <3>2 DEF Fresh
    <3>4. PacketInv' /\ RequestInv'
      BY <3>1, <3>2 DEF OrderInv, PacketInv, RequestInv
    <3>5. /\ Between => Between'
          /\ Clearing => Clearing'
      BY <3>1, <3>2, <3>3 DEF Between, Clearing
    <3>6. Writing => Writing'
      BY <3>1, <3>2, <3>3 DEF Writing, Lost, Own
    <3>7. Reading => Reading'
      BY <3>1, <3>2, <3>3 DEF Reading, Lost, Own
    <3> QED
      BY <3>1, <3>4, <3>5, <3>6, <3>7, HostKept DEF OrderInv
  <2> QED
    BY <2>1, <2>2, <2>3, <2>4, <2>5, <2>6 DEF Next, Host
<1> QED
  BY <1>1, <1>2 DEF OrderInv

-----------------------------------------------------------------------------

\* VUE_Command_Task decodes the bytes of a command, whole and in its place,
\* and never a chunk of data or the rest of one (VUEEvents.c:125).
THEOREM CommandsFramed == ASSUME Orderly PROVE Spec => []CommandFraming
<1>1. OrderInv => CommandFraming
  BY DEF OrderInv, PacketInv, Pending, Packet, CommandFraming
<1> QED
  BY <1>1, InitOrder, StepOrder, PTL DEF Spec

\* VUE_BulkWrite_Task writes to the cartridge the bytes the host sent for
\* these words (VUEEvents.c:224).
THEOREM WritesInOrder == ASSUME Orderly PROVE Spec => []WriteInOrder
<1>1. OrderInv => WriteInOrder
  BY DEF OrderInv, PacketInv, Pending, Packet, WriteInOrder
<1> QED
  BY <1>1, InitOrder, StepOrder, PTL DEF Spec

\* A host that reads is sent the next bytes of its transfer and no byte too
\* many, however its packets and the chunks of VUE_BulkRead_Task interleave.
THEOREM ReadsInOrder == ASSUME Orderly PROVE Spec => []ReadInOrder
<1>1. ASSUME OrderInv, host = "reading"
      PROVE  inBank = DataBytes(hcmd, hpos, Len(inBank)) /\ hpos + Len(inBank) <= hcmd.length
  <2>1. Reading /\ hcmd \in Commands /\ hpos \in Nat /\ inBank \in Seq(Bytes)
    BY <1>1 DEF OrderInv, HostInv, TypeInv, BytesInv
  <2>2. Len(inBank) \in Nat /\ Len(<<>>) = 0
    BY <2>1, LenProperties, EmptySeq
  <2>3. hcmd.length \in Nat
    BY <2>1, SizeAssumption DEF Commands
  <2>4. CASE inBank = <<>>
    BY <2>1, <2>2, <2>3, <2>4 DEF Reading
  <2>5. CASE cur_vue_state = "READ" /\ cur_command = hcmd /\ pos = hpos + Len(inBank)
    <3>1. left \in Nat /\ pos + left = hcmd.length /\ pos \in Nat
      BY <1>1, <2>5 DEF OrderInv, TypeInv, IInv, Types, LengthAddsUp
    <3> QED
      BY <2>1, <2>2, <2>3, <2>5, <3>1 DEF Reading
  <2> QED
    BY <2>1, <2>2, <2>3, <2>4, <2>5 DEF Reading
<1>2. OrderInv => ReadInOrder
  BY <1>1 DEF ReadInOrder
<1> QED
  BY <1>2, InitOrder, StepOrder, PTL DEF Spec

\* A transfer starts with nothing of the one before in a bank, a buffer or
\* the state machine, whether that one ended, was aborted, was stalled or
\* lost its host.
THEOREM NothingIsLeftOver == ASSUME Orderly PROVE Spec => []NothingLeftOver
<1>1. ASSUME OrderInv, host \in {"writing", "reading"}
      PROVE  /\ \A q \in {got, outBank, inBank} : \A j \in 1 .. Len(q) : q[j][2] = hcmd
             /\ cur_vue_state # "IDLE" => cur_command = hcmd
  <2>1. host = "writing" => Writing
    BY <1>1 DEF OrderInv, HostInv
  <2>2. host = "reading" => Reading
    BY <1>1 DEF OrderInv, HostInv
  <2>3. Own(outBank, hcmd) /\ inBank = DataBytes(hcmd, hpos, Len(inBank))
    BY <1>1, <2>1, <2>2, ChunkBytes, EmptySeq DEF Writing, Reading
  <2>4. Own(inBank, hcmd)
    <3>1. Len(inBank) \in Nat
      BY <1>1, LenProperties DEF OrderInv, TypeInv, BytesInv
    <3> QED
      BY <2>3, <3>1, ChunkBytes
  <2>5. Own(got, hcmd)
    <3>1. CASE pc # "exec"
      BY <1>1, <3>1, EmptySeq DEF OrderInv, PacketInv, Own
    <3>2. CASE pc = "exec" /\ cur_vue_state = "IDLE"
      <4>1. ~Lost /\ Pending
        BY <1>1, <3>2 DEF OrderInv, PacketInv, Lost, Pending
      <4>2. Fresh(hcmd)
        BY <1>1, <2>1, <2>2, <3>2, <4>1 DEF Writing, Reading
      <4> QED
        BY <3>2, <4>2, CommandBytes DEF Fresh, Packet
    <3>3. CASE pc = "exec" /\ cur_vue_state # "IDLE"
      <4>1. cur_vue_state = "WRITE" /\ got = DataBytes(cur_command, pos, Chunk)
        BY <1>1, <3>3 DEF OrderInv, PacketInv, Pending, Packet
      <4>2. cur_command = hcmd
        BY <1>1, <2>1, <2>2, <3>3 DEF Writing, Reading, Lost, Fresh
      <4>3. Chunk \in Nat
        BY <1>1, <4>1, ChunkFits DEF OrderInv, TypeInv, IInv, Types, LengthAddsUp
      <4> QED
        BY <4>1, <4>2, <4>3, ChunkBytes
    <3> QED
      BY <3>1, <3>2, <3>3
  <2>6. cur_vue_state # "IDLE" => cur_command = hcmd
    BY <1>1, <2>1, <2>2 DEF Writing, Reading, Lost, Fresh
  <2> QED
    BY <2>3, <2>4, <2>5, <2>6 DEF Own
<1>2. OrderInv => ~(host = "command" /\ hpos > 0)
  BY DEF OrderInv, HostInv
<1>3. OrderInv => NothingLeftOver
  BY <1>1, <1>2 DEF NothingLeftOver
<1> QED
  BY <1>3, InitOrder, StepOrder, PTL DEF Spec

\* When the host is done and its packets are taken, the firmware is done,
\* too, and has put the lamp out and the chip select back.
THEOREM IdleWhenDone == ASSUME Orderly PROVE Spec => []IdleTogether
<1>1. ASSUME OrderInv, host = "ready", ~outFull
      PROVE  cur_vue_state = "IDLE" /\ ~selected
  <2>1. Between /\ ~Pending
    BY <1>1 DEF OrderInv, HostInv, Pending
  <2>2. cur_vue_state = "IDLE"
    BY <1>1, <2>1 DEF Between, OrderInv, TypeInv, IInv, Types, States
  <2> QED
    BY <1>1, <2>2 DEF OrderInv, PacketInv
<1>2. OrderInv => IdleTogether
  BY <1>1 DEF IdleTogether
<1> QED
  BY <1>2, InitOrder, StepOrder, PTL DEF Spec

=============================================================================
