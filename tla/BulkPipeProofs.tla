---------------------------- MODULE BulkPipeProofs ----------------------------
(***************************************************************************)
(* A host that clears the halt of both pipes after REQ_RESET_ALL, one      *)
(* packet after the other: the reset is over and nothing stale is left     *)
(* when it uses them again, and both sides agree on what is acknowledged,  *)
(* whenever else it clears a pipe.  If it does that between transfers only *)
(* no packet is lost or taken twice.                                       *)
(***************************************************************************)
EXTENDS BulkPipe, TLAPS

\* The assumption of the theorems on the host.
ClearsBoth == Clears = Pipes

Resetting == {"flush_out", "flush_in", "reset_out", "reset_in"}
Taking == {"stream", "wait", "exec"}

\* The toggles differ exactly while the sender has no ACK of its last packet.
InStep(p) == hst[p] = dev[p] <=> ~retry[p]

\* A pipe is in step but while the host has to clear it; one that is cleared
\* before the reset is performed has carried nothing since.
PipeInv(p) ==
    /\ p \notin todo /\ phase # "reset" => InStep(p) /\ bank[p] # "stale"
    /\ p \notin todo /\ bulk_reset => hst[p] = 0 /\ dev[p] = 0

\* A reset is performed between the host's first CLEAR_FEATURE, at the
\* latest, and its second: the main loop serves one at a time.
ResetInv ==
    /\ phase = "clear" <=> todo # {}
    /\ setup \in Pipes => setup \in todo
    /\ setup = "RESET_ALL" <=> phase = "reset"
    /\ pc \in {"out", "stall"} \cup Taking \cup Resetting => (bulk_reset <=> pc \in Resetting)
    /\ bulk_reset => phase = "clear"
    /\ bulk_reset /\ pc \notin Resetting => todo = Pipes

IInv ==
    /\ TypeOK
    /\ ResetInv
    /\ \A p \in Pipes : PipeInv(p)

-----------------------------------------------------------------------------
(* Any host that clears both pipes.                                        *)

LEMMA InitInv == Init => IInv
<1> SUFFICES ASSUME Init PROVE IInv
  OBVIOUS
<1>1. TypeOK
  <2>1. /\ bank \in [Pipes -> {"none", "packet", "stale"}]
        /\ dev \in [Pipes -> {0, 1}] /\ hst \in [Pipes -> {0, 1}]
        /\ retry \in [Pipes -> BOOLEAN] /\ ahead \in [Pipes -> Int]
    BY DEF Init
  <2> QED
    BY <2>1, Zenon DEF Init, TypeOK
<1>2. ResetInv
  BY DEF Init, ResetInv, Taking, Resetting, Pipes
<1>3. ASSUME NEW p \in Pipes PROVE PipeInv(p)
  BY <1>3 DEF Init, PipeInv, InStep
<1> QED
  BY <1>1, <1>2, <1>3 DEF IInv

\* What ResetInv says of the state between two steps of the device.
Between ==
    /\ phase = "clear" <=> todo # {}
    /\ setup \in Pipes => setup \in todo
    /\ setup = "RESET_ALL" <=> phase = "reset"
    /\ bulk_reset => phase = "clear"

\* The type invariant without pc.
TypesButPC ==
    /\ {bulk_reset, reading, stall, refused} \subseteq BOOLEAN
    /\ bank \in [Pipes -> {"none", "packet", "stale"}]
    /\ setup \in Pipes \cup {"none", "RESET_ALL"}
    /\ dev \in [Pipes -> {0, 1}] /\ hst \in [Pipes -> {0, 1}]
    /\ retry \in [Pipes -> BOOLEAN]
    /\ ahead \in [Pipes -> Int]
    /\ phase \in {"use", "reset", "clear"}
    /\ todo \subseteq Pipes

\* Emptying a bank keeps the types of what it changes.
LEMMA DropTypes ==
    ASSUME TypeOK, NEW p \in Pipes, Drop(p)
    PROVE  /\ bank' \in [Pipes -> {"none", "packet", "stale"}] /\ bank'[p] = "none"
           /\ ahead' \in [Pipes -> Int]
           /\ \A q \in Pipes : q # p => bank'[q] = bank[q] /\ ahead'[q] = ahead[q]
           /\ ahead'[p] = IF bank[p] = "packet" THEN ahead[p] - 1 ELSE ahead[p]
BY DEF Drop, Empty, TypeOK

\* A control request keeps the invariant but for pc; it asks for a reset only
\* with both pipes to clear.
LEMMA USBTaskInv ==
    ASSUME ClearsBoth, IInv, USBTask, pc \in {"usb", "stream"}
    PROVE  /\ TypesButPC' /\ Between'
           /\ \A p \in Pipes : PipeInv(p)'
           /\ bulk_reset' /\ ~bulk_reset => todo' = Pipes
<1> USE DEF IInv
<1>1. CASE setup = "none"
  <2>1. setup' = "none" /\ UNCHANGED <<firmware, bank, toggles, host, history>>
    BY <1>1 DEF USBTask, Pipes
  <2>2. TypesButPC'
    BY <2>1 DEF TypeOK, TypesButPC, firmware, toggles, host, history
  <2>3. Between'
    BY <1>1, <2>1 DEF ResetInv, Between, Pipes, firmware, host
  <2>4. ASSUME NEW p \in Pipes PROVE PipeInv(p)'
    BY <2>1 DEF PipeInv, InStep, firmware, toggles, host
  <2> QED
    BY <2>1, <2>2, <2>3, <2>4 DEF firmware
<1>2. CASE setup = "RESET_ALL"
  <2>1. /\ bulk_reset' = TRUE /\ todo' = Pipes /\ phase' = "clear" /\ setup' = "none"
        /\ UNCHANGED <<reading, stall, bank, dev, hst, retry, ahead, refused>>
    BY <1>2 DEF USBTask, ClearsBoth, Pipes, toggles, history
  <2>2. TypesButPC' /\ Between'
    BY <2>1 DEF TypeOK, TypesButPC, Between, Pipes
  <2>3. ASSUME NEW p \in Pipes PROVE PipeInv(p)'
    BY <2>1 DEF PipeInv
  <2> QED
    BY <2>1, <2>2, <2>3
<1>3. CASE setup \in Pipes
  <2>1. setup' = "none" /\ ClearHalt(setup)
    BY <1>3 DEF USBTask, Pipes
  <2>2. TypesButPC'
    BY <1>3, <2>1, DropTypes DEF ClearHalt, ResetDataToggle, TypeOK, TypesButPC
  <2>3. Between'
    <3>1. phase = "clear" /\ (phase' = "clear" <=> todo' # {}) /\ phase' # "reset"
      BY <1>3, <2>1 DEF ClearHalt, ResetInv
    <3>2. bulk_reset => todo' # {}
      BY <1>3, <2>1 DEF ClearHalt, ResetInv, Taking, Resetting, Pipes
    <3> QED
      BY <2>1, <3>1, <3>2 DEF ClearHalt, Between, Pipes
  <2>4. ASSUME NEW p \in Pipes PROVE PipeInv(p)'
    <3>1. PipeInv(p) /\ phase = "clear"
      BY <1>3 DEF ResetInv
    <3>2. CASE p = setup
      <4>1. hst'[p] = 0 /\ dev'[p] = 0 /\ retry'[p] = FALSE /\ bank'[p] = "none"
        BY <1>3, <2>1, <3>2, DropTypes DEF ClearHalt, ResetDataToggle, TypeOK
      <4> QED
        BY <4>1 DEF PipeInv, InStep
    <3>3. CASE p # setup
      <4>1. /\ bank'[p] = bank[p] /\ hst'[p] = hst[p] /\ dev'[p] = dev[p] /\ retry'[p] = retry[p]
            /\ bulk_reset' = bulk_reset /\ (p \in todo' <=> p \in todo)
        BY <1>3, <2>1, <2>4, <3>3, DropTypes DEF ClearHalt, ResetDataToggle, TypeOK
      <4> QED
        BY <3>1, <4>1 DEF PipeInv, InStep
    <3> QED
      BY <3>2, <3>3
  <2> QED
    BY <2>1, <2>2, <2>3, <2>4 DEF ClearHalt
<1> QED
  BY <1>1, <1>2, <1>3 DEF USBTask

\* The pieces make up the invariant again.
LEMMA Assemble ==
    ASSUME TypesButPC', Between', \A p \in Pipes : PipeInv(p)',
           pc' \in {"usb", "out", "wait", "clear", "in"} \cup Resetting,
           pc' \in {"out", "wait"} => ~bulk_reset',
           pc' \in Resetting => bulk_reset',
           bulk_reset' /\ pc' \notin Resetting => todo' = Pipes
    PROVE  IInv'
<1>1. TypeOK'
  BY DEF TypesButPC, TypeOK, Resetting
<1>2. ResetInv'
  BY DEF Between, ResetInv, Taking, Resetting
<1> QED
  BY <1>1, <1>2 DEF IInv

\* Steps of the device that leave toggles, host and requests alone.
Quiet ==
    \/ NoOUT \/ TakeOUT \/ StreamTimeout \/ Execute \/ Refuse \/ StallOUT \/ ClearOUT
    \/ ServeIN \/ LeaveIN \/ FlushOUT \/ FlushIN

LEMMA QuietLeaves ==
    ASSUME TypeOK, Quiet
    PROVE  /\ UNCHANGED <<bulk_reset, setup, dev, hst, retry, phase, todo>>
           /\ {reading', stall', refused'} \subseteq BOOLEAN
           /\ ahead' \in [Pipes -> Int]
           /\ bank' \in [Pipes -> {"none", "packet", "stale"}]
           /\ \A p \in Pipes : bank'[p] = "stale" => bank[p] = "stale" \/ phase = "reset"
<1> USE DEF firmware, toggles, host, history
<1>1. CASE NoOUT \/ TakeOUT \/ StreamTimeout \/ Execute \/ Refuse
  BY <1>1 DEF NoOUT, TakeOUT, StreamTimeout, Execute, Refuse, Empty, TypeOK
<1>2. CASE StallOUT \/ ClearOUT \/ LeaveIN
  BY <1>2 DEF StallOUT, ClearOUT, LeaveIN, Empty, TypeOK
<1>3. CASE ServeIN
  <2>1. bank' \in [Pipes -> {"none", "packet", "stale"}]
    BY <1>3 DEF ServeIN, TypeOK, Pipes
  <2>2. reading' \in BOOLEAN
    BY <1>3 DEF ServeIN, TypeOK
  <2>3. UNCHANGED <<bulk_reset, stall, setup, dev, hst, retry, phase, todo, ahead, refused>>
    BY <1>3 DEF ServeIN
  <2>4. \A p \in Pipes : bank'[p] = "stale" => bank[p] = "stale" \/ phase = "reset"
    BY <1>3 DEF ServeIN, TypeOK, Pipes
  <2> QED
    BY <2>1, <2>2, <2>3, <2>4 DEF TypeOK
<1>4. CASE FlushOUT
  BY <1>4, DropTypes DEF FlushOUT, TypeOK, Pipes
<1>5. CASE FlushIN
  BY <1>5, DropTypes DEF FlushIN, TypeOK, Pipes
<1> QED
  BY <1>1, <1>2, <1>3, <1>4, <1>5 DEF Quiet

\* The pcs of these steps; none enters or leaves the reset but FlushOUT and
\* FlushIN, which go on with it.
LEMMA QuietGoes ==
    ASSUME TypeOK, Quiet
    PROVE  /\ pc \in {"out", "stall", "clear", "in", "flush_out", "flush_in"} \cup Taking
           /\ pc \in Resetting <=> pc' \in Resetting
           /\ pc' \in {"out", "stall"} \cup Taking => pc \in {"out", "stall"} \cup Taking
           /\ pc' \in {"usb", "out", "stall", "clear", "in"} \cup Taking \cup Resetting
<1>1. CASE NoOUT \/ TakeOUT \/ StreamTimeout \/ Execute \/ Refuse
  BY <1>1 DEF NoOUT, TakeOUT, StreamTimeout, Execute, Refuse, Goto, Taking, Resetting
<1>2. CASE StallOUT \/ ClearOUT \/ ServeIN \/ LeaveIN
  BY <1>2 DEF StallOUT, ClearOUT, ServeIN, LeaveIN, Goto, Taking, Resetting
<1>3. CASE FlushOUT \/ FlushIN
  BY <1>3 DEF FlushOUT, FlushIN, Goto, Taking, Resetting
<1> QED
  BY <1>1, <1>2, <1>3 DEF Quiet

\* A packet on a pipe in step, with its ACK or without, leaves it in step.
LEMMA Transaction ==
    ASSUME TypeOK, NEW p \in Pipes, NEW ack \in BOOLEAN, InStep(p),
           dev' = IF p = "OUT" THEN IF hst[p] = dev[p] THEN Flip(dev, p) ELSE dev
                  ELSE IF ack THEN Flip(dev, p) ELSE dev,
           hst' = IF p = "IN" THEN IF hst[p] = dev[p] THEN Flip(hst, p) ELSE hst
                  ELSE IF ack THEN Flip(hst, p) ELSE hst,
           Count(p, hst[p] = dev[p], ack)
    PROVE  /\ dev' \in [Pipes -> {0, 1}] /\ hst' \in [Pipes -> {0, 1}]
           /\ retry' \in [Pipes -> BOOLEAN] /\ ahead' \in [Pipes -> Int]
           /\ InStep(p)' /\ retry'[p] = ~ack
           /\ ahead'[p] = ahead[p] + (IF retry[p] THEN 0 ELSE 1) - (IF ack THEN 1 ELSE 0)
           /\ \A q \in Pipes : q # p => /\ dev'[q] = dev[q] /\ hst'[q] = hst[q]
                                        /\ retry'[q] = retry[q] /\ ahead'[q] = ahead[q]
<1>1. retry' = [retry EXCEPT ![p] = ~ack]
      /\ ahead' = [ahead EXCEPT ![p] =
                     @ + (IF hst[p] = dev[p] THEN 1 ELSE 0) - (IF ack THEN 1 ELSE 0)]
  BY DEF Count
<1>2. dev' \in [Pipes -> {0, 1}] /\ hst' \in [Pipes -> {0, 1}]
  BY DEF TypeOK, Flip
<1>3. retry' \in [Pipes -> BOOLEAN] /\ retry'[p] = ~ack
  BY <1>1, Zenon DEF TypeOK
<1>4. ahead' \in [Pipes -> Int]
  BY <1>1 DEF TypeOK
<1>5. \A q \in Pipes : q # p => /\ dev'[q] = dev[q] /\ hst'[q] = hst[q]
                                /\ retry'[q] = retry[q] /\ ahead'[q] = ahead[q]
  BY <1>1 DEF TypeOK, Flip
<1>6. ahead'[p] = ahead[p] + (IF retry[p] THEN 0 ELSE 1) - (IF ack THEN 1 ELSE 0)
  BY <1>1 DEF TypeOK, InStep
<1>7. hst'[p] = dev'[p] <=> ack
  BY DEF TypeOK, Flip, Pipes
<1> QED
  BY <1>2, <1>3, <1>4, <1>5, <1>6, <1>7 DEF InStep

\* Both transactions are of that form.
LEMMA SendOUTIs ==
    ASSUME SendOUT
    PROVE  \E ack \in BOOLEAN :
             /\ dev' = IF hst["OUT"] = dev["OUT"] THEN Flip(dev, "OUT") ELSE dev
             /\ hst' = IF ack THEN Flip(hst, "OUT") ELSE hst
             /\ Count("OUT", hst["OUT"] = dev["OUT"], ack)
             /\ bank' = IF hst["OUT"] = dev["OUT"] THEN [bank EXCEPT !["OUT"] = "packet"] ELSE bank
BY DEF SendOUT

LEMMA ReceiveINIs ==
    ASSUME ReceiveIN
    PROVE  \E ack \in BOOLEAN :
             /\ hst' = IF hst["IN"] = dev["IN"] THEN Flip(hst, "IN") ELSE hst
             /\ dev' = IF ack THEN Flip(dev, "IN") ELSE dev
             /\ Count("IN", hst["IN"] = dev["IN"], ack)
             /\ bank' = IF ack THEN [bank EXCEPT !["IN"] = "none"] ELSE bank
BY DEF ReceiveIN

LEMMA StepInv == ClearsBoth /\ IInv /\ [Next]_vars => IInv'
<1> SUFFICES ASSUME ClearsBoth, IInv, [Next]_vars PROVE IInv'
  OBVIOUS
<1> USE DEF IInv
<1>1. CASE MainUSBTask
  <2>1. pc = "usb" /\ USBTask /\ pc' = IF bulk_reset' THEN "flush_out" ELSE "out"
    BY <1>1 DEF MainUSBTask
  <2> QED
    BY <2>1, USBTaskInv, Assemble DEF Resetting, TypesButPC
<1>2. CASE StreamUSBTask
  <2>1. pc = "stream" /\ ~bulk_reset /\ USBTask
    BY <1>2 DEF StreamUSBTask, ResetInv, Taking, Resetting, TypeOK
  <2>2. bulk_reset' => todo' = Pipes
    BY <2>1, USBTaskInv
  <2>3. pc' \in {"wait", "clear"} /\ (bulk_reset' => pc' = "clear")
    BY <1>2 DEF StreamUSBTask
  <2> QED
    BY <2>1, <2>2, <2>3, USBTaskInv, Assemble DEF Resetting
<1>3. CASE Quiet
  <2>1. /\ UNCHANGED <<bulk_reset, setup, dev, hst, retry, phase, todo>>
        /\ \A p \in Pipes : bank'[p] = "stale" => bank[p] = "stale" \/ phase = "reset"
    BY <1>3, QuietLeaves
  <2>2. TypeOK'
    BY <1>3, QuietLeaves, QuietGoes DEF TypeOK, Taking, Resetting
  <2>3. ResetInv'
    BY <1>3, <2>1, QuietGoes DEF ResetInv, TypeOK
  <2>4. ASSUME NEW p \in Pipes PROVE PipeInv(p)'
    BY <2>1, <2>4 DEF PipeInv, InStep
  <2> QED
    BY <2>2, <2>3, <2>4
<1>4. CASE ResetOUT \/ ResetIN
  <2> DEFINE q == IF pc = "reset_out" THEN "OUT" ELSE "IN"
  <2>1. /\ pc \in Resetting /\ bulk_reset /\ phase = "clear"
        /\ dev' = [dev EXCEPT ![q] = 0]
        /\ UNCHANGED <<reading, setup, hst, retry, phase, todo, refused>>
        /\ stall' \in BOOLEAN /\ bulk_reset' \in BOOLEAN
    BY <1>4 DEF ResetOUT, ResetIN, ResetDataToggle, Goto, Resetting, ResetInv, TypeOK,
                host, history
  <2>2. /\ bank' \in [Pipes -> {"none", "packet", "stale"}] /\ ahead' \in [Pipes -> Int]
        /\ \A p \in Pipes : bank'[p] = "stale" => bank[p] = "stale"
    BY <1>4, DropTypes DEF ResetOUT, ResetIN, TypeOK, history, Pipes
  <2>3. TypeOK'
    BY <1>4, <2>1, <2>2 DEF ResetOUT, ResetIN, Goto, TypeOK
  <2>4. ResetInv'
    BY <1>4, <2>1 DEF ResetOUT, ResetIN, Goto, ResetInv, Taking, Resetting
  <2>5. ASSUME NEW p \in Pipes PROVE PipeInv(p)'
    <3>1. PipeInv(p) /\ dev'[p] \in {0, dev[p]}
      BY <2>1, <2>5 DEF TypeOK
    <3> QED
      BY <2>1, <2>2, <2>5, <3>1 DEF PipeInv, InStep
  <2> QED
    BY <2>3, <2>4, <2>5
<1>5. CASE SendOUT
  <2>1. /\ phase = "use" /\ todo = {} /\ ~bulk_reset
        /\ UNCHANGED <<pc, bulk_reset, reading, stall, setup, phase, todo, refused>>
    BY <1>5 DEF SendOUT, ResetInv, TypeOK, firmware, host
  <2>2. InStep("OUT") /\ InStep("IN") /\ bank["OUT"] # "stale" /\ bank["IN"] # "stale"
    BY <2>1 DEF PipeInv, Pipes
  <2>3. PICK ack \in BOOLEAN :
             /\ dev' = IF hst["OUT"] = dev["OUT"] THEN Flip(dev, "OUT") ELSE dev
             /\ hst' = IF ack THEN Flip(hst, "OUT") ELSE hst
             /\ Count("OUT", hst["OUT"] = dev["OUT"], ack)
             /\ bank' = IF hst["OUT"] = dev["OUT"] THEN [bank EXCEPT !["OUT"] = "packet"] ELSE bank
    BY <1>5, SendOUTIs
  <2>4. /\ dev' \in [Pipes -> {0, 1}] /\ hst' \in [Pipes -> {0, 1}]
        /\ retry' \in [Pipes -> BOOLEAN] /\ ahead' \in [Pipes -> Int]
        /\ InStep("OUT")'
        /\ dev'["IN"] = dev["IN"] /\ hst'["IN"] = hst["IN"] /\ retry'["IN"] = retry["IN"]
    BY <2>2, <2>3, Transaction DEF Pipes
  <2>5. bank' \in [Pipes -> {"none", "packet", "stale"}]
        /\ bank'["OUT"] # "stale" /\ bank'["IN"] # "stale"
    BY <2>2, <2>3 DEF TypeOK, Pipes
  <2>6. TypeOK'
    BY <2>1, <2>4, <2>5 DEF TypeOK
  <2>7. ResetInv'
    BY <2>1 DEF ResetInv
  <2>8. PipeInv("OUT")' /\ PipeInv("IN")'
    BY <2>1, <2>2, <2>4, <2>5 DEF PipeInv, InStep
  <2> QED
    BY <2>6, <2>7, <2>8 DEF Pipes
<1>6. CASE ReceiveIN
  <2>1. /\ phase = "use" /\ todo = {} /\ ~bulk_reset
        /\ UNCHANGED <<pc, bulk_reset, reading, stall, setup, phase, todo, refused>>
    BY <1>6 DEF ReceiveIN, ResetInv, TypeOK, firmware, host
  <2>2. InStep("OUT") /\ InStep("IN") /\ bank["OUT"] # "stale" /\ bank["IN"] # "stale"
    BY <2>1 DEF PipeInv, Pipes
  <2>3. PICK ack \in BOOLEAN :
             /\ hst' = IF hst["IN"] = dev["IN"] THEN Flip(hst, "IN") ELSE hst
             /\ dev' = IF ack THEN Flip(dev, "IN") ELSE dev
             /\ Count("IN", hst["IN"] = dev["IN"], ack)
             /\ bank' = IF ack THEN [bank EXCEPT !["IN"] = "none"] ELSE bank
    BY <1>6, ReceiveINIs
  <2>4. /\ dev' \in [Pipes -> {0, 1}] /\ hst' \in [Pipes -> {0, 1}]
        /\ retry' \in [Pipes -> BOOLEAN] /\ ahead' \in [Pipes -> Int]
        /\ InStep("IN")'
        /\ dev'["OUT"] = dev["OUT"] /\ hst'["OUT"] = hst["OUT"] /\ retry'["OUT"] = retry["OUT"]
    BY <2>2, <2>3, Transaction DEF Pipes
  <2>5. bank' \in [Pipes -> {"none", "packet", "stale"}]
        /\ bank'["OUT"] # "stale" /\ bank'["IN"] # "stale"
    BY <2>2, <2>3 DEF TypeOK, Pipes
  <2>6. TypeOK'
    BY <2>1, <2>4, <2>5 DEF TypeOK
  <2>7. ResetInv'
    BY <2>1 DEF ResetInv
  <2>8. PipeInv("OUT")' /\ PipeInv("IN")'
    BY <2>1, <2>2, <2>4, <2>5 DEF PipeInv, InStep
  <2> QED
    BY <2>6, <2>7, <2>8 DEF Pipes
<1>7. CASE Abort
  <2>1. /\ phase = "use" /\ setup' = "RESET_ALL" /\ phase' = "reset"
        /\ UNCHANGED <<pc, bulk_reset, reading, stall, dev, hst, todo, refused>>
    BY <1>7 DEF Abort, firmware
  <2>2. /\ bank' \in [Pipes -> {"none", "packet", "stale"}]
        /\ retry' \in [Pipes -> BOOLEAN] /\ ahead' \in [Pipes -> Int]
    BY <1>7 DEF Abort
  <2>3. TypeOK'
    BY <2>1, <2>2 DEF TypeOK
  <2>4. ResetInv'
    BY <2>1 DEF ResetInv, Pipes
  <2> QED
    BY <2>1, <2>3, <2>4 DEF PipeInv, ResetInv
<1>8. CASE SeeStall
  <2>1. /\ phase = "use" /\ todo' = {"OUT"} /\ phase' = "clear" /\ setup = "none"
        /\ UNCHANGED <<pc, bulk_reset, reading, stall, bank, setup, dev, hst, refused>>
        /\ retry' = [retry EXCEPT !["OUT"] = FALSE]
    BY <1>8 DEF SeeStall, firmware
  <2>2. retry' \in [Pipes -> BOOLEAN] /\ ahead' \in [Pipes -> Int] /\ retry'["IN"] = retry["IN"]
    BY <1>8, <2>1 DEF SeeStall, TypeOK, Pipes
  <2>3. TypeOK'
    BY <2>1, <2>2 DEF TypeOK, Pipes
  <2>4. ResetInv'
    BY <2>1 DEF ResetInv, Pipes
  <2>5. PipeInv("IN")'
    BY <2>1, <2>2 DEF PipeInv, InStep, ResetInv, Pipes
  <2>6. PipeInv("OUT")'
    BY <2>1 DEF PipeInv
  <2> QED
    BY <2>3, <2>4, <2>5, <2>6 DEF Pipes
<1>9. CASE WantClear \/ Clear
  <2>1. UNCHANGED <<pc, bulk_reset, reading, stall, bank, dev, hst, retry, ahead, refused>>
    BY <1>9 DEF WantClear, Clear, firmware, toggles, history
  <2>2. TypeOK'
    BY <1>9, <2>1 DEF WantClear, Clear, host, TypeOK
  <2>3. ResetInv'
    BY <1>9, <2>1 DEF WantClear, Clear, host, ResetInv, TypeOK, Pipes
  <2>4. ASSUME NEW p \in Pipes PROVE PipeInv(p)'
    <3>1. (p \notin todo' => p \notin todo) /\ phase # "reset"
      BY <1>9 DEF WantClear, Clear, host, ResetInv, TypeOK
    <3> QED
      BY <2>1, <2>4, <3>1 DEF PipeInv, InStep
  <2> QED
    BY <2>2, <2>3, <2>4
<1>10. CASE UNCHANGED vars
  BY <1>10 DEF vars, firmware, toggles, host, history, TypeOK, ResetInv, PipeInv, InStep
<1> QED
  BY <1>1, <1>2, <1>3, <1>4, <1>5, <1>6, <1>7, <1>8, <1>9, <1>10
  DEF Next, Device, Host, Quiet

\* The invariant as a theorem of its own, for the ones below.
LEMMA Always == ClearsBoth => (Spec => []IInv)
<1> SUFFICES ASSUME ClearsBoth PROVE Spec => []IInv
  OBVIOUS
<1>1. IInv /\ [Next]_vars => IInv'
  BY StepInv
<1> QED
  BY <1>1, InitInv, PTL DEF Spec

\* The variables keep their types; the count of packets is not bounded.
THEOREM PipeTypeCorrect ==
    ASSUME ClearsBoth PROVE Spec => []TypeOK
<1>1. IInv => TypeOK
  BY DEF IInv
<1> QED
  BY <1>1, Always, PTL

\* The reset is performed before the host uses the pipes again.
THEOREM ResetOver ==
    ASSUME ClearsBoth PROVE Spec => []ResetBeforeUse
<1>1. IInv => ResetBeforeUse
  BY DEF IInv, ResetInv, ResetBeforeUse
<1> QED
  BY <1>1, Always, PTL

\* No packet of a transfer that was given up is left in a bank when the host
\* uses the pipes again.
THEOREM NoStalePacket ==
    ASSUME ClearsBoth PROVE Spec => []NothingStale
<1>1. IInv => NothingStale
  BY DEF IInv, ResetInv, PipeInv, NothingStale, TypeOK
<1> QED
  BY <1>1, Always, PTL

\* Both sides agree on what has been acknowledged whenever the host uses the
\* pipes, even if it clears them while a packet or an ACK is on its way.
TogglesAgree == phase = "use" => \A p \in Pipes : InStep(p)

\* So a packet is taken for a repetition only if it is one, for any host that
\* clears both pipes after a reset.
THEOREM TogglesAlwaysAgree ==
    ASSUME ClearsBoth PROVE Spec => []TogglesAgree
<1>1. IInv => TogglesAgree
  BY DEF IInv, ResetInv, PipeInv, TogglesAgree, TypeOK
<1> QED
  BY <1>1, Always, PTL

-----------------------------------------------------------------------------
(* A host that clears a pipe after a STALL and between transfers only.     *)

Counted(p) ==
    /\ ahead[p] = IF retry[p] THEN 1 ELSE 0
    /\ phase = "reset" \/ bulk_reset => ~retry[p] /\ bank[p] # "packet"

\* A stalled endpoint has refused what it got last, and takes no more.
StallInv ==
    /\ pc = "stall" => refused
    /\ stall => refused /\ pc \notin Taking /\ (bank["OUT"] = "none" \/ pc = "clear")

\* A pipe the host clears holds no packet the other side has yet to get: on
\* OUT but one it has refused, on IN but one whose ACK was lost; and none comes
\* before it is cleared.
ClearInv ==
    /\ pc \in Taking => ~reading
    /\ retry["IN"] => bank["IN"] = "packet"
    /\ "OUT" \in todo =>
          /\ ~retry["OUT"]
          /\ bank["OUT"] = "packet" => stall
    /\ "IN" \in todo =>
          /\ bank["IN"] = "packet" => retry["IN"]
          /\ pc \notin Taking \cup {"stall"}
          /\ reading => pc = "flush_out"
          /\ bank["OUT"] # "none" => pc \in {"flush_out", "clear"}

CountInv ==
    /\ \A p \in Pipes : Counted(p)
    /\ StallInv
    /\ ClearInv

LEMMA InitCount == Init => CountInv
<1> SUFFICES ASSUME Init PROVE CountInv
  OBVIOUS
<1>1. \A p \in Pipes : Counted(p)
  BY DEF Init, Counted
<1>2. StallInv /\ ClearInv
  BY DEF Init, StallInv, ClearInv, Taking, Pipes
<1> QED
  BY <1>1, <1>2 DEF CountInv

\* A control request: nothing that counts is in a bank it empties.
LEMMA USBTaskCount ==
    ASSUME ClearsBoth, IInv, CountInv, USBTask, pc \in {"usb", "stream"},
           pc' = IF pc = "usb" THEN IF bulk_reset' THEN "flush_out" ELSE "out"
                 ELSE IF bulk_reset' THEN "clear" ELSE "wait"
    PROVE  CountInv'
<1> USE DEF IInv, CountInv
<1>1. CASE setup = "none"
  <2>1. UNCHANGED <<bulk_reset, reading, stall, bank, dev, hst, retry, phase, todo, ahead, refused>>
    BY <1>1 DEF USBTask, Pipes, firmware, toggles, host, history
  <2>2. \A p \in Pipes : Counted(p)'
    BY <2>1 DEF Counted
  <2>3. StallInv'
    BY <2>1 DEF StallInv, Taking
  <2>4. ClearInv'
    BY <2>1 DEF ClearInv, ResetInv, Taking, Resetting, TypeOK
  <2> QED
    BY <2>2, <2>3, <2>4
<1>2. CASE setup = "RESET_ALL"
  <2>1. /\ bulk_reset' = TRUE /\ todo' = Pipes /\ phase = "reset" /\ phase' = "clear"
        /\ UNCHANGED <<reading, stall, bank, dev, hst, retry, ahead, refused>>
    BY <1>2 DEF USBTask, ClearsBoth, ResetInv, Pipes, toggles, history
  <2>2. \A p \in Pipes : Counted(p)'
    BY <2>1 DEF Counted
  <2>3. StallInv'
    BY <2>1 DEF StallInv, Taking
  <2>4. ClearInv'
    BY <2>1 DEF ClearInv, Counted, Taking, Pipes
  <2> QED
    BY <2>2, <2>3, <2>4
<1>3. CASE setup \in Pipes
  <2>1. /\ ClearHalt(setup) /\ setup \in todo /\ phase = "clear"
        /\ UNCHANGED <<bulk_reset, reading, refused>>
        /\ todo' = todo \ {setup} /\ phase' # "reset"
        /\ stall' = (stall /\ setup # "OUT")
    BY <1>3 DEF USBTask, ClearHalt, ResetInv, Pipes
  <2>2. /\ bank'[setup] = "none" /\ retry'[setup] = FALSE
        /\ ahead'[setup] = IF bank[setup] = "packet" THEN ahead[setup] - 1 ELSE ahead[setup]
        /\ \A q \in Pipes : q # setup => /\ bank'[q] = bank[q] /\ ahead'[q] = ahead[q]
                                         /\ retry'[q] = retry[q]
    BY <1>3, <2>1, DropTypes DEF ClearHalt, TypeOK
  <2>3. bank[setup] = "packet" <=> retry[setup]
    <3>1. CASE setup = "OUT"
      BY <2>1, <3>1 DEF ClearInv, StallInv, Taking
    <3>2. CASE setup = "IN"
      BY <2>1, <3>2 DEF ClearInv
    <3> QED
      BY <1>3, <3>1, <3>2 DEF Pipes
  <2>4. ASSUME NEW p \in Pipes PROVE Counted(p)'
    BY <1>3, <2>1, <2>2, <2>3 DEF Counted
  <2>5. StallInv'
    BY <1>3, <2>1, <2>2 DEF StallInv, Taking, Pipes
  <2>6. ClearInv'
    <3>1. "OUT" \in Pipes /\ "IN" \in Pipes /\ (pc' \in Taking => pc \in Taking)
      BY DEF Pipes, Taking
    <3>2. setup = "OUT" \/ setup = "IN"
      BY <1>3 DEF Pipes
    <3>3. CASE setup = "OUT"
      BY <2>1, <2>2, <3>1, <3>3 DEF ClearInv, ResetInv, Taking, TypeOK
    <3>4. CASE setup = "IN"
      BY <2>1, <2>2, <3>1, <3>4 DEF ClearInv, Taking, TypeOK
    <3> QED
      BY <3>2, <3>3, <3>4
  <2> QED
    BY <2>4, <2>5, <2>6
<1> QED
  BY <1>1, <1>2, <1>3 DEF USBTask

LEMMA QuietCount ==
    ASSUME IInv, CountInv, Quiet
    PROVE  CountInv'
<1> USE DEF IInv, CountInv, TypeOK
<1> USE DEF firmware, toggles, host, history
<1>0. "OUT" \in Pipes /\ "IN" \in Pipes /\ \A p \in Pipes : p = "OUT" \/ p = "IN"
  BY DEF Pipes
<1>1. CASE NoOUT \/ TakeOUT \/ StreamTimeout
  <2>1. /\ UNCHANGED <<bulk_reset, reading, stall, retry, phase, todo, ahead, refused>>
        /\ bank'["IN"] = bank["IN"] /\ bank'["OUT"] \in {bank["OUT"], "none"}
    BY <1>0, <1>1 DEF NoOUT, TakeOUT, StreamTimeout, Empty
  <2>2. \A p \in Pipes : Counted(p)'
    BY <1>0, <2>1 DEF Counted
  <2>3. StallInv'
    BY <1>1, <2>1 DEF NoOUT, TakeOUT, StreamTimeout, Goto, StallInv, Taking
  <2>4. ClearInv'
    BY <1>1, <2>1 DEF NoOUT, TakeOUT, StreamTimeout, Goto, ClearInv, Taking
  <2> QED
    BY <2>2, <2>3, <2>4
<1>2. CASE Execute
  <2>1. /\ UNCHANGED <<bulk_reset, bank, stall, retry, phase, todo, ahead>>
        /\ pc = "exec" /\ pc' = "clear"
    BY <1>2 DEF Execute, Goto
  <2>2. \A p \in Pipes : Counted(p)'
    BY <2>1 DEF Counted
  <2>3. StallInv' /\ ClearInv'
    BY <2>1 DEF StallInv, ClearInv, Taking
  <2> QED
    BY <2>2, <2>3
<1>3. CASE Refuse
  <2>1. /\ UNCHANGED <<bulk_reset, reading, stall, retry, phase, todo, ahead>>
        /\ bank'["IN"] = bank["IN"] /\ bank'["OUT"] = "none" /\ refused' = TRUE
        /\ pc = "exec" \/ (pc = "out" /\ bank["OUT"] # "none")
        /\ pc' = "stall"
    BY <1>0, <1>3 DEF Refuse, Empty
  <2>2. \A p \in Pipes : Counted(p)'
    BY <1>0, <2>1 DEF Counted
  <2>3. StallInv' /\ ClearInv'
    BY <2>1 DEF StallInv, ClearInv, Taking
  <2> QED
    BY <2>2, <2>3
<1>4. CASE StallOUT
  <2>1. /\ UNCHANGED <<bulk_reset, reading, bank, retry, phase, todo, ahead, refused>>
        /\ pc = "stall" /\ pc' = "clear" /\ stall' = TRUE
    BY <1>4 DEF StallOUT, Goto
  <2>2. \A p \in Pipes : Counted(p)'
    BY <2>1 DEF Counted
  <2>3. StallInv' /\ ClearInv'
    BY <2>1 DEF StallInv, ClearInv, Taking
  <2> QED
    BY <2>2, <2>3
<1>5. CASE ClearOUT
  <2>1. /\ UNCHANGED <<bulk_reset, reading, stall, retry, phase, todo, ahead, refused>>
        /\ bank'["IN"] = bank["IN"] /\ bank'["OUT"] = "none" /\ pc = "clear" /\ pc' = "in"
    BY <1>0, <1>5 DEF ClearOUT, Empty, Goto
  <2>2. \A p \in Pipes : Counted(p)'
    BY <1>0, <2>1 DEF Counted
  <2>3. StallInv' /\ ClearInv'
    BY <2>1 DEF StallInv, ClearInv, Taking
  <2> QED
    BY <2>2, <2>3
<1>6. CASE ServeIN
  <2>1. /\ UNCHANGED <<bulk_reset, stall, retry, phase, todo, ahead, refused>>
        /\ bank'["OUT"] = bank["OUT"] /\ bank["IN"] = "none"
        /\ bank'["IN"] = IF phase = "reset" THEN "stale" ELSE "packet"
        /\ reading /\ pc = "in" /\ pc' \in {"in", "usb"}
    BY <1>0, <1>6 DEF ServeIN
  <2>2. ~bulk_reset /\ "IN" \notin todo
    BY <1>0, <2>1 DEF ResetInv, ClearInv, Resetting
  <2>3. ASSUME NEW p \in Pipes PROVE Counted(p)'
    BY <1>0, <2>1, <2>2, <2>3 DEF Counted
  <2>4. StallInv' /\ ClearInv'
    BY <1>0, <2>1, <2>2 DEF StallInv, ClearInv, Taking, Counted
  <2> QED
    BY <2>3, <2>4
<1>7. CASE LeaveIN
  <2>1. /\ UNCHANGED <<bulk_reset, stall, bank, retry, phase, todo, ahead, refused>>
        /\ pc = "in" /\ pc' = "usb" /\ reading' \in {reading, FALSE}
    BY <1>7 DEF LeaveIN, Goto
  <2>0. reading' => reading
    BY <2>1, Zenon
  <2>2. \A p \in Pipes : Counted(p)'
    BY <2>1 DEF Counted
  <2>3. StallInv' /\ ClearInv'
    BY <2>0, <2>1 DEF StallInv, ClearInv, Taking
  <2> QED
    BY <2>2, <2>3
<1>8. CASE FlushOUT \/ FlushIN
  <2>1. bulk_reset /\ \A p \in Pipes : bank[p] # "packet" /\ ~retry[p]
    BY <1>8 DEF FlushOUT, FlushIN, Goto, ResetInv, Resetting, Counted
  <2>2. /\ UNCHANGED <<bulk_reset, stall, retry, phase, todo, refused>>
        /\ \A p \in Pipes : ahead'[p] = ahead[p] /\ bank'[p] \in {bank[p], "none"}
        /\ reading' = FALSE \/ reading' = reading
    BY <1>0, <1>8, <2>1, DropTypes DEF FlushOUT, FlushIN
  <2>3. ASSUME NEW p \in Pipes PROVE Counted(p)'
    BY <2>1, <2>2, <2>3 DEF Counted
  <2>4. StallInv'
    BY <1>0, <1>8, <2>2 DEF FlushOUT, FlushIN, Goto, StallInv, Taking
  <2>5. CASE FlushOUT
    <3>1. reading' = FALSE /\ bank'["OUT"] = "none" /\ pc' = "flush_in"
      BY <1>0, <2>5, DropTypes DEF FlushOUT, Goto
    <3> QED
      BY <1>0, <2>1, <2>2, <2>3, <2>4, <3>1 DEF ClearInv, Taking
  <2>6. CASE FlushIN
    <3>1. pc = "flush_in" /\ pc' = "reset_out" /\ reading' = reading
      BY <2>6 DEF FlushIN, Goto
    <3> QED
      BY <1>0, <2>1, <2>2, <2>3, <2>4, <3>1 DEF ClearInv, Taking
  <2> QED
    BY <1>8, <2>5, <2>6
<1> QED
  BY <1>1, <1>2, <1>3, <1>4, <1>5, <1>6, <1>7, <1>8 DEF Quiet

LEMMA CountStep == ClearsBoth /\ Careful /\ IInv /\ CountInv /\ [Next]_vars => CountInv'
<1> SUFFICES ASSUME ClearsBoth, Careful, IInv, CountInv, [Next]_vars PROVE CountInv'
  OBVIOUS
<1> USE DEF IInv, CountInv
<1>0. "OUT" \in Pipes /\ "IN" \in Pipes /\ \A p \in Pipes : p = "OUT" \/ p = "IN"
  BY DEF Pipes
<1>1. CASE MainUSBTask \/ StreamUSBTask
  BY <1>1, USBTaskCount DEF MainUSBTask, StreamUSBTask
<1>2. CASE Quiet
  BY <1>2, QuietCount
<1>3. CASE ResetOUT \/ ResetIN
  <2>1. /\ pc \in {"reset_out", "reset_in"} /\ pc' \in {"reset_in", "usb"}
        /\ bulk_reset /\ (stall' => stall) /\ phase = "clear"
        /\ UNCHANGED <<reading, retry, phase, todo, refused>>
    BY <1>3 DEF ResetOUT, ResetIN, Goto, ResetInv, Resetting, host, history
  <2>2. \A p \in Pipes : bank[p] # "packet" /\ ~retry[p]
    BY <2>1 DEF Counted
  <2>3. \A p \in Pipes : ahead'[p] = ahead[p] /\ bank'[p] \in {bank[p], "none"}
    BY <1>0, <1>3, <2>2, DropTypes DEF ResetOUT, ResetIN, history
  <2>4. ASSUME NEW p \in Pipes PROVE Counted(p)'
    BY <2>1, <2>2, <2>3, <2>4 DEF Counted
  <2>5. StallInv' /\ ClearInv'
    BY <1>0, <2>1, <2>2, <2>3 DEF StallInv, ClearInv, Taking, TypeOK
  <2> QED
    BY <2>4, <2>5
<1>4. CASE SendOUT
  <2>1. /\ phase = "use" /\ todo = {} /\ ~bulk_reset /\ ~stall
        /\ UNCHANGED <<pc, bulk_reset, reading, stall, phase, todo, refused>>
    BY <1>4 DEF SendOUT, ResetInv, TypeOK, firmware, host
  <2>2. InStep("OUT")
    BY <1>0, <2>1 DEF PipeInv
  <2>3. PICK ack \in BOOLEAN :
             /\ dev' = IF hst["OUT"] = dev["OUT"] THEN Flip(dev, "OUT") ELSE dev
             /\ hst' = IF ack THEN Flip(hst, "OUT") ELSE hst
             /\ Count("OUT", hst["OUT"] = dev["OUT"], ack)
             /\ bank' = IF hst["OUT"] = dev["OUT"] THEN [bank EXCEPT !["OUT"] = "packet"] ELSE bank
    BY <1>4, SendOUTIs
  <2>4. /\ (retry'["OUT"] <=> ~ack) /\ (retry'["IN"] <=> retry["IN"])
        /\ ahead'["OUT"] = ahead["OUT"] + (IF retry["OUT"] THEN 0 ELSE 1) - (IF ack THEN 1 ELSE 0)
        /\ ahead'["IN"] = ahead["IN"]
    BY <1>0, <2>2, <2>3, Transaction
  <2>5. bank'["IN"] = bank["IN"]
    BY <1>0, <2>3 DEF TypeOK
  <2>6. Counted("OUT")' /\ Counted("IN")'
    <3>1. CASE ack
      BY <1>0, <2>1, <2>4, <2>5, <3>1 DEF Counted
    <3>2. CASE ~ack
      BY <1>0, <2>1, <2>4, <2>5, <3>2 DEF Counted
    <3> QED
      BY <3>1, <3>2
  <2>7. StallInv' /\ ClearInv'
    BY <2>1, <2>4, <2>5 DEF StallInv, ClearInv
  <2> QED
    BY <1>0, <2>6, <2>7
<1>5. CASE ReceiveIN
  <2>1. /\ phase = "use" /\ todo = {} /\ ~bulk_reset
        /\ UNCHANGED <<pc, bulk_reset, reading, stall, phase, todo, refused>>
        /\ bank["IN"] = "packet"
    BY <1>0, <1>5 DEF ReceiveIN, ResetInv, PipeInv, TypeOK, firmware, host
  <2>2. InStep("IN")
    BY <1>0, <2>1 DEF PipeInv
  <2>3. PICK ack \in BOOLEAN :
             /\ hst' = IF hst["IN"] = dev["IN"] THEN Flip(hst, "IN") ELSE hst
             /\ dev' = IF ack THEN Flip(dev, "IN") ELSE dev
             /\ Count("IN", hst["IN"] = dev["IN"], ack)
             /\ bank' = IF ack THEN [bank EXCEPT !["IN"] = "none"] ELSE bank
    BY <1>5, ReceiveINIs
  <2>4. /\ (retry'["IN"] <=> ~ack) /\ (retry'["OUT"] <=> retry["OUT"])
        /\ ahead'["IN"] = ahead["IN"] + (IF retry["IN"] THEN 0 ELSE 1) - (IF ack THEN 1 ELSE 0)
        /\ ahead'["OUT"] = ahead["OUT"]
    BY <1>0, <2>2, <2>3, Transaction
  <2>5. bank'["OUT"] = bank["OUT"] /\ (~ack => bank'["IN"] = "packet")
    BY <1>0, <2>1, <2>3 DEF TypeOK
  <2>6. Counted("OUT")' /\ Counted("IN")'
    <3>1. CASE ack
      BY <1>0, <2>1, <2>4, <2>5, <3>1 DEF Counted
    <3>2. CASE ~ack
      BY <1>0, <2>1, <2>4, <2>5, <3>2 DEF Counted
    <3> QED
      BY <3>1, <3>2
  <2>7. StallInv' /\ ClearInv'
    BY <2>1, <2>4, <2>5 DEF StallInv, ClearInv
  <2> QED
    BY <1>0, <2>6, <2>7
<1>6. CASE Abort
  <2>1. /\ phase = "use" /\ todo = {} /\ ~bulk_reset
        /\ UNCHANGED <<pc, bulk_reset, reading, stall, todo, refused>>
        /\ \A p \in Pipes : /\ ~retry'[p] /\ ahead'[p] = 0
                            /\ bank'[p] = IF bank[p] = "none" THEN "none" ELSE "stale"
    BY <1>6 DEF Abort, ResetInv, TypeOK, firmware
  <2>2. \A p \in Pipes : Counted(p)'
    BY <2>1 DEF Counted
  <2>3. StallInv' /\ ClearInv'
    BY <1>0, <2>1 DEF StallInv, ClearInv
  <2> QED
    BY <2>2, <2>3
<1>7. CASE SeeStall
  <2>1. /\ phase = "use" /\ ~bulk_reset /\ phase' = "clear" /\ todo' = {"OUT"} /\ stall
        /\ UNCHANGED <<pc, bulk_reset, reading, stall, bank, refused>>
        /\ retry'["OUT"] = FALSE /\ retry'["IN"] = retry["IN"]
        /\ ahead'["IN"] = ahead["IN"]
        /\ ahead'["OUT"] = IF retry["OUT"] /\ refused THEN ahead["OUT"] - 1 ELSE ahead["OUT"]
    BY <1>0, <1>7 DEF SeeStall, ResetInv, TypeOK, firmware
  <2>2. Counted("OUT")' /\ Counted("IN")'
    BY <1>0, <2>1 DEF Counted, StallInv
  <2>3. StallInv' /\ ClearInv'
    BY <2>1 DEF StallInv, ClearInv
  <2> QED
    BY <1>0, <2>2, <2>3
<1>8. CASE WantClear
  <2>1. /\ phase = "use" /\ ~bulk_reset /\ phase' = "clear" /\ BetweenTransfers
        /\ UNCHANGED <<pc, bulk_reset, reading, stall, bank, retry, ahead, refused>>
    BY <1>8 DEF WantClear, ResetInv, TypeOK, firmware, toggles, history
  <2>2. \A p \in Pipes : Counted(p)'
    BY <2>1 DEF Counted
  <2>3. StallInv' /\ ClearInv'
    BY <2>1 DEF StallInv, ClearInv, BetweenTransfers, Taking
  <2> QED
    BY <2>2, <2>3
<1>9. CASE Clear \/ UNCHANGED vars
  <2>1. UNCHANGED <<pc, bulk_reset, reading, stall, bank, retry, phase, todo, ahead, refused>>
    BY <1>9 DEF Clear, vars, firmware, toggles, host, history
  <2> QED
    BY <2>1 DEF Counted, StallInv, ClearInv
<1> QED
  BY <1>1, <1>2, <1>3, <1>4, <1>5, <1>6, <1>7, <1>8, <1>9 DEF Next, Device, Host, Quiet

\* No packet is lost and none taken twice, however many are sent, whatever
\* ACKs are lost, however often the endpoint is stalled and wherever a reset or
\* a CLEAR_FEATURE of a careful host meets the device; the count goes on
\* across every clear.
THEOREM PacketsOnce ==
    ASSUME ClearsBoth, Careful PROVE Spec => []ExactlyOnce
<1>1. IInv /\ CountInv => ExactlyOnce
  BY DEF IInv, TypeOK, CountInv, Counted, ExactlyOnce
<1>2. IInv /\ CountInv /\ [Next]_vars => CountInv'
  BY CountStep
<1>3. Spec => []IInv
  BY Always
<1> QED
  BY <1>1, <1>2, <1>3, InitCount, PTL DEF Spec
=============================================================================
