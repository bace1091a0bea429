--------------------------- MODULE BootloaderProofs ---------------------------
(***************************************************************************)
(* The key starts the bootloader when it should and at no other time,      *)
(* whatever resets the chip in between.                                    *)
(***************************************************************************)
EXTENDS Bootloader, TLAPS

\* From here on bootloader_jmp_chk has stopped the watchdog.
Stopped == {"test", "forget", "jump", "boot"} \cup Main \cup Running

\* The key would start the bootloader at the next start by the watchdog.
Armed == bootloader_boot_key = "MAGIC"

\* A watchdog flag, or the watchdog of a start-up that has not yet stopped
\* it, together with the key, means that a request is due.
KeyInv ==
    /\ pc \in {"read", "clear"} /\ Armed /\ "WDRF" \in MCUSR => due
    /\ pc \in {"clear", "disable", "test"} /\ Armed /\ "WDRF" \in old_mcusr => due
    /\ pc \in {"read", "clear", "disable"} /\ Armed /\ wdt => due
    /\ pc \in {"forget", "jump"} => due
    /\ pc \in {"jump", "boot"} => ~Armed
    /\ pc = "spin" => Armed

WatchdogInv ==
    /\ pc \in Stopped => ~wdt
    /\ pc \notin {"read", "clear"} => "WDRF" \notin MCUSR
    /\ pc = "arm" => Armed

IInv == TypeOK /\ WatchdogInv /\ KeyInv

LEMMA InitInv == Init => IInv
BY DEF Init, PowerFlags, IInv, TypeOK, WatchdogInv, KeyInv, Keys, Flags, Startup, Main,
       Running, Stopped, Armed

\* Every restart leaves the variables of their types and the chip at the
\* first step; the key must be due if the watchdog's flag comes up.
LEMMA RestartInv ==
    ASSUME NEW flags \in SUBSET Flags, Restart(flags),
           bootloader_boot_key' \in Keys, due' \in BOOLEAN, calm' \in BOOLEAN,
           Armed' /\ "WDRF" \in flags => due'
    PROVE  IInv'
BY DEF Restart, IInv, TypeOK, WatchdogInv, KeyInv, Keys, Flags, Startup, Main, Running,
       Stopped, Armed

LEMMA StepInv == IInv /\ [Next]_vars => IInv'
<1> SUFFICES ASSUME IInv, [Next]_vars PROVE IInv'
  OBVIOUS
<1> USE DEF IInv
<1>1. CASE ReadFlags
  BY <1>1 DEF ReadFlags, Goto, TypeOK, WatchdogInv, KeyInv, Startup, Main, Running, Stopped, Armed
<1>2. CASE ClearFlag
  BY <1>2 DEF ClearFlag, ClearWDRF, Goto, TypeOK, WatchdogInv, KeyInv, Startup, Main,
              Running, Stopped, Armed
<1>3. CASE DisableWatchdog
  <2>1. wdt' = FALSE
    BY <1>3 DEF DisableWatchdog, StopWatchdog, Goto, WatchdogInv
  <2> QED
    BY <1>3, <2>1 DEF DisableWatchdog, Goto, TypeOK, WatchdogInv, KeyInv, Startup, Main,
                      Running, Stopped, Armed
<1>4. CASE TestKey
  BY <1>4 DEF TestKey, KeyFits, Goto, TypeOK, WatchdogInv, KeyInv, Startup, Main, Running,
              Stopped, Armed
<1>5. CASE Forget
  BY <1>5 DEF Forget, ForgetKey, Keys, Goto, TypeOK, WatchdogInv, KeyInv, Startup, Main,
              Running, Stopped, Armed
<1>6. CASE Jump
  BY <1>6 DEF Jump, Goto, TypeOK, WatchdogInv, KeyInv, Startup, Main, Running, Stopped, Armed
<1>7. CASE Request \/ Detach
  <2>1. CASE Request
    BY <2>1 DEF Request, Goto, TypeOK, WatchdogInv, KeyInv, Startup, Main, Running, Stopped,
                Armed
  <2>2. CASE Detach
    BY <2>2 DEF Detach, Goto, TypeOK, WatchdogInv, KeyInv, Startup, Main, Running, Stopped,
                Armed
  <2> QED
    BY <1>7, <2>1, <2>2
<1>8. CASE Store
  BY <1>8 DEF Store, StoreKey, Keys, Goto, TypeOK, WatchdogInv, KeyInv, Startup, Main,
              Running, Stopped, Armed
<1>9. CASE Arm
  BY <1>9 DEF Arm, Goto, TypeOK, WatchdogInv, KeyInv, Startup, Main, Running, Stopped, Armed
<1>10. CASE LeaveBootloader
  <2>1. bootloader_boot_key' \in Keys /\ ~Armed' /\ due' \in BOOLEAN /\ calm' \in BOOLEAN
    BY <1>10 DEF LeaveBootloader, TypeOK, KeyInv, Keys, Armed
  <2>2. CASE Restart(MCUSR \cup {"WDRF"})
    BY <2>1, <2>2, RestartInv DEF TypeOK, Flags
  <2>3. CASE pc' = "read" /\ UNCHANGED <<old_mcusr, MCUSR, wdt>>
    BY <1>10, <2>1, <2>3 DEF LeaveBootloader, TypeOK, WatchdogInv, KeyInv, Startup, Main,
                             Running, Stopped, Armed
  <2> QED
    BY <1>10, <2>2, <2>3 DEF LeaveBootloader
<1>11. CASE WatchdogReset
  <2>1. Armed' => due'
    BY <1>11 DEF WatchdogReset, TypeOK, WatchdogInv, KeyInv, Startup, Main, Running,
                 Stopped, Armed
  <2> QED
    BY <1>11, <2>1, RestartInv DEF WatchdogReset, TypeOK, Flags
<1>12. CASE PowerOn
  <2> PICK flags \in PowerFlags : Restart(flags)
    BY <1>12 DEF PowerOn
  <2>1. flags \in SUBSET Flags /\ "WDRF" \notin flags
    BY DEF PowerFlags, Flags
  <2> QED
    BY <1>12, <2>1, RestartInv DEF PowerOn
<1>13. CASE ExternalReset \/ BrownOut
  <2>1. Armed' /\ "WDRF" \in MCUSR => due'
    BY <1>13 DEF ExternalReset, BrownOut, TypeOK, WatchdogInv, KeyInv, Armed
  <2>2. bootloader_boot_key' \in Keys /\ due' \in BOOLEAN /\ calm' \in BOOLEAN
    BY <1>13 DEF ExternalReset, BrownOut, TypeOK, Keys
  <2>3. CASE Restart(MCUSR \cup {"EXTRF"})
    BY <2>1, <2>2, <2>3, RestartInv DEF TypeOK, Flags
  <2>4. CASE Restart(MCUSR \cup {"BORF"})
    BY <2>1, <2>2, <2>4, RestartInv DEF TypeOK, Flags
  <2> QED
    BY <1>13, <2>3, <2>4 DEF ExternalReset, BrownOut
<1>14. CASE UNCHANGED vars
  BY <1>14 DEF vars, TypeOK, WatchdogInv, KeyInv, Stopped, Armed
<1> QED
  BY <1>1, <1>2, <1>3, <1>4, <1>5, <1>6, <1>7, <1>8, <1>9, <1>10, <1>11, <1>12, <1>13,
     <1>14 DEF Next, Step

\* The key, the flags and the watchdog keep their types through every reset.
THEOREM BootTypeCorrect == Spec => []TypeOK
BY InitInv, StepInv, PTL DEF Spec, IInv

\* The watchdog is off whenever the application or the bootloader runs,
\* although a reset by it leaves it on.
THEOREM WatchdogAlwaysOff == Spec => []WatchdogOff
<1>1. IInv => WatchdogOff
  BY DEF IInv, WatchdogInv, WatchdogOff, Stopped
<1> QED
  BY <1>1, InitInv, StepInv, PTL DEF Spec

\* The bootloader starts only for a request the watchdog reset has followed.
THEOREM BootloaderOnlyOnRequest == Spec => BootloaderOnlyWhenDue
<1>1. IInv /\ [Next]_vars => [Goto("jump", "boot") => due]_vars
  BY DEF IInv, KeyInv, Goto
<1> QED
  BY <1>1, InitInv, StepInv, PTL DEF Spec, BootloaderOnlyWhenDue
=============================================================================
