------------------------------ MODULE Bootloader ------------------------------
(***************************************************************************)
(* From the application to the bootloader and back (main.c).               *)
(*                                                                         *)
(* REQ_ENTER_BOOTLOADER cannot jump to the bootloader: it leaves a key in  *)
(* RAM that no start-up code clears and has the watchdog reset the chip.   *)
(* Before main, bootloader_jmp_chk looks at the reset flags and the key.   *)
(* The key and the flags are the only state that outlives a reset, and a   *)
(* reset may come between any two steps.                                   *)
(***************************************************************************)
VARIABLES
    bootloader_boot_key,
    old_mcusr,  \* local variable of bootloader_jmp_chk
    pc,
    MCUSR,      \* the reset flags, which add up until the program clears them
    wdt,        \* the watchdog is running
    due,        \* it has reset the chip for a request not yet answered
    calm        \* no reset from outside since the last request or start

vars == <<bootloader_boot_key, old_mcusr, pc, MCUSR, wdt, due, calm>>

Keys == {"MAGIC", "zero", "other"}
Flags == {"PORF", "EXTRF", "BORF", "WDRF"}

\* bootloader_jmp_chk, main up to its loop, the loop, enter_bootloader.
Startup == {"read", "clear", "disable", "test", "forget", "jump"}
Main == {"main_clear", "main_disable"}
Running == {"run", "detach", "store", "arm"}

-----------------------------------------------------------------------------
(* The chip.                                                               *)

\* While its flag is up the watchdog runs, whatever it is told.
Restart(flags) ==
    /\ MCUSR' = flags
    /\ wdt' = ("WDRF" \in flags)
    /\ old_mcusr' = {}
    /\ pc' = "read"

\* A power-on clears the other flags, but the supply may dip as it rises.
PowerFlags == {{"PORF"}, {"PORF", "BORF"}}

\* RAM comes up with anything in it.
Init ==
    /\ bootloader_boot_key \in Keys
    /\ MCUSR \in PowerFlags /\ wdt = FALSE
    /\ old_mcusr = {} /\ pc = "read" /\ due = FALSE /\ calm = TRUE

PowerOn ==
    /\ \E flags \in PowerFlags : Restart(flags)
    /\ bootloader_boot_key' \in Keys
    /\ due' = FALSE /\ calm' = FALSE

\* The reset line leaves RAM alone, a dip of the supply may not.
ExternalReset ==
    /\ Restart(MCUSR \cup {"EXTRF"})
    /\ calm' = FALSE
    /\ UNCHANGED <<bootloader_boot_key, due>>

BrownOut ==
    /\ Restart(MCUSR \cup {"BORF"})
    /\ calm' = FALSE
    /\ \/ UNCHANGED <<bootloader_boot_key, due>>
       \/ bootloader_boot_key' = "other" /\ due' = FALSE

\* After 16 ms: a start-up that nothing disturbs is shorter.
WatchdogReset ==
    /\ wdt
    /\ Restart(MCUSR \cup {"WDRF"})
    /\ due' = (due \/ pc = "spin")
    /\ calm' = (calm /\ pc \notin Startup \cup Main)
    /\ UNCHANGED bootloader_boot_key

\* The bootloader starts the application, by the watchdog or by a jump.  Its
\* own variables may lie where the key was.
LeaveBootloader ==
    /\ pc = "boot"
    /\ \/ Restart(MCUSR \cup {"WDRF"})
       \/ pc' = "read" /\ UNCHANGED <<old_mcusr, MCUSR, wdt>>
    /\ bootloader_boot_key' \in {bootloader_boot_key, "other"}
    /\ calm' = TRUE
    /\ UNCHANGED due

-----------------------------------------------------------------------------
(* bootloader_jmp_chk, in .init3, and the first lines of main.             *)

Goto(from, to) == pc = from /\ pc' = to

\* Mutants of ClearWDRF, KeyFits, ForgetKey and StoreKey.
KeepWDRF == UNCHANGED MCUSR
FlagNow == "WDRF" \in MCUSR /\ bootloader_boot_key = "MAGIC"
KeepKey == UNCHANGED bootloader_boot_key
StoreTruncated == bootloader_boot_key' = "truncated"

ClearWDRF == MCUSR' = MCUSR \ {"WDRF"}

\* wdt_disable, which the flag keeps from having an effect.
StopWatchdog == wdt' = IF "WDRF" \in MCUSR THEN wdt ELSE FALSE

KeyFits == "WDRF" \in old_mcusr /\ bootloader_boot_key = "MAGIC"
ForgetKey == bootloader_boot_key' = "zero"
StoreKey == bootloader_boot_key' = "MAGIC"

ReadFlags ==
    /\ Goto("read", "clear")
    /\ old_mcusr' = MCUSR
    /\ UNCHANGED <<bootloader_boot_key, MCUSR, wdt, due, calm>>

ClearFlag ==
    /\ Goto("clear", "disable") \/ Goto("main_clear", "main_disable")
    /\ ClearWDRF
    /\ UNCHANGED <<bootloader_boot_key, old_mcusr, wdt, due, calm>>

DisableWatchdog ==
    /\ Goto("disable", "test") \/ Goto("main_disable", "run")
    /\ StopWatchdog
    /\ UNCHANGED <<bootloader_boot_key, old_mcusr, MCUSR, due, calm>>

TestKey ==
    /\ Goto("test", IF KeyFits THEN "forget" ELSE "main_clear")
    /\ UNCHANGED <<bootloader_boot_key, old_mcusr, MCUSR, wdt, due, calm>>

Forget ==
    /\ Goto("forget", "jump")
    /\ ForgetKey
    /\ UNCHANGED <<old_mcusr, MCUSR, wdt, due, calm>>

Jump ==
    /\ Goto("jump", "boot")
    /\ due' = FALSE
    /\ UNCHANGED <<bootloader_boot_key, old_mcusr, MCUSR, wdt, calm>>

-----------------------------------------------------------------------------
(* REQ_ENTER_BOOTLOADER and enter_bootloader.                              *)

Request ==
    /\ Goto("run", "detach")
    /\ calm' = TRUE
    /\ UNCHANGED <<bootloader_boot_key, old_mcusr, MCUSR, wdt, due>>

\* USB_Disable, cli, and the two seconds for the host to notice.
Detach ==
    /\ Goto("detach", "store")
    /\ UNCHANGED <<bootloader_boot_key, old_mcusr, MCUSR, wdt, due, calm>>

Store ==
    /\ Goto("store", "arm")
    /\ StoreKey
    /\ UNCHANGED <<old_mcusr, MCUSR, wdt, due, calm>>

Arm ==
    /\ Goto("arm", "spin")
    /\ wdt' = TRUE
    /\ UNCHANGED <<bootloader_boot_key, old_mcusr, MCUSR, due, calm>>

-----------------------------------------------------------------------------

Step ==
    \/ ReadFlags \/ ClearFlag \/ DisableWatchdog \/ TestKey \/ Forget \/ Jump
    \/ Detach \/ Store \/ Arm

Next ==
    \/ Step \/ Request \/ LeaveBootloader
    \/ WatchdogReset \/ PowerOn \/ ExternalReset \/ BrownOut

Spec == Init /\ [][Next]_vars

\* The processor runs and a running watchdog fires; nobody has to ask for
\* the bootloader, or to leave it.
FairSpec == Spec /\ WF_vars(Step) /\ WF_vars(WatchdogReset)

-----------------------------------------------------------------------------

TypeOK ==
    /\ bootloader_boot_key \in Keys
    /\ old_mcusr \subseteq Flags /\ MCUSR \subseteq Flags
    /\ pc \in Startup \cup Main \cup Running \cup {"spin", "boot"}
    /\ wdt \in BOOLEAN /\ due \in BOOLEAN /\ calm \in BOOLEAN

\* Neither the application nor the bootloader is started, or runs, with the
\* watchdog on: it would be reset again after 16 ms, for ever.
WatchdogOff == pc \in Running \cup {"boot", "forget", "jump"} => ~wdt

\* A key from an interrupted request, from an earlier visit to the bootloader
\* or from the noise in RAM never starts the bootloader: it starts once for
\* each watchdog reset that follows a request, and at no other time.
BootloaderOnlyWhenDue == [][Goto("jump", "boot") => due]_vars

\* Unless something else resets the chip the request leads to the bootloader,
\* and a start for which none is due leads to the application.
RequestStartsBootloader == pc = "detach" /\ calm ~> pc = "boot" \/ ~calm
StartupEnds == pc = "read" /\ ~due /\ calm ~> pc = "run" \/ ~calm
=============================================================================
