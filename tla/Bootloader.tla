----------------------------- MODULE Bootloader -----------------------------
(***************************************************************************)
(* main() of the bootloader: the devices are set up one after the other,   *)
(* each building on those before it; then the clock, the network and the   *)
(* connection are polled until the image is in; then it is checked and     *)
(* run.                                                                    *)
(*                                                                         *)
(* A device may fail to come up.  The program notes it on the console and  *)
(* goes on, with a device that does not work and everything that needs it. *)
(* A busy wait for such a device need not end, and then nothing is noted.  *)
(***************************************************************************)
EXTENDS UptimeClock, Sequences

VARIABLES
    step,           \* the call of SetUp that comes next
    ready,          \* what works
    failed,         \* some device that had all it needs did not come up
    reported,       \* a call of SetUp wrote "[FAIL] ..." to the console
    phase           \* where main() is

bootVars == <<step, ready, failed, reported, phase, clockVars>>

-----------------------------------------------------------------------------
(* The calls of main() in their order: what each needs to work and what    *)
(* works after it, whether the device may fail it, whether it then says    *)
(* so, and whether it may stop there for ever: in a busy wait for a device *)
(* that does not answer, or at an access to memory that is not there.      *)

Call(name, needs, gives) ==
    [name |-> name, needs |-> needs, gives |-> gives,
     fails |-> FALSE, says |-> FALSE, stops |-> FALSE]

Checked(call) == [call EXCEPT !.fails = TRUE, !.says = TRUE]
MayStop(call) == [call EXCEPT !.stops = TRUE]

ConfigureHSTimer == Call("configureHSTimer", {}, "timerClock")
InitializeClock == Call("Clock::initialize", {"timerClock"}, "timer")

InvalidateCaches == Call("Cache::invalidateAll", {}, "cleanCaches")
ActivateCache == Call("Cache::setActive", {"cleanCaches"}, "instructionCache")

ConfigureUART == Call("configureUART0", {}, "uartClock")
InitializeUART == MayStop(Call("AllwinnerUART::initialize", {"uartClock"}, "console"))

(* A transfer that fails says so and its caller returns: what it was to    *)
(* switch on stays off.                                                    *)
Transferring(name, needs, gives) ==
    MayStop(Checked(Call(name, needs \cup {"console"}, gives)))

ConfigureRSB == Call("configureRSB", {}, "rsbClock")
InitializeRSB == Transferring("AllwinnerRSB::initialize", {"rsbClock"}, "rsb")
InitializePMIC == Transferring("AXP803::initialize", {"rsb"}, "pmic")
ConfigureDCDC5 == Transferring("configureDCDC5", {"pmic"}, "dramPower")

ConfigurePLL == MayStop(Call("configurePLL", {}, "pll"))
ConfigureDRAM == MayStop(Call("configureDRAM", {"pll"}, "dramClock"))

(* The DRAM is trained, and the error bits of the training are looked at.  *)
InitializeDRAM ==
    MayStop(Checked(Call("AllwinnerDRAM::initialize",
                         {"dramClock", "dramPower", "console"}, "dram")))

(* The page table is written at the end of the DRAM; nobody looks whether  *)
(* it is there.                                                            *)
InitializeMMU ==
    MayStop(Call("MMU::initialize", {"dram", "cleanCaches", "console"}, "memory"))

ConfigureDC1SW == Transferring("configureDC1SW", {"pmic"}, "phyPower")
ConfigureEMAC == Call("configureEMAC", {}, "emacClock")

(* A PHY that does not tell its name is noted and the MAC is left as it    *)
(* is; the driver sets up its rings nevertheless.                          *)
InitializeEMAC ==
    MayStop(Checked(Call("AllwinnerEMACDriver::initialize",
        {"memory", "phyPower", "emacClock", "timer", "console"}, "ethernet")))

SetAddress == MayStop(Call("setMACAddress", {"ethernet"}, "address"))
ListenForDownload == MayStop(Call("listen", {"memory"}, "connection"))

SetUpMemoryFirst ==
    << ConfigureHSTimer, InitializeClock, InvalidateCaches, ActivateCache,
       ConfigureUART, InitializeUART, ConfigurePLL, ConfigureDRAM,
       InitializeDRAM, InitializeMMU, ConfigureRSB, InitializeRSB,
       InitializePMIC, ConfigureDCDC5, ConfigureDC1SW, ConfigureEMAC,
       InitializeEMAC, SetAddress, ListenForDownload >>

SetUp ==
    << ConfigureHSTimer, InitializeClock, InvalidateCaches, ActivateCache,
       ConfigureUART, InitializeUART, ConfigureRSB, InitializeRSB,
       InitializePMIC, ConfigureDCDC5, ConfigurePLL, ConfigureDRAM,
       InitializeDRAM, InitializeMMU, ConfigureDC1SW, ConfigureEMAC,
       InitializeEMAC, SetAddress, ListenForDownload >>

(* What works when the first n calls have done what they should.           *)
GivenBy(n) == { SetUp[i].gives : i \in 1..n }

Silent(call) == FALSE

(* Whether a failed call leaves a note: transfer() and the devices do, if  *)
(* the console works.                                                      *)
Notes(call) == call.says /\ "console" \in ready

-----------------------------------------------------------------------------
BootInit ==
    /\ ClockInit
    /\ step = 1
    /\ ready = {}
    /\ failed = FALSE
    /\ reported = FALSE
    /\ phase = "setup"

Current == SetUp[step]

(* What the calls do to the clock: one loads the timer, and the driver     *)
(* prints the uptime.                                                      *)
ClockEffect ==
    CASE Current.name = "Clock::initialize" -> LoadTimer
      [] Current.name = "AllwinnerEMACDriver::initialize" -> Update
      [] OTHER -> UNCHANGED clockVars

AdvanceEarly ==
    /\ step' = step + 1
    /\ phase' = IF step = Len(SetUp) - 1 THEN "polling" ELSE "setup"

Advance ==
    /\ step' = step + 1
    /\ phase' = IF step = Len(SetUp) THEN "polling" ELSE "setup"

(* A call whose device works.                                              *)
Succeed ==
    /\ phase = "setup"
    /\ Current.needs \subseteq ready
    /\ ready' = ready \cup {Current.gives}
    /\ ClockEffect
    /\ Advance
    /\ UNCHANGED <<failed, reported>>

(* A call whose device does not work, or does not have what it needs.      *)
Fail ==
    /\ phase = "setup"
    /\ Current.fails \/ ~(Current.needs \subseteq ready)
    /\ failed' = (failed \/ Current.needs \subseteq ready)
    /\ reported' = (reported \/ Notes(Current))
    /\ ClockEffect
    /\ Advance
    /\ UNCHANGED ready

(* Such a call that does not return.                                       *)
Hang ==
    /\ phase = "setup"
    /\ Current.stops
    /\ Current.fails \/ ~(Current.needs \subseteq ready)
    /\ phase' = "stuck"
    /\ UNCHANGED <<step, ready, failed, reported, clockVars>>

(* One turn of the main loop; the connection may have finished in it.      *)
PollAll ==
    /\ phase = "polling"
    /\ Update
    /\ phase' \in {"polling"} \cup
                  (IF "connection" \in ready /\ "address" \in ready
                   THEN {"received"} ELSE {})
    /\ UNCHANGED <<step, ready, failed, reported>>

(* The image is checked (BootImage), and run or refused.                   *)
Judge ==
    /\ phase = "received"
    /\ phase' \in {"running", "stopped"}
    /\ UNCHANGED <<step, ready, failed, reported, clockVars>>

(* The image returns to main(), and main() to the start-up code, which     *)
(* stops for an interrupt.                                                 *)
Return ==
    /\ phase = "running"
    /\ phase' = "stopped"
    /\ UNCHANGED <<step, ready, failed, reported, clockVars>>

(* Time passes; how long it does while main() has ended does not matter.   *)
Pass ==
    /\ phase \in {"setup", "polling"}
    /\ TimerTick
    /\ UNCHANGED <<step, ready, failed, reported, phase>>

BootNext ==
    \/ Succeed
    \/ Fail
    \/ Hang
    \/ PollAll
    \/ Judge
    \/ Return
    \/ Pass

BootSpec == BootInit /\ [][BootNext]_bootVars

-----------------------------------------------------------------------------
(* Properties.                                                             *)

(* main() sets everything up before it polls; only what the calls so far   *)
(* can give works, and the timer shows a value of its cycle.               *)
BootTypeOK ==
    /\ step \in 1..(Len(SetUp) + 1)
    /\ ready \subseteq GivenBy(step - 1)
    /\ failed \in BOOLEAN /\ reported \in BOOLEAN
    /\ phase \in {"setup", "stuck", "polling", "received", "running", "stopped"}
    /\ (phase \in {"setup", "stuck"}) <=> (step <= Len(SetUp))
    /\ currentValue \in 0..Interval
    /\ uptimeClockMetaTicks \in Nat /\ uptimeClockTicks \in Nat

(* The console tells of a start that went wrong, and of no other: main()   *)
(* gets past a call that did not do its work only with a "[FAIL]" on the   *)
(* console (its own, or that of the device it builds on), and the order of *)
(* the calls makes none fail while all devices work.                       *)
FailureReported ==
    /\ ready # GivenBy(step - 1) => reported
    /\ reported => failed
=============================================================================
