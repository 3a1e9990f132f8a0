----------------------------- MODULE UptimeClock -----------------------------
(***************************************************************************)
(* The uptime of Clock.hpp: a hardware timer that counts down from         *)
(* Interval to 1 and begins again, and two variables that carry on from    *)
(* there.  The variables lie in .bss, which the build tool leaves out of   *)
(* the image and the start-up code does not clear: they begin with         *)
(* whatever the memory holds.                                              *)
(*                                                                         *)
(* The two halves of the timer are read low word first, which holds the    *)
(* high word for the read that follows: one step.                          *)
(***************************************************************************)
EXTENDS Integers

CONSTANTS
    cycleInSeconds, \* 60
    baseFrequency,  \* ticks of the timer in a second: 200 * 10^6
    scale,          \* units of the uptime in a second: 1000 everywhere
    MaxElapsed,     \* bound: ticks of the timer
    Leftovers       \* what the two variables may hold at power-on

ASSUME ClockAssumption ==
    /\ cycleInSeconds \in Nat \ {0}
    /\ baseFrequency \in Nat \ {0, 1}
    /\ scale \in Nat \ {0} /\ baseFrequency % scale = 0
    /\ MaxElapsed \in Nat
    /\ Leftovers \subseteq Nat

VARIABLES
    currentValue,           \* the timer, 0 before it is loaded
    uptimeClockMetaTicks,   \* cycles of the timer that were seen to end
    uptimeClockTicks,       \* ticks of the cycle at the last update
    elapsed,                \* ticks since the timer was loaded
    unread,                 \* ticks since the last update()
    ahead                   \* cycles the uptime counts that never were

clockVars ==
    <<currentValue, uptimeClockMetaTicks, uptimeClockTicks, elapsed, unread, ahead>>

Interval == cycleInSeconds * baseFrequency

Unknown == -1           \* ahead, before the first update()

ClockInit ==
    /\ currentValue = 0
    /\ uptimeClockMetaTicks \in Leftovers
    /\ uptimeClockTicks \in Leftovers
    /\ elapsed = 0
    /\ unread = 0
    /\ ahead = Unknown

(* Clock::initialize()                                                     *)
LoadTimer ==
    /\ currentValue' = Interval
    /\ UNCHANGED <<uptimeClockMetaTicks, uptimeClockTicks, elapsed, unread, ahead>>

(* The timer counts on.  The program updates once in every turn of the     *)
(* main loop, which takes less than a cycle of a minute.                   *)
TimerTick ==
    /\ currentValue > 0
    /\ elapsed < MaxElapsed
    /\ unread < Interval - 1
    /\ currentValue' = IF currentValue = 1 THEN Interval ELSE currentValue - 1
    /\ elapsed' = elapsed + 1
    /\ unread' = unread + 1
    /\ UNCHANGED <<uptimeClockMetaTicks, uptimeClockTicks, ahead>>

CycleEndedOrNot(hsTicks) == hsTicks <= uptimeClockTicks

(* The timer has gone round since the last update.                         *)
CycleEnded(hsTicks) == hsTicks < uptimeClockTicks

(* Clock::update()                                                         *)
Update ==
    LET hsTicks   == Interval - currentValue
        metaTicks == IF CycleEnded(hsTicks)
                     THEN uptimeClockMetaTicks + 1 ELSE uptimeClockMetaTicks
    IN
    /\ uptimeClockMetaTicks' = metaTicks
    /\ uptimeClockTicks' = hsTicks
    /\ unread' = 0
    /\ ahead' = IF ahead = Unknown
                THEN metaTicks - elapsed \div Interval
                ELSE ahead
    /\ UNCHANGED <<currentValue, elapsed>>

(* The quotient is taken of the ticks of the cycle, not of the whole.      *)
getUptimeScaledBy ==
    uptimeClockMetaTicks * cycleInSeconds * scale
        + uptimeClockTicks \div (baseFrequency \div scale)

(* Clock.hpp: after an update the uptime is the time that has passed, in   *)
(* whole units, and whole cycles that were found in the memory at          *)
(* power-on and never change again.  So no cycle of the timer is missed    *)
(* or counted twice, nothing is lost in the division where one cycle       *)
(* follows another, and the uptime never goes back.                        *)
UptimeExact ==
    (ahead # Unknown /\ unread = 0) =>
        getUptimeScaledBy =
            (elapsed + ahead * Interval) \div (baseFrequency \div scale)
=============================================================================
