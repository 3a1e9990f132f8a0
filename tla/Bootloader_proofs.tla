-------------------------- MODULE Bootloader_proofs --------------------------
(***************************************************************************)
(* Proofs about the start of main() and its clock, for every length of a   *)
(* cycle, frequency and scale, every number of ticks and every value the   *)
(* memory may hold at power-on; and about the image the bootloader judges, *)
(* for every content whose length fits the header.                         *)
(***************************************************************************)
EXTENDS Bootloader, BootImage, SumTheorems, SequenceTheorems, TLAPS

(* Division with remainder.                                                 *)
LEMMA TimesGrows ==
    ASSUME NEW a \in Nat \ {0}, NEW d \in Nat
    PROVE  a * d \in Nat /\ a * d >= d
  <1>1. PICK b \in Nat : a = b + 1
    <2>1. a - 1 \in Nat /\ a = (a - 1) + 1
      OBVIOUS
    <2> QED
      BY <2>1
  <1>2. b * d \in Nat
    OBVIOUS
  <1>3. a * d = b * d + d
    BY <1>1
  <1> QED
    BY <1>2, <1>3

LEMMA Division ==
    ASSUME NEW a \in Int, NEW d \in Nat \ {0}
    PROVE  a \div d \in Int /\ a % d \in 0 .. d - 1 /\ a = (a \div d) * d + (a % d)
  OBVIOUS

LEMMA DivisionUnique ==
    ASSUME NEW a \in Int, NEW d \in Nat \ {0}, NEW q \in Int, NEW r \in 0 .. d - 1,
           a = q * d + r
    PROVE  a \div d = q /\ a % d = r
  <1> DEFINE p == a \div d
             s == a % d
  <1>1. p \in Int /\ s \in 0 .. d - 1 /\ a = p * d + s
    BY Division
  <1> HIDE DEF p, s
  <1>2. ~(p > q)
    <2>1. SUFFICES ASSUME p > q
                   PROVE  FALSE
      OBVIOUS
    <2>2. p - q \in Nat \ {0}
      BY <1>1, <2>1
    <2>3. (p - q) * d >= d
      BY <2>2, TimesGrows
    <2>4. (p - q) * d = p * d - q * d
      BY <1>1
    <2> QED
      BY <1>1, <2>3, <2>4
  <1>3. ~(q > p)
    <2>1. SUFFICES ASSUME q > p
                   PROVE  FALSE
      OBVIOUS
    <2>2. q - p \in Nat \ {0}
      BY <1>1, <2>1
    <2>3. (q - p) * d >= d
      BY <2>2, TimesGrows
    <2>4. (q - p) * d = q * d - p * d
      BY <1>1
    <2> QED
      BY <1>1, <2>3, <2>4
  <1>4. p = q
    BY <1>1, <1>2, <1>3
  <1>5. s = r
    BY <1>1, <1>4
  <1> QED
    BY <1>4, <1>5 DEF p, s
-----------------------------------------------------------------------------
(* The clock.  elapsed - unread is the time of the last update.             *)
ClockTypeOK ==
    /\ currentValue \in 0 .. Interval
    /\ uptimeClockMetaTicks \in Nat /\ uptimeClockTicks \in Nat
    /\ elapsed \in Nat /\ unread \in 0 .. Interval - 1 /\ unread <= elapsed
    /\ ahead \in Int

(* The loaded timer shows where in its cycle the time is; the two variables *)
(* show where it was at the last update.                                    *)
ClockInv ==
    /\ ClockTypeOK
    /\ currentValue = 0 => elapsed = 0
    /\ currentValue > 0 => Interval - currentValue = elapsed % Interval
    /\ ahead = Unknown => unread = elapsed
    /\ ahead # Unknown =>
          /\ ahead \in Nat
          /\ uptimeClockTicks = (elapsed - unread) % Interval
          /\ uptimeClockMetaTicks = (elapsed - unread) \div Interval + ahead

LEMMA IntervalType == Interval \in Nat \ {0} /\ Interval >= 2
  <1>1. cycleInSeconds \in Nat \ {0} /\ baseFrequency \in Nat /\ baseFrequency >= 2
    BY ClockAssumption
  <1>2. cycleInSeconds * baseFrequency \in Nat /\ cycleInSeconds * baseFrequency >= baseFrequency
    BY <1>1, TimesGrows
  <1> QED
    BY <1>1, <1>2 DEF Interval

LEMMA ClockInitial ==
    ASSUME ClockInit
    PROVE  ClockInv /\ currentValue = 0
  <1>1. /\ currentValue = 0 /\ elapsed = 0 /\ unread = 0 /\ ahead = Unknown
        /\ uptimeClockMetaTicks \in Nat /\ uptimeClockTicks \in Nat
    BY ClockAssumption DEF ClockInit
  <1> QED
    BY <1>1, IntervalType DEF ClockInv, ClockTypeOK, Unknown

LEMMA LoadKeeps ==
    ASSUME ClockInv, LoadTimer, currentValue = 0
    PROVE  ClockInv' /\ currentValue' > 0
  <1>1. /\ currentValue' = Interval
        /\ UNCHANGED <<uptimeClockMetaTicks, uptimeClockTicks, elapsed, unread, ahead>>
    BY DEF LoadTimer
  <1>2. elapsed = 0 /\ Interval \in Nat \ {0}
    BY IntervalType DEF ClockInv
  <1>3. 0 % Interval = 0
    BY <1>2, DivisionUnique
  <1> QED
    BY <1>1, <1>2, <1>3 DEF ClockInv, ClockTypeOK

LEMMA TickKeeps ==
    ASSUME ClockInv, TimerTick
    PROVE  ClockInv' /\ currentValue' > 0
  <1> DEFINE q == elapsed \div Interval
             r == elapsed % Interval
  <1>1. /\ Interval \in Nat \ {0} /\ Interval >= 2
        /\ currentValue \in 1 .. Interval /\ elapsed \in Nat /\ unread \in 0 .. Interval - 2
        /\ unread <= elapsed
        /\ Interval - currentValue = r
        /\ currentValue' = IF currentValue = 1 THEN Interval ELSE currentValue - 1
        /\ elapsed' = elapsed + 1 /\ unread' = unread + 1
        /\ UNCHANGED <<uptimeClockMetaTicks, uptimeClockTicks, ahead>>
    BY IntervalType DEF ClockInv, ClockTypeOK, TimerTick
  <1>2. q \in Int /\ r \in 0 .. Interval - 1 /\ elapsed = q * Interval + r
    BY <1>1, Division
  <1> HIDE DEF q, r
  <1>3. Interval - currentValue' = elapsed' % Interval
    <2>1. CASE currentValue = 1
      <3>1. r = Interval - 1 /\ elapsed' = q * Interval + Interval /\ (q + 1) * Interval = q * Interval + Interval
        BY <1>1, <1>2, <2>1
      <3>2. elapsed' = (q + 1) * Interval + 0 /\ q + 1 \in Int /\ elapsed' \in Int
        BY <1>1, <1>2, <3>1
      <3>3. elapsed' % Interval = 0
        BY <1>1, <3>2, DivisionUnique
      <3> QED
        BY <1>1, <2>1, <3>3
    <2>2. CASE currentValue # 1
      <3>1. r + 1 \in 0 .. Interval - 1 /\ elapsed' = q * Interval + (r + 1) /\ elapsed' \in Int
        BY <1>1, <1>2, <2>2
      <3>2. elapsed' % Interval = r + 1
        BY <1>1, <1>2, <3>1, DivisionUnique
      <3> QED
        BY <1>1, <2>2, <3>2
    <2> QED
      BY <2>1, <2>2
  <1>4. elapsed' - unread' = elapsed - unread
    BY <1>1
  <1>5. ClockTypeOK' /\ currentValue' > 0
    BY <1>1 DEF ClockInv, ClockTypeOK, Interval
  <1> QED
    BY <1>1, <1>3, <1>4, <1>5 DEF ClockInv, Interval, Unknown

LEMMA UpdateKeeps ==
    ASSUME ClockInv, Update, currentValue > 0
    PROVE  ClockInv' /\ currentValue' > 0
  <1> DEFINE q == elapsed \div Interval
             r == elapsed % Interval
             p == (elapsed - unread) \div Interval
             s == (elapsed - unread) % Interval
             hsTicks == Interval - currentValue
             metaTicks == IF CycleEnded(hsTicks)
                          THEN uptimeClockMetaTicks + 1 ELSE uptimeClockMetaTicks
  <1>1. /\ Interval \in Nat \ {0}
        /\ currentValue \in 1 .. Interval /\ elapsed \in Nat /\ unread \in 0 .. Interval - 1
        /\ unread <= elapsed /\ ahead \in Int
        /\ uptimeClockMetaTicks \in Nat /\ uptimeClockTicks \in Nat
        /\ hsTicks = r
        /\ ahead = Unknown => unread = elapsed
        /\ ahead # Unknown =>
              ahead \in Nat /\ uptimeClockTicks = s /\ uptimeClockMetaTicks = p + ahead
    BY IntervalType DEF ClockInv, ClockTypeOK
  <1>2. /\ uptimeClockMetaTicks' = metaTicks /\ uptimeClockTicks' = hsTicks /\ unread' = 0
        /\ ahead' = IF ahead = Unknown THEN metaTicks - q ELSE ahead
        /\ currentValue' = currentValue /\ elapsed' = elapsed
    BY DEF Update
  <1>3. q \in Int /\ r \in 0 .. Interval - 1 /\ elapsed = q * Interval + r
    BY <1>1, Division
  <1>4. p \in Int /\ s \in 0 .. Interval - 1 /\ elapsed - unread = p * Interval + s
    BY <1>1, Division
  <1>5. CycleEnded(hsTicks) <=> r < uptimeClockTicks
    BY <1>1 DEF CycleEnded
  <1>6. metaTicks \in Nat /\ metaTicks = IF r < uptimeClockTicks
                          THEN uptimeClockMetaTicks + 1 ELSE uptimeClockMetaTicks
    BY <1>1, <1>5
  <1> HIDE DEF q, r, p, s, hsTicks, metaTicks
  <1>9. ASSUME ahead' \in Nat, uptimeClockTicks' = r, uptimeClockMetaTicks' = q + ahead'
        PROVE  ClockInv' /\ currentValue' > 0
    <2>1. Interval' = Interval
      BY DEF Interval
    <2>2. ClockTypeOK'
      BY <1>1, <1>2, <1>3, <1>6, <1>9, <2>1 DEF ClockTypeOK
    <2>3. elapsed' - unread' = elapsed
      BY <1>1, <1>2
    <2>4. /\ currentValue' > 0 /\ Interval - currentValue' = elapsed' % Interval
          /\ ahead' # Unknown
          /\ uptimeClockTicks' = (elapsed' - unread') % Interval
          /\ uptimeClockMetaTicks' = (elapsed' - unread') \div Interval + ahead'
      BY <1>1, <1>2, <1>9, <2>3 DEF q, r, hsTicks, Unknown
    <2> QED
      BY <1>1, <1>9, <2>1, <2>2, <2>4 DEF ClockInv, Unknown
  <1>7. CASE ahead = Unknown
    <2>1. elapsed = 0 * Interval + elapsed /\ elapsed \in 0 .. Interval - 1
      BY <1>1, <1>7
    <2>2. q = 0
      BY <1>1, <2>1, DivisionUnique DEF q
    <2>3. ahead' = metaTicks /\ ahead' \in Nat
      BY <1>2, <1>6, <1>7, <2>2
    <2>4. uptimeClockTicks' = r /\ uptimeClockMetaTicks' = q + ahead'
      BY <1>1, <1>2, <1>6, <2>2, <2>3
    <2> QED
      BY <1>9, <2>3, <2>4
  <1>8. CASE ahead # Unknown
    <2>1. q = IF r < s THEN p + 1 ELSE p
      <3>1. CASE s + unread < Interval
        <4>1. elapsed = p * Interval + (s + unread) /\ s + unread \in 0 .. Interval - 1
          BY <1>1, <1>4, <3>1
        <4>2. elapsed \in Int /\ p \in Int /\ Interval \in Nat \ {0}
          BY <1>1, <1>4
        <4>3. elapsed \div Interval = p /\ elapsed % Interval = s + unread
          BY ONLY <4>1, <4>2, DivisionUnique
        <4> QED
          BY <1>1, <1>4, <3>1, <4>3 DEF q, r
      <3>2. CASE s + unread >= Interval
        <4>1. /\ elapsed = p * Interval + Interval + (s + unread - Interval)
              /\ s + unread - Interval \in 0 .. Interval - 1
              /\ (p + 1) * Interval = p * Interval + Interval
          BY <1>1, <1>4, <3>2
        <4>2. /\ elapsed = (p + 1) * Interval + (s + unread - Interval) /\ p + 1 \in Int
              /\ elapsed \in Int /\ Interval \in Nat \ {0}
          BY <1>1, <1>4, <4>1
        <4>3. elapsed \div Interval = p + 1 /\ elapsed % Interval = s + unread - Interval
          BY ONLY <4>1, <4>2, DivisionUnique
        <4> QED
          BY <1>1, <1>4, <3>2, <4>3 DEF q, r
      <3> QED
        BY <1>1, <1>4, <3>1, <3>2
    <2>2. uptimeClockTicks' = r /\ uptimeClockMetaTicks' = q + ahead /\ ahead' = ahead
      BY <1>1, <1>2, <1>3, <1>4, <1>6, <1>8, <2>1
    <2> QED
      BY <1>1, <1>8, <1>9, <2>2
  <1> QED
    BY <1>7, <1>8

LEMMA UptimeSuffices ==
    ASSUME ClockInv
    PROVE  UptimeExact
  <1> SUFFICES ASSUME ahead # Unknown, unread = 0
               PROVE  getUptimeScaledBy =
                        (elapsed + ahead * Interval) \div (baseFrequency \div scale)
    BY DEF UptimeExact
  <1> DEFINE d == baseFrequency \div scale
             q == elapsed \div Interval
             r == elapsed % Interval
             units == uptimeClockMetaTicks * cycleInSeconds * scale
             sub == r \div d
             rest == r % d
  <1>1. /\ Interval \in Nat \ {0} /\ elapsed \in Nat /\ ahead \in Nat
        /\ elapsed - unread = elapsed
        /\ uptimeClockTicks = r /\ uptimeClockMetaTicks = q + ahead
        /\ uptimeClockMetaTicks \in Nat /\ uptimeClockTicks \in Nat
    BY IntervalType DEF ClockInv, ClockTypeOK
  <1>2. q \in Int /\ r \in 0 .. Interval - 1 /\ elapsed = q * Interval + r
    BY <1>1, Division
  <1>3. /\ baseFrequency \in Nat \ {0} /\ scale \in Nat \ {0} /\ cycleInSeconds \in Nat \ {0}
        /\ baseFrequency % scale = 0
    BY ClockAssumption
  <1>4. d \in Int /\ baseFrequency = d * scale
    <2>1. /\ baseFrequency \div scale \in Int
          /\ baseFrequency = (baseFrequency \div scale) * scale + (baseFrequency % scale)
      BY <1>3, Division
    <2> HIDE DEF d
    <2>2. d \in Int /\ baseFrequency = d * scale + 0
      BY <1>3, <2>1 DEF d
    <2> QED
      BY <1>3, <2>2
  <1>5. d \in Nat \ {0}
    <2> HIDE DEF d
    <2>1. d # 0
      BY <1>3, <1>4
    <2>2. ~(d < 0)
      <3>1. SUFFICES ASSUME d < 0
                     PROVE  FALSE
        OBVIOUS
      <3>2. -d \in Nat \ {0} /\ scale \in Nat
        BY <1>3, <1>4, <3>1
      <3>3. (-d) * scale \in Nat
        BY <3>2, TimesGrows
      <3>4. (-d) * scale = -(d * scale)
        BY <1>3, <1>4
      <3> QED
        BY <1>3, <1>4, <3>3, <3>4
    <2> QED
      BY <1>4, <2>1, <2>2
  <1> HIDE DEF d, q, r, sub, rest
  <1>6. sub \in Int /\ rest \in 0 .. d - 1 /\ r = sub * d + rest
    BY <1>2, <1>5, Division DEF sub, rest
  <1>7. units \in Int
    BY <1>1, <1>3
  <1>8. uptimeClockMetaTicks * Interval = units * d
    <2>1. Interval = cycleInSeconds * (d * scale)
      BY <1>4 DEF Interval
    <2>2. cycleInSeconds * (d * scale) = (cycleInSeconds * scale) * d
      BY <1>3, <1>5
    <2>3. uptimeClockMetaTicks * ((cycleInSeconds * scale) * d)
            = (uptimeClockMetaTicks * (cycleInSeconds * scale)) * d
      BY <1>1, <1>3, <1>5
    <2>4. uptimeClockMetaTicks * (cycleInSeconds * scale) = units
      BY <1>1, <1>3
    <2> QED
      BY <2>1, <2>2, <2>3, <2>4
  <1> HIDE DEF units
  <1>9. uptimeClockMetaTicks * Interval = q * Interval + ahead * Interval
    BY <1>1, <1>2
  <1>10. /\ units * d \in Int /\ sub * d \in Int /\ q * Interval \in Int /\ ahead * Interval \in Int
         /\ (units + sub) * d = units * d + sub * d
    BY <1>1, <1>2, <1>5, <1>6, <1>7
  <1>11. elapsed + ahead * Interval = (units + sub) * d + rest
    BY <1>1, <1>2, <1>6, <1>8, <1>9, <1>10
  <1>12. elapsed + ahead * Interval \in Int /\ units + sub \in Int
    BY <1>1, <1>6, <1>7, <1>10
  <1>13. (elapsed + ahead * Interval) \div d = units + sub
    BY <1>5, <1>6, <1>11, <1>12, DivisionUnique
  <1>14. getUptimeScaledBy = units + sub
    BY <1>1 DEF getUptimeScaledBy, units, sub, d
  <1> QED
    BY <1>13, <1>14 DEF d
-----------------------------------------------------------------------------
(* main().  What SetUp holds, call by call.                                 *)
LEMMA SetUpCalls ==
    /\ Len(SetUp) = 19
    /\ SetUp[1] = ConfigureHSTimer /\ SetUp[2] = InitializeClock
    /\ SetUp[3] = InvalidateCaches /\ SetUp[4] = ActivateCache
    /\ SetUp[5] = ConfigureUART /\ SetUp[6] = InitializeUART
    /\ SetUp[7] = ConfigureRSB /\ SetUp[8] = InitializeRSB
    /\ SetUp[9] = InitializePMIC /\ SetUp[10] = ConfigureDCDC5
    /\ SetUp[11] = ConfigurePLL /\ SetUp[12] = ConfigureDRAM
    /\ SetUp[13] = InitializeDRAM /\ SetUp[14] = InitializeMMU
    /\ SetUp[15] = ConfigureDC1SW /\ SetUp[16] = ConfigureEMAC
    /\ SetUp[17] = InitializeEMAC /\ SetUp[18] = SetAddress
    /\ SetUp[19] = ListenForDownload
  BY DEF SetUp

(* The calls are in an order in which each finds what it needs, the console  *)
(* among it if the call may fail.                                           *)
LEMMA SetUpOrder ==
    /\ \A i \in 1 .. 19 :
          /\ \A need \in SetUp[i].needs : \E j \in 1 .. i - 1 : SetUp[j].gives = need
          /\ SetUp[i].fails => SetUp[i].says /\ "console" \in SetUp[i].needs
          /\ SetUp[i].name = "Clock::initialize" <=> i = 2
          /\ SetUp[i].name = "AllwinnerEMACDriver::initialize" => i = 17
    /\ \A i \in 1 .. 19 : SetUp[i].fails \in BOOLEAN /\ SetUp[i].says \in BOOLEAN
  <1> DEFINE Good(i) ==
        /\ \A need \in SetUp[i].needs : \E j \in 1 .. i - 1 : SetUp[j].gives = need
        /\ SetUp[i].fails => SetUp[i].says /\ "console" \in SetUp[i].needs
        /\ SetUp[i].name = "Clock::initialize" <=> i = 2
        /\ SetUp[i].name = "AllwinnerEMACDriver::initialize" => i = 17
        /\ SetUp[i].fails \in BOOLEAN /\ SetUp[i].says \in BOOLEAN
  <1>1. SetUp[1].gives = "timerClock" /\ Good(1)
    BY SetUpCalls DEF ConfigureHSTimer, Call
  <1>2. SetUp[2].gives = "timer" /\ Good(2)
    BY SetUpCalls, <1>1 DEF InitializeClock, Call
  <1>3. SetUp[3].gives = "cleanCaches" /\ Good(3)
    BY SetUpCalls DEF InvalidateCaches, Call
  <1>4. SetUp[4].gives = "instructionCache" /\ Good(4)
    BY SetUpCalls, <1>3 DEF ActivateCache, Call
  <1>5. SetUp[5].gives = "uartClock" /\ Good(5)
    BY SetUpCalls DEF ConfigureUART, Call
  <1>6. SetUp[6].gives = "console" /\ Good(6)
    BY SetUpCalls, <1>5 DEF InitializeUART, Call, MayStop
  <1>7. SetUp[7].gives = "rsbClock" /\ Good(7)
    BY SetUpCalls DEF ConfigureRSB, Call
  <1>8. SetUp[8].gives = "rsb" /\ Good(8)
    BY SetUpCalls, <1>6, <1>7 DEF InitializeRSB, Call, Transferring, Checked, MayStop
  <1>9. SetUp[9].gives = "pmic" /\ Good(9)
    BY SetUpCalls, <1>6, <1>8 DEF InitializePMIC, Call, Transferring, Checked, MayStop
  <1>10. SetUp[10].gives = "dramPower" /\ Good(10)
    BY SetUpCalls, <1>6, <1>9 DEF ConfigureDCDC5, Call, Transferring, Checked, MayStop
  <1>11. SetUp[11].gives = "pll" /\ Good(11)
    BY SetUpCalls DEF ConfigurePLL, Call, MayStop
  <1>12. SetUp[12].gives = "dramClock" /\ Good(12)
    BY SetUpCalls, <1>11 DEF ConfigureDRAM, Call, MayStop
  <1>13. SetUp[13].gives = "dram" /\ Good(13)
    BY SetUpCalls, <1>6, <1>10, <1>12 DEF InitializeDRAM, Call, Checked, MayStop
  <1>14. SetUp[14].gives = "memory" /\ Good(14)
    BY SetUpCalls, <1>3, <1>6, <1>13 DEF InitializeMMU, Call, MayStop
  <1>15. SetUp[15].gives = "phyPower" /\ Good(15)
    BY SetUpCalls, <1>6, <1>9 DEF ConfigureDC1SW, Call, Transferring, Checked, MayStop
  <1>16. SetUp[16].gives = "emacClock" /\ Good(16)
    BY SetUpCalls DEF ConfigureEMAC, Call
  <1>17. SetUp[17].gives = "ethernet" /\ Good(17)
    BY SetUpCalls, <1>2, <1>6, <1>14, <1>15, <1>16 DEF InitializeEMAC, Call, Checked, MayStop
  <1>18. SetUp[18].gives = "address" /\ Good(18)
    BY SetUpCalls, <1>17 DEF SetAddress, Call, MayStop
  <1>19. SetUp[19].gives = "connection" /\ Good(19)
    BY SetUpCalls, <1>14 DEF ListenForDownload, Call, MayStop
  <1> HIDE DEF Good
  <1> SUFFICES ASSUME NEW i \in 1 .. 19
               PROVE  Good(i)
    BY DEF Good
  <1> QED
    BY <1>1, <1>2, <1>3, <1>4, <1>5, <1>6, <1>7, <1>8, <1>9, <1>10, <1>11, <1>12, <1>13, <1>14, <1>15, <1>16, <1>17, <1>18, <1>19
-----------------------------------------------------------------------------
(* The start.  The timer is loaded by the second call, so every update()    *)
(* finds it running.                                                        *)
BootInv ==
    /\ ClockInv
    /\ step \in 1 .. 20
    /\ ready \subseteq GivenBy(step - 1)
    /\ failed \in BOOLEAN /\ reported \in BOOLEAN
    /\ phase \in {"setup", "stuck", "polling", "received", "running", "stopped"}
    /\ (phase \in {"setup", "stuck"}) <=> (step <= 19)
    /\ currentValue = 0 <=> step <= 2
    /\ FailureReported

(* What n calls give is what the calls before the last gave, and its own.   *)
LEMMA GivenByOneMore ==
    ASSUME NEW n \in 1 .. 19
    PROVE  GivenBy(n) = GivenBy(n - 1) \cup {SetUp[n].gives}
  <1>1. 1 .. n = (1 .. n - 1) \cup {n}
    OBVIOUS
  <1> QED
    BY <1>1 DEF GivenBy

(* When nothing failed so far, the next call finds what it needs; if it     *)
(* fails it says so, on a console that works.                               *)
LEMMA NextCallIsServed ==
    ASSUME NEW n \in 1 .. 19
    PROVE  /\ SetUp[n].needs \subseteq GivenBy(n - 1)
           /\ SetUp[n].fails => SetUp[n].says /\ "console" \in GivenBy(n - 1)
  <1>1. SetUp[n].needs \subseteq GivenBy(n - 1)
    <2>1. SUFFICES ASSUME NEW need \in SetUp[n].needs
                   PROVE  need \in GivenBy(n - 1)
      OBVIOUS
    <2>2. PICK j \in 1 .. n - 1 : SetUp[j].gives = need
      BY SetUpOrder
    <2> QED
      BY <2>2 DEF GivenBy
  <1> QED
    BY <1>1, SetUpOrder

(* A call of the set-up leaves the clock right, and loads the timer when it *)
(* is the second.                                                           *)
LEMMA CallKeepsClock ==
    ASSUME BootInv, phase = "setup", ClockEffect, Advance
    PROVE  ClockInv' /\ (currentValue' = 0 <=> step' <= 2)
  <1>1. /\ step \in 1 .. 19 /\ step' = step + 1 /\ ClockInv
        /\ currentValue = 0 <=> step <= 2
    BY DEF BootInv, Advance
  <1>2. currentValue \in Nat /\ Current = SetUp[step]
    BY <1>1, IntervalType DEF ClockInv, ClockTypeOK, Current
  <1>3. CASE Current.name = "Clock::initialize"
    <2>1. LoadTimer
      BY <1>3 DEF ClockEffect
    <2>2. step = 2
      BY <1>1, <1>2, <1>3, SetUpOrder
    <2>3. currentValue = 0
      BY <1>1, <2>2
    <2>4. ClockInv' /\ currentValue' > 0
      BY <1>1, <2>1, <2>3, LoadKeeps
    <2> QED
      BY <1>1, <2>2, <2>4
  <1>4. CASE Current.name # "Clock::initialize"
    <2>1. step # 2
      BY <1>1, <1>2, <1>4, SetUpOrder
    <2>2. currentValue' = currentValue /\ ClockInv'
      <3>1. CASE Current.name = "AllwinnerEMACDriver::initialize"
        <4>1. Update /\ step = 17
          BY <1>1, <1>2, <3>1, SetUpOrder DEF ClockEffect
        <4>2. currentValue > 0
          BY <1>1, <1>2, <4>1
        <4> QED
          BY <1>1, <4>1, <4>2, UpdateKeeps DEF Update
      <3>2. CASE Current.name # "AllwinnerEMACDriver::initialize"
        <4>1. UNCHANGED clockVars
          BY <1>4, <3>2 DEF ClockEffect
        <4> QED
          BY <1>1, <4>1 DEF clockVars, ClockInv, ClockTypeOK
      <3> QED
        BY <3>1, <3>2
    <2> QED
      BY <1>1, <2>1, <2>2
  <1> QED
    BY <1>3, <1>4

LEMMA BootInitial ==
    ASSUME BootInit
    PROVE  BootInv
  <1>1. ClockInv /\ currentValue = 0
    BY ClockInitial DEF BootInit
  <1>2. step = 1 /\ ready = {} /\ failed = FALSE /\ reported = FALSE /\ phase = "setup"
    BY DEF BootInit
  <1>3. GivenBy(step - 1) = {}
    BY <1>2 DEF GivenBy
  <1>4. FailureReported /\ failed \in BOOLEAN /\ reported \in BOOLEAN
    BY <1>2, <1>3 DEF FailureReported
  <1>5. step \in 1 .. 20 /\ step <= 2 /\ phase = "setup"
    BY <1>2
  <1> QED
    BY <1>1, <1>2, <1>3, <1>4, <1>5 DEF BootInv

LEMMA SucceedKeeps ==
    ASSUME BootInv, Succeed
    PROVE  BootInv'
  <1>1. /\ phase = "setup" /\ step \in 1 .. 19 /\ step' = step + 1
        /\ phase' = IF step = 19 THEN "polling" ELSE "setup"
        /\ ready' = ready \cup {SetUp[step].gives}
        /\ failed' = failed /\ reported' = reported
        /\ failed \in BOOLEAN /\ reported \in BOOLEAN
    BY SetUpCalls DEF BootInv, Succeed, Advance, Current
  <1>2. ClockInv' /\ (currentValue' = 0 <=> step' <= 2)
    BY CallKeepsClock DEF Succeed
  <1>3. /\ ready \subseteq GivenBy(step - 1) /\ FailureReported
        /\ GivenBy(step) = GivenBy(step - 1) \cup {SetUp[step].gives}
    BY <1>1, GivenByOneMore DEF BootInv
  <1>4. step' - 1 = step
    BY <1>1
  <1>5. ready' \subseteq GivenBy(step' - 1) /\ FailureReported'
    BY <1>1, <1>3, <1>4 DEF FailureReported
  <1>6. /\ step' \in 1 .. 20 /\ phase' \in {"setup", "polling"}
        /\ (phase' = "setup") <=> (step' <= 19)
    BY <1>1
  <1> QED
    BY <1>1, <1>2, <1>5, <1>6 DEF BootInv

LEMMA FailKeeps ==
    ASSUME BootInv, Fail
    PROVE  BootInv'
  <1>1. /\ phase = "setup" /\ step \in 1 .. 19 /\ step' = step + 1
        /\ phase' = IF step = 19 THEN "polling" ELSE "setup"
        /\ ready' = ready
        /\ failed \in BOOLEAN /\ reported \in BOOLEAN
    BY SetUpCalls DEF BootInv, Fail, Advance
  <1>2. /\ SetUp[step].fails \/ ~(SetUp[step].needs \subseteq ready)
        /\ failed' = (failed \/ SetUp[step].needs \subseteq ready)
        /\ reported' = (reported \/ (SetUp[step].says /\ "console" \in ready))
    BY DEF Fail, Current, Notes
  <1>3. ClockInv' /\ (currentValue' = 0 <=> step' <= 2)
    BY CallKeepsClock DEF Fail
  <1>4. /\ ready \subseteq GivenBy(step - 1) /\ FailureReported
        /\ GivenBy(step) = GivenBy(step - 1) \cup {SetUp[step].gives}
    BY <1>1, GivenByOneMore DEF BootInv
  <1>5. /\ SetUp[step].needs \subseteq GivenBy(step - 1)
        /\ SetUp[step].fails => SetUp[step].says /\ "console" \in GivenBy(step - 1)
        /\ SetUp[step].says \in BOOLEAN
    BY <1>1, NextCallIsServed, SetUpOrder
  <1>6. reported'
    <2>1. CASE reported
      BY <1>2, <2>1
    <2>2. CASE ~reported
      <3>1. ready = GivenBy(step - 1)
        BY <1>4, <2>2 DEF FailureReported
      <3> QED
        BY <1>2, <1>5, <3>1
    <2> QED
      BY <2>1, <2>2
  <1>7. failed'
    <2>1. CASE reported
      BY <1>2, <1>4, <2>1 DEF FailureReported
    <2>2. CASE ~reported
      <3>1. ready = GivenBy(step - 1)
        BY <1>4, <2>2 DEF FailureReported
      <3> QED
        BY <1>2, <1>5, <3>1
    <2> QED
      BY <2>1, <2>2
  <1>8. failed' \in BOOLEAN /\ reported' \in BOOLEAN
    BY <1>2
  <1>9. step' - 1 = step
    BY <1>1
  <1>10. ready' \subseteq GivenBy(step' - 1)
    BY <1>1, <1>4, <1>9
  <1>11. /\ step' \in 1 .. 20 /\ phase' \in {"setup", "polling"}
         /\ (phase' = "setup") <=> (step' <= 19)
    BY <1>1
  <1> QED
    BY <1>3, <1>6, <1>7, <1>8, <1>10, <1>11 DEF BootInv, FailureReported

LEMMA PollKeeps ==
    ASSUME BootInv, PollAll
    PROVE  BootInv'
  <1>1. /\ phase = "polling" /\ Update /\ phase' \in {"polling", "received"}
        /\ UNCHANGED <<step, ready, failed, reported>>
    BY DEF PollAll
  <1>2. /\ ClockInv /\ step \in 1 .. 20 /\ ~(step <= 19)
        /\ currentValue = 0 <=> step <= 2
    BY <1>1 DEF BootInv
  <1>3. currentValue > 0
    BY <1>2, IntervalType DEF ClockInv, ClockTypeOK
  <1>4. ClockInv' /\ currentValue' = currentValue
    BY <1>1, <1>2, <1>3, UpdateKeeps DEF Update
  <1> QED
    BY <1>1, <1>2, <1>4 DEF BootInv, FailureReported

LEMMA PassKeeps ==
    ASSUME BootInv, Pass
    PROVE  BootInv'
  <1>1. TimerTick /\ UNCHANGED <<step, ready, failed, reported, phase>>
    BY DEF Pass
  <1>2. ClockInv /\ currentValue > 0 /\ (currentValue = 0 <=> step <= 2)
    BY <1>1 DEF BootInv, TimerTick
  <1>3. ClockInv' /\ currentValue' > 0
    BY <1>1, <1>2, TickKeeps
  <1>4. ~(step <= 2) /\ currentValue' # 0
    BY <1>2, <1>3, IntervalType DEF ClockInv, ClockTypeOK
  <1> QED
    BY <1>1, <1>3, <1>4 DEF BootInv, FailureReported

(* The other steps leave all but the phase alone.                           *)
LEMMA PhaseStepKeeps ==
    ASSUME BootInv, UNCHANGED <<step, ready, failed, reported, clockVars>>,
           \/ phase' = phase
           \/ phase = "setup" /\ phase' = "stuck"
           \/ phase \in {"received", "running"} /\ phase' \in {"running", "stopped"}
    PROVE  BootInv'
  <1>1. ClockInv' /\ currentValue' = currentValue
    BY DEF BootInv, clockVars, ClockInv, ClockTypeOK
  <1> QED
    BY <1>1 DEF BootInv, FailureReported

THEOREM BootInvariant == BootSpec => []BootInv
  <1>1. BootInit => BootInv
    BY BootInitial
  <1>2. BootInv /\ [BootNext]_bootVars => BootInv'
    <2> SUFFICES ASSUME BootInv, [BootNext]_bootVars
                 PROVE  BootInv'
      OBVIOUS
    <2>1. CASE Succeed
      BY <2>1, SucceedKeeps
    <2>2. CASE Fail
      BY <2>2, FailKeeps
    <2>3. CASE Hang
      BY <2>3, PhaseStepKeeps DEF Hang
    <2>4. CASE PollAll
      BY <2>4, PollKeeps
    <2>5. CASE Judge
      BY <2>5, PhaseStepKeeps DEF Judge
    <2>6. CASE Return
      BY <2>6, PhaseStepKeeps DEF Return
    <2>7. CASE Pass
      BY <2>7, PassKeeps
    <2>8. CASE UNCHANGED bootVars
      BY <2>8, PhaseStepKeeps DEF bootVars
    <2> QED
      BY <2>1, <2>2, <2>3, <2>4, <2>5, <2>6, <2>7, <2>8 DEF BootNext
  <1> QED
    BY <1>1, <1>2, PTL DEF BootSpec

(* main() has set everything up when it polls, nothing works that no call   *)
(* so far gives, and the clock's variables are in their ranges: for every   *)
(* interval of the timer and whatever the memory held at power-on.          *)
THEOREM BootTypeCorrect == BootSpec => []BootTypeOK
  <1>1. BootInv => BootTypeOK
    <2> SUFFICES ASSUME BootInv
                 PROVE  BootTypeOK
      OBVIOUS
    <2>1. /\ currentValue \in 0 .. Interval
          /\ uptimeClockMetaTicks \in Nat /\ uptimeClockTicks \in Nat
      BY DEF BootInv, ClockInv, ClockTypeOK
    <2>2. Len(SetUp) = 19
      BY SetUpCalls
    <2> QED
      BY <2>1, <2>2 DEF BootInv, BootTypeOK
  <1> QED
    BY <1>1, BootInvariant, PTL

(* The console tells of every start that went wrong and main() got past,    *)
(* and of no other.                                                         *)
THEOREM FailureIsReported == BootSpec => []FailureReported
  <1>1. BootInv => FailureReported
    BY DEF BootInv
  <1> QED
    BY <1>1, BootInvariant, PTL

(* After an update the uptime is the time that passed and whole cycles      *)
(* found at power-on: for every interval, scale and value of the memory.    *)
THEOREM UptimeIsExact == BootSpec => []UptimeExact
  <1>1. BootInv => UptimeExact
    BY UptimeSuffices DEF BootInv
  <1> QED
    BY <1>1, BootInvariant, PTL

-----------------------------------------------------------------------------
(* The boot image.                                                         *)

LEMMA ImageConstants ==
    /\ WordSpace \in Nat \ {0, 1} /\ blockSize \in Nat \ {0} /\ blockSize > 5
    /\ Word \subseteq Nat /\ 0 \in Word /\ 1 \in Word
    /\ \A a, b \in Word : a - b < WordSpace
    /\ \A a \in Int : a % WordSpace \in Word
  BY ImageAssumption DEF Word

(* A whole number of blocks, and room for what was asked for.              *)
LEMMA RoundedUpType ==
    ASSUME NEW n \in Nat
    PROVE  RoundedUp(n) \in Nat /\ RoundedUp(n) >= n /\ RoundedUp(n) % blockSize = 0
  <1> DEFINE a == n + blockSize - 1
             q == a \div blockSize
             r == a % blockSize
  <1>1. a \in Int /\ blockSize \in Nat \ {0}
    BY ImageConstants
  <1>2. q \in Int /\ r \in 0 .. blockSize - 1 /\ a = q * blockSize + r
    BY <1>1, Division
  <1>3. RoundedUp(n) = q * blockSize
    BY DEF RoundedUp
  <1> HIDE DEF q, r
  <1>4. q * blockSize \in Int
    BY <1>1, <1>2
  <1>5. q * blockSize >= n
    BY <1>1, <1>2, <1>4
  <1>6. (q * blockSize) % blockSize = 0
    <2>1. q * blockSize = q * blockSize + 0 /\ 0 \in 0 .. blockSize - 1
      BY <1>1, <1>4
    <2> QED
      BY <1>1, <1>2, <1>4, <2>1, DivisionUnique
  <1> QED
    BY <1>3, <1>4, <1>5, <1>6

(* The sums of the build tool and of validate() add up the words in turn.  *)
LEMMA SumOfIsTotal ==
    ASSUME NEW n \in Nat, NEW words, \A i \in 1 .. n : words[i] \in Int
    PROVE  SumOf(words, n) = Total(words, n) % WordSpace
  <1> DEFINE fold == CHOOSE f : FoldsTerms(words, n, f)
  <1>1. SumOf(words, n) = fold[1 .. n] % WordSpace
    BY DEF SumOf, MapThenSumSet, MapThenFoldSet, FoldsTerms, Chosen
  <1>2. FoldsTerms(words, n, fold)
    BY FoldExists
  <1> HIDE DEF fold
  <1>3. fold[1 .. n] = Total(words, n)
    BY <1>2, FoldIsTotal
  <1> QED
    BY <1>1, <1>3

LEMMA SumOfType ==
    ASSUME NEW n \in Nat, NEW words, \A i \in 1 .. n : words[i] \in Int
    PROVE  SumOf(words, n) \in Word
  <1>1. Total(words, n) \in Int
    BY TotalSteps
  <1> QED
    BY <1>1, SumOfIsTotal, ImageConstants

(* Equal words have equal sums, and one word that differs shows.           *)
LEMMA SameSum ==
    ASSUME NEW n \in Nat, NEW words, \A i \in 1 .. n : words[i] \in Int,
           NEW other, \A i \in 1 .. n : other[i] = words[i]
    PROVE  SumOf(other, n) = SumOf(words, n)
  <1>1. Total(other, n) = Total(words, n)
    BY TotalsAgree
  <1>2. \A i \in 1 .. n : other[i] \in Int
    OBVIOUS
  <1> QED
    BY <1>1, <1>2, SumOfIsTotal

LEMMA SmallChangeShows ==
    ASSUME NEW a \in Int, NEW b \in Int, a # b, b - a < WordSpace, a - b < WordSpace
    PROVE  a % WordSpace # b % WordSpace
  <1> DEFINE p == a \div WordSpace
             q == b \div WordSpace
             r == a % WordSpace
             s == b % WordSpace
  <1>1. WordSpace \in Nat \ {0}
    BY ImageConstants
  <1>2. p \in Int /\ r \in Int /\ a = p * WordSpace + r
    BY <1>1, Division
  <1>3. q \in Int /\ s \in Int /\ b = q * WordSpace + s
    BY <1>1, Division
  <1> SUFFICES ASSUME r = s
               PROVE  FALSE
    OBVIOUS
  <1> HIDE DEF p, q, r, s
  <1>4. p * WordSpace \in Int /\ q * WordSpace \in Int
    BY <1>1, <1>2, <1>3
  <1>5. p # q
    BY <1>2, <1>3
  <1>6. CASE p > q
    <2>1. p - q \in Nat \ {0}
      BY <1>2, <1>3, <1>6
    <2>2. (p - q) * WordSpace >= WordSpace
      BY <1>1, <2>1, TimesGrows
    <2>3. (p - q) * WordSpace = p * WordSpace - q * WordSpace
      BY <1>1, <1>2, <1>3
    <2> QED
      BY <1>1, <1>2, <1>3, <1>4, <2>2, <2>3
  <1>7. CASE q > p
    <2>1. q - p \in Nat \ {0}
      BY <1>2, <1>3, <1>7
    <2>2. (q - p) * WordSpace >= WordSpace
      BY <1>1, <2>1, TimesGrows
    <2>3. (q - p) * WordSpace = q * WordSpace - p * WordSpace
      BY <1>1, <1>2, <1>3
    <2> QED
      BY <1>1, <1>2, <1>3, <1>4, <2>2, <2>3
  <1> QED
    BY <1>2, <1>3, <1>5, <1>6, <1>7

LEMMA OneWordShows ==
    ASSUME NEW n \in Nat, NEW words, \A i \in 1 .. n : words[i] \in Word,
           NEW other, \A i \in 1 .. n : other[i] \in Word,
           NEW j \in 1 .. n, other[j] # words[j],
           \A i \in 1 .. n : i # j => other[i] = words[i]
    PROVE  SumOf(other, n) # SumOf(words, n)
  <1> DEFINE a == Total(words, n)
             b == Total(other, n)
  <1>1. /\ \A i \in 1 .. n : words[i] \in Int
        /\ \A i \in 1 .. n : other[i] \in Int
        /\ j \in Nat
    <2>1. \A word \in Word : word \in Int
      BY ImageConstants
    <2> QED
      BY <2>1
  <1>2. b = a + (IF j \in 1 .. n THEN other[j] - words[j] ELSE 0)
    BY <1>1, TotalsDiffer, Zenon
  <1>3. a \in Int /\ b \in Int
    <2>1. \A k \in 0 .. n : Total(words, k) \in Int
      BY <1>1, TotalSteps
    <2>2. \A k \in 0 .. n : Total(other, k) \in Int
      BY <1>1, TotalSteps
    <2> QED
      BY <2>1, <2>2
  <1>4. SumOf(other, n) = b % WordSpace /\ SumOf(words, n) = a % WordSpace
    BY <1>1, SumOfIsTotal
  <1>5. /\ other[j] \in Int /\ words[j] \in Int
        /\ other[j] - words[j] < WordSpace /\ words[j] - other[j] < WordSpace
    BY <1>1, ImageConstants
  <1> HIDE DEF a, b
  <1>6. a # b /\ b - a < WordSpace /\ a - b < WordSpace
    <2> DEFINE x == other[j]
               y == words[j]
    <2>1. b = a + (x - y) /\ x # y
      BY <1>2
    <2>2. WordSpace \in Int
      BY ImageConstants
    <2>3. x \in Int /\ y \in Int /\ x - y < WordSpace /\ y - x < WordSpace
      BY <1>5
    <2> HIDE DEF x, y
    <2> QED
      BY <1>3, <2>1, <2>2, <2>3
  <1> QED
    BY <1>3, <1>4, <1>6, SmallChangeShows

(* What is true of an image the build tool wrote.                          *)
SeededIn(words) == [words EXCEPT ![4] = checkSumSeed]

ImageOK(image) ==
    /\ image \in Seq(Word) /\ Len(image) >= 5
    /\ image[5] = Len(image) /\ Len(image) % blockSize = 0
    /\ image[2] = magicSeed[1] /\ image[3] = magicSeed[2]
    /\ image[4] = SumOf(SeededIn(image), Len(image))

(* The words the tool adds up: the header with the seed, the content and   *)
(* the padding.                                                            *)
SeededWords(content) ==
    <<1>> \o magicSeed \o <<checkSumSeed, RoundedUp(5 + Len(content))>> \o content
        \o [i \in 1..(RoundedUp(5 + Len(content)) - 5 - Len(content)) |-> 0]

(* Words of a known number.                                                *)
Block(words, length) == words \in Seq(Word) /\ Len(words) = length

StartsLike(words, head) == \A i \in 1 .. Len(head) : words[i] = head[i]

GoesOn(words, m, tail) == \A i \in 1 .. Len(tail) : words[m + i] = tail[i]

LEMMA BlocksJoin ==
    ASSUME NEW s, NEW m, Block(s, m), NEW t, NEW n, Block(t, n)
    PROVE  Block(s \o t, m + n) /\ StartsLike(s \o t, s) /\ GoesOn(s \o t, m, t)
  <1>1. s \in Seq(Word) /\ t \in Seq(Word)
    BY DEF Block
  <1>2. /\ s \o t \in Seq(Word) /\ Len(s \o t) = Len(s) + Len(t)
        /\ \A i \in 1 .. Len(s) + Len(t) :
                (s \o t)[i] = IF i <= Len(s) THEN s[i] ELSE t[i - Len(s)]
    BY <1>1, ConcatProperties
  <1>3. Len(s) \in Nat /\ Len(t) \in Nat
    BY <1>1, LenProperties
  <1>4. StartsLike(s \o t, s)
    BY <1>2, <1>3 DEF StartsLike
  <1>5. Len(s) = m /\ Len(t) = n
    BY DEF Block
  <1>6. GoesOn(s \o t, m, t)
    <2> SUFFICES ASSUME NEW i \in 1 .. Len(t)
                 PROVE  (s \o t)[m + i] = t[i]
      BY DEF GoesOn
    <2> DEFINE j == m + i
    <2>2. j \in 1 .. Len(s) + Len(t) /\ ~(j <= Len(s)) /\ j - Len(s) = i
      BY <1>3, <1>5
    <2> HIDE DEF j
    <2>3. (s \o t)[j] = t[j - Len(s)]
      BY <1>2, <2>2
    <2> QED
      BY <2>2, <2>3 DEF j
  <1> QED
    BY <1>2, <1>4, <1>5, <1>6 DEF Block

LEMMA Filled ==
    ASSUME NEW n \in Nat, NEW word \in Word
    PROVE  Block([i \in 1 .. n |-> word], n)
  <1> DEFINE s == [i \in 1 .. n |-> word]
  <1>1. s \in Seq(Word) /\ Len(s) = n
    OBVIOUS
  <1> QED
    BY <1>1 DEF Block

LEMMA SeededWordsType ==
    ASSUME NEW content \in Contents
    PROVE  LET words == SeededWords(content)
               length == RoundedUp(5 + Len(content)) IN
           /\ words \in Seq(Word) /\ Len(words) = length
           /\ length \in Nat /\ length >= 5 /\ length % blockSize = 0
           /\ words[2] = magicSeed[1] /\ words[3] = magicSeed[2]
           /\ words[4] = checkSumSeed /\ words[5] = length
  <1> DEFINE l == Len(content)
             length == RoundedUp(5 + l)
             rest == length - 5 - l
             a == <<1>>
             b == magicSeed
             c == <<checkSumSeed, length>>
             e == [i \in 1 .. rest |-> 0]
             header == a \o b \o c
             words == header \o content \o e
  <1>1. content \in Seq(Word) /\ length \in Word
    BY ImageAssumption
  <1>2. l \in Nat /\ 5 + l \in Nat
    BY <1>1, LenProperties
  <1>3. length \in Nat /\ length >= 5 + l /\ length % blockSize = 0
    BY <1>2, RoundedUpType
  <1>4. SeededWords(content) = words
    BY DEF SeededWords
  <1>5. rest \in Nat
    BY <1>2, <1>3
  <1> HIDE DEF l, length
  <1>6. Block(a, 1)
    BY ImageConstants DEF Block
  <1>7. Block(b, 2)
    BY ImageAssumption DEF Block
  <1>8. Block(c, 2)
    BY <1>1, ImageAssumption DEF Block
  <1>9. Block(e, rest)
    <2> HIDE DEF rest
    <2> QED
      BY <1>5, Filled, ImageConstants
  <1>10. Block(content, l)
    BY <1>1 DEF Block, l
  <1>11. /\ header \in Seq(Word) /\ Len(header) = 5
         /\ header[2] = b[1] /\ header[3] = b[2]
         /\ header[4] = checkSumSeed /\ header[5] = length
    <2> DEFINE ab == a \o b
    <2> HIDE DEF a, b, c
    <2>1. Block(ab, 1 + 2) /\ StartsLike(ab, a) /\ GoesOn(ab, 1, b)
      BY <1>6, <1>7, BlocksJoin, Zenon
    <2> HIDE DEF ab
    <2>2. Block(ab \o c, (1 + 2) + 2) /\ StartsLike(ab \o c, ab) /\ GoesOn(ab \o c, 1 + 2, c)
      BY <1>8, <2>1, BlocksJoin, Zenon
    <2>3. header = ab \o c
      BY DEF ab
    <2> HIDE DEF header
    <2>4. Block(header, (1 + 2) + 2) /\ StartsLike(header, ab) /\ GoesOn(header, 1 + 2, c)
      BY <2>2, <2>3, Zenon
    <2>5. header \in Seq(Word) /\ Len(header) = 5
      BY <2>4 DEF Block
    <2>6. Len(ab) = 3 /\ Len(b) = 2
      BY <1>7, <2>1 DEF Block
    <2>7. ab[2] = b[1] /\ ab[3] = b[2]
      <3>1. ab[1 + 1] = b[1] /\ ab[1 + 2] = b[2]
        BY <2>1, <2>6 DEF GoesOn
      <3>2. 1 + 1 = 2 /\ 1 + 2 = 3
        OBVIOUS
      <3> QED
        BY <3>1, <3>2
    <2>8. header[2] = ab[2] /\ header[3] = ab[3]
      BY <2>6, <2>4 DEF StartsLike
    <2>9. c = <<checkSumSeed, length>> /\ Len(c) = 2 /\ c[1] = checkSumSeed /\ c[2] = length
      BY DEF c
    <2>10. header[4] = c[1] /\ header[5] = c[2]
      <3>1. header[(1 + 2) + 1] = c[1] /\ header[(1 + 2) + 2] = c[2]
        BY <2>9, <2>4 DEF GoesOn
      <3>2. (1 + 2) + 1 = 4 /\ (1 + 2) + 2 = 5
        OBVIOUS
      <3> QED
        BY <3>1, <3>2
    <2> QED
      BY <2>5, <2>7, <2>8, <2>9, <2>10
  <1> HIDE DEF header, e, rest
  <1> DEFINE first == header \o content
  <1>12. Block(header, 5)
    BY <1>11 DEF Block
  <1>13. Block(first, 5 + l) /\ StartsLike(first, header)
    BY <1>10, <1>12, BlocksJoin, Zenon
  <1> HIDE DEF first
  <1>14. Block(first \o e, (5 + l) + rest) /\ StartsLike(first \o e, first)
    BY <1>9, <1>13, BlocksJoin, Zenon
  <1>15. words = first \o e
    BY DEF first
  <1> HIDE DEF words
  <1>16. words \in Seq(Word) /\ Len(words) = length
    <2>1. (5 + l) + rest = length
      BY <1>2, <1>3 DEF rest
    <2> QED
      BY <1>14, <1>15, <2>1 DEF Block
  <1>17. \A i \in 1 .. 5 : words[i] = header[i]
    <2>1. Len(first) = 5 + l /\ Len(header) = 5
      BY <1>12, <1>13 DEF Block
    <2> QED
      BY <1>2, <1>13, <1>14, <1>15, <2>1 DEF StartsLike
  <1>18. length >= 5
    BY <1>2, <1>3
  <1> QED
    BY <1>3, <1>4, <1>11, <1>16, <1>17, <1>18 DEF length, l

(* validate() finds in the image the sum the tool had found.               *)
LEMMA BuildIsOK ==
    ASSUME NEW content \in Contents
    PROVE  ImageOK(Build(content)) /\ Len(Build(content)) = RoundedUp(5 + Len(content))
  <1> DEFINE words == SeededWords(content)
             length == RoundedUp(5 + Len(content))
             sum == SumOf(words, length)
             image == [words EXCEPT ![4] = sum]
  <1>1. /\ words \in Seq(Word) /\ Len(words) = length
        /\ length \in Nat /\ length >= 5 /\ length % blockSize = 0
        /\ words[2] = magicSeed[1] /\ words[3] = magicSeed[2]
        /\ words[4] = checkSumSeed /\ words[5] = length
    BY SeededWordsType
  <1>2. Build(content) = image
    BY DEF Build, SeededWords, CheckSumAt
  <1> HIDE DEF words, length
  <1>3. DOMAIN words = 1 .. length /\ 4 \in 1 .. Len(words)
    BY <1>1, LenProperties
  <1>4. \A i \in 1 .. length : words[i] \in Word
    BY <1>1, ElementOfSeq
  <1>5. sum \in Word
    <2>1. \A word \in Word : word \in Int
      BY ImageConstants
    <2>2. \A i \in 1 .. length : words[i] \in Int
      BY <1>4, <2>1
    <2> QED
      BY <1>1, <2>2, SumOfType
  <1> HIDE DEF sum
  <1>6. image \in Seq(Word) /\ Len(image) = length
    BY <1>1, <1>3, <1>5, ExceptSeq
  <1>7. image[4] = sum /\ \A i \in 1 .. length : i # 4 => image[i] = words[i]
    BY <1>1, <1>3
  <1>8. SeededIn(image) = words
    <2>1. [image EXCEPT ![4] = checkSumSeed] = [i \in 1 .. length |-> words[i]]
      BY <1>1, <1>3
    <2>2. words = [i \in DOMAIN words |-> words[i]]
      BY <1>1
    <2> QED
      BY <1>3, <2>1, <2>2 DEF SeededIn
  <1> HIDE DEF image
  <1>9. image[2] = words[2] /\ image[3] = words[3] /\ image[5] = words[5]
    BY <1>1, <1>7
  <1> QED
    BY <1>1, <1>2, <1>6, <1>7, <1>8, <1>9 DEF ImageOK, sum, length

(* The DRAM has room for every image the tool may write.                   *)
LEMMA ImageFits ==
    ASSUME NEW image, ImageOK(image)
    PROVE  WordSpace \in Nat /\ Len(image) \in Nat /\ Len(image) <= WordSpace
  <1>1. WordSpace \in Nat
    BY ImageConstants
  <1>2. 5 \in DOMAIN image /\ Len(image) \in Nat
    BY LenProperties DEF ImageOK
  <1>3. image[5] \in Word
    BY <1>2, ElementOfSeq, LenProperties DEF ImageOK
  <1> QED
    BY <1>1, <1>2, <1>3 DEF ImageOK, Word

LEMMA OverType ==
    ASSUME NEW words \in Seq(Word), WordSpace \in Nat, Len(words) <= WordSpace,
           NEW left \in Word
    PROVE  Over(words, left) \in Seq(Word) /\ Len(Over(words, left)) = WordSpace
  <1> DEFINE m == Len(words)
             n == WordSpace - m
             tail == [i \in 1 .. n |-> left]
  <1>1. m \in Nat /\ n \in Nat /\ m + n = WordSpace
    BY LenProperties
  <1>2. Block(words, m)
    BY DEF Block
  <1>3. Over(words, left) = words \o tail
    BY DEF Over
  <1> HIDE DEF m, n
  <1>4. Block(tail, n)
    BY <1>1, Filled
  <1> HIDE DEF tail
  <1>5. Block(words \o tail, m + n)
    BY <1>2, <1>4, BlocksJoin, Zenon
  <1> QED
    BY <1>1, <1>3, <1>5 DEF Block

(* In the buffer there are at least as many words as the image has.        *)
Landed(image, words) ==
    words \in Seq(Word) /\ Len(words) >= Len(image)

(* No part of an image is longer than the image.                           *)
LEMMA PartsType ==
    ASSUME NEW image \in Seq(Word), NEW part \in Parts(image)
    PROVE  part \in Seq(Word) /\ Len(part) <= Len(image)
  <1>1. Len(image) \in Nat /\ DOMAIN image = 1 .. Len(image)
    BY LenProperties
  <1>2. CASE \E i \in DOMAIN image : \E word \in Word : part = [image EXCEPT ![i] = word]
    <2>1. PICK i \in DOMAIN image, word \in Word : part = [image EXCEPT ![i] = word]
      BY <1>2
    <2>2. i \in 1 .. Len(image)
      BY <1>1
    <2> DEFINE changed == [image EXCEPT ![i] = word]
    <2>3. changed \in Seq(Word) /\ Len(changed) = Len(image)
      BY <2>2, ExceptSeq
    <2> HIDE DEF changed
    <2> QED
      BY <1>1, <2>1, <2>3 DEF changed
  <1>3. CASE \E n \in 0 .. Len(image) : part = SubSeq(image, 1, n)
    <2>1. PICK n \in 0 .. Len(image) : part = SubSeq(image, 1, n)
      BY <1>3
    <2>2. \A i \in 1 .. n : image[i] \in Word
      BY <1>1, ElementOfSeq
    <2>3. SubSeq(image, 1, n) \in Seq(Word) /\ Len(SubSeq(image, 1, n)) = n
      BY <1>1, <2>2, SubSeqProperties
    <2> QED
      BY <1>1, <2>1, <2>3
  <1> QED
    BY <1>2, <1>3 DEF Parts

LEMMA ArrivalsLand ==
    ASSUME NEW image, ImageOK(image), NEW words \in Arrivals(image)
    PROVE  Landed(image, words)
  <1>1. image \in Seq(Word) /\ WordSpace \in Nat /\ Len(image) \in Nat /\ Len(image) <= WordSpace
    BY ImageFits DEF ImageOK
  <1>2. PICK part \in Parts(image), left \in Leftover : words = Over(part, left)
    BY DEF Arrivals
  <1>3. part \in Seq(Word) /\ Len(part) <= Len(image) /\ Len(part) \in Nat
    BY <1>1, PartsType, LenProperties
  <1>4. left \in Word
    BY ImageAssumption
  <1>5. Len(part) <= WordSpace
    BY <1>1, <1>3
  <1>6. Over(part, left) \in Seq(Word) /\ Len(Over(part, left)) = WordSpace
    BY <1>1, <1>3, <1>4, <1>5, OverType
  <1> QED
    BY <1>1, <1>2, <1>6 DEF Landed

(* The words validate() adds up, against those the tool added up.          *)
LEMMA SeededAt ==
    ASSUME NEW words \in Seq(Word), Len(words) >= 5
    PROVE  /\ \A i \in 1 .. Len(words) :
                SeededIn(words)[i] = IF i = 4 THEN checkSumSeed ELSE words[i]
           /\ \A i \in 1 .. Len(words) : SeededIn(words)[i] \in Word
  <1>1. DOMAIN words = 1 .. Len(words) /\ \A i \in 1 .. Len(words) : words[i] \in Word
    BY LenProperties, ElementOfSeq
  <1>2. checkSumSeed \in Word
    BY ImageAssumption
  <1> QED
    BY <1>1, <1>2 DEF SeededIn

LEMMA HeaderAccepted ==
    ASSUME NEW image, ImageOK(image), NEW words, Landed(image, words),
           words[2] = image[2], words[3] = image[3], words[5] = image[5]
    PROVE  words[5] # 0 /\ words[5] % blockSize = 0 /\ SubSeq(words, 2, 3) = magicSeed
  <1>1. words[5] # 0 /\ words[5] % blockSize = 0
    BY DEF ImageOK, Landed
  <1>2. /\ words \in Seq(Word) /\ Len(words) >= 5
        /\ words[2] = magicSeed[1] /\ words[3] = magicSeed[2]
    <2>1. Len(words) \in Nat /\ Len(image) \in Nat
      BY LenProperties DEF ImageOK, Landed
    <2> QED
      BY <2>1 DEF ImageOK, Landed
  <1> DEFINE part == SubSeq(words, 2, 3)
  <1>3. \A i \in 2 .. 3 : words[i] \in Word
    BY <1>2, LenProperties, ElementOfSeq
  <1>4. part \in Seq(Word) /\ Len(part) = 2 /\ part[1] = words[2] /\ part[2] = words[3]
    BY <1>3, SubSeqProperties
  <1> HIDE DEF part
  <1>5. magicSeed \in Seq(Word) /\ Len(magicSeed) = 2
    BY ImageAssumption
  <1>6. Len(part) = Len(magicSeed) /\ \A i \in 1 .. Len(part) : part[i] = magicSeed[i]
    BY <1>2, <1>4, <1>5
  <1>7. part = magicSeed
    BY <1>4, <1>5, <1>6, SeqEqual
  <1> QED
    BY <1>1, <1>7 DEF part

(* validate() finds the sum in an image of which every word arrived.       *)
LEMMA WholeSumsUp ==
    ASSUME NEW image, ImageOK(image), NEW words, Landed(image, words),
           \A i \in 1 .. Len(image) : words[i] = image[i]
    PROVE  words[4] = SumOf(SeededIn(words), Len(image))
  <1> DEFINE n == Len(image)
  <1>1. /\ image \in Seq(Word) /\ words \in Seq(Word)
        /\ n \in Nat /\ Len(words) \in Nat /\ n >= 5 /\ Len(words) >= n
    BY LenProperties DEF ImageOK, Landed
  <1>2. \A i \in 1 .. n : SeededIn(image)[i] \in Word
    BY <1>1, SeededAt
  <1>3. \A i \in 1 .. n : SeededIn(words)[i] = SeededIn(image)[i]
    <2>1. /\ \A i \in 1 .. n : SeededIn(image)[i] = IF i = 4 THEN checkSumSeed ELSE image[i]
          /\ \A i \in 1 .. Len(words) :
                SeededIn(words)[i] = IF i = 4 THEN checkSumSeed ELSE words[i]
      BY <1>1, SeededAt
    <2>2. \A i \in 1 .. n : i \in 1 .. Len(words)
      BY <1>1
    <2> QED
      BY <2>1, <2>2
  <1>4. \A i \in 1 .. n : SeededIn(image)[i] \in Int
    <2>1. \A word \in Word : word \in Int
      BY ImageConstants
    <2> QED
      BY <1>2, <2>1
  <1>5. image[4] = SumOf(SeededIn(image), n) /\ words[4] = image[4]
    BY <1>1 DEF ImageOK
  <1>6. SumOf(SeededIn(words), n) = SumOf(SeededIn(image), n)
    BY <1>1, <1>3, <1>4, SameSum
  <1> QED
    BY <1>5, <1>6

(* It does not find it when one word is another: the sum is, or what the   *)
(* field says.                                                             *)
LEMMA OneWordFails ==
    ASSUME NEW image, ImageOK(image), NEW words, Landed(image, words),
           NEW k \in 1 .. Len(image), words[k] # image[k],
           \A i \in 1 .. Len(image) : i # k => words[i] = image[i]
    PROVE  words[4] # SumOf(SeededIn(words), Len(image))
  <1> DEFINE n == Len(image)
             found == SeededIn(words)
             sent == SeededIn(image)
  <1>1. /\ image \in Seq(Word) /\ words \in Seq(Word)
        /\ n \in Nat /\ Len(words) \in Nat /\ n >= 5 /\ Len(words) >= n
    BY LenProperties DEF ImageOK, Landed
  <1>2. image[4] = SumOf(sent, n)
    BY DEF ImageOK
  <1>3. /\ \A i \in 1 .. n : sent[i] = IF i = 4 THEN checkSumSeed ELSE image[i]
        /\ \A i \in 1 .. n : found[i] = IF i = 4 THEN checkSumSeed ELSE words[i]
        /\ \A i \in 1 .. n : sent[i] \in Word
        /\ \A i \in 1 .. n : found[i] \in Word
    <2>1. /\ \A i \in 1 .. n : sent[i] = IF i = 4 THEN checkSumSeed ELSE image[i]
          /\ \A i \in 1 .. n : sent[i] \in Word
      BY <1>1, SeededAt
    <2>2. /\ \A i \in 1 .. Len(words) : found[i] = IF i = 4 THEN checkSumSeed ELSE words[i]
          /\ \A i \in 1 .. Len(words) : found[i] \in Word
      <3>1. Len(words) >= 5
        BY <1>1
      <3> QED
        BY <1>1, <3>1, SeededAt
    <2>3. \A i \in 1 .. n : i \in 1 .. Len(words)
      BY <1>1
    <2> HIDE DEF n, found, sent
    <2> QED
      BY <2>1, <2>2, <2>3
  <1> HIDE DEF found, sent
  <1>4. CASE k = 4
    <2>1. \A i \in 1 .. n : found[i] = sent[i]
      BY <1>3, <1>4
    <2>2. \A i \in 1 .. n : sent[i] \in Int
      <3>1. \A word \in Word : word \in Int
        BY ImageConstants
      <3> QED
        BY <1>3, <3>1
    <2>3. SumOf(found, n) = SumOf(sent, n)
      BY <1>1, <2>1, <2>2, SameSum
    <2> QED
      BY <1>2, <1>4, <2>3 DEF found
  <1>5. CASE k # 4
    <2>1. found[k] # sent[k] /\ \A i \in 1 .. n : i # k => found[i] = sent[i]
      BY <1>3, <1>5
    <2>2. \A i \in 1 .. n : sent[i] \in Word
      BY <1>3
    <2>3. \A i \in 1 .. n : found[i] \in Word
      BY <1>3
    <2>4. SumOf(found, n) # SumOf(sent, n)
      BY <1>1, <2>1, <2>2, <2>3, OneWordShows
    <2>5. words[4] = image[4]
      BY <1>1, <1>5
    <2> QED
      BY <1>2, <2>4, <2>5 DEF found
  <1> QED
    BY <1>4, <1>5

-----------------------------------------------------------------------------
(* What validate() asks of the words in the buffer.                        *)
Accepted(words) ==
    /\ words[5] # 0 /\ words[5] % blockSize = 0 /\ SubSeq(words, 2, 3) = magicSeed
    /\ words[4] = SumOf(SeededIn(words), words[5])

(* The invariant: the tool's image agrees with its own checksum, what is   *)
(* judged begins with as many words, and it is judged as it arrived.       *)
ImageInv ==
    /\ ImageOK(built)
    /\ Landed(built, arrived)
    /\ verdict \in {"none", "run", "refuse"}
    /\ verdict = "none" => receiveBuffer = arrived
    /\ verdict = "run" => Accepted(arrived)
    /\ verdict = "refuse" => ~Accepted(arrived)

LEMMA ImageInvInit == ImageInit => ImageInv
  <1> SUFFICES ASSUME ImageInit
               PROVE  ImageInv
    OBVIOUS
  <1>1. PICK content \in Contents :
            built = Build(content) /\ receiveBuffer \in Arrivals(built) /\ arrived = receiveBuffer
    BY DEF ImageInit
  <1>2. ImageOK(built)
    BY <1>1, BuildIsOK
  <1>3. Landed(built, arrived)
    BY <1>1, <1>2, ArrivalsLand
  <1>4. verdict = "none"
    BY DEF ImageInit
  <1> QED
    BY <1>1, <1>2, <1>3, <1>4 DEF ImageInv

LEMMA ImageInvStep == ImageInv /\ [ImageNext]_imageVars => ImageInv'
  <1> SUFFICES ASSUME ImageInv, [ImageNext]_imageVars
               PROVE  ImageInv'
    OBVIOUS
  <1>1. CASE Validate
    <2>1. verdict = "none" /\ receiveBuffer = arrived /\ built' = built /\ arrived' = arrived
      BY <1>1 DEF Validate, ImageInv
    <2>2. (HeaderFits /\ SumsUp) <=> Accepted(arrived)
      BY <2>1 DEF HeaderFits, SumsUp, Accepted, SeededIn, Seeded, PayloadLength,
                  CheckSumAt, PayloadLengthAt
    <2>3. verdict' = IF Accepted(arrived) THEN "run" ELSE "refuse"
      BY <1>1, <2>2 DEF Validate
    <2>4. ImageOK(built) /\ Landed(built, arrived)
      BY DEF ImageInv
    <2>5. ImageOK(built') /\ Landed(built', arrived')
      BY <2>1, <2>4
    <2>6. Accepted(arrived') <=> Accepted(arrived)
      BY <2>1
    <2> QED
      BY <2>3, <2>5, <2>6 DEF ImageInv
  <1>2. CASE UNCHANGED imageVars
    BY <1>2 DEF imageVars, ImageInv
  <1> QED
    BY <1>1, <1>2 DEF ImageNext

LEMMA ImageInvJudges == ImageInv => VerdictIsRight
  <1> SUFFICES ASSUME ImageInv
               PROVE  VerdictIsRight
    OBVIOUS
  <1> DEFINE n == Len(built)
  <1>1. ImageOK(built) /\ Landed(built, arrived)
    BY DEF ImageInv
  <1>2. n \in Nat /\ DOMAIN built = 1 .. n /\ n >= 5 /\ built[5] = n
    BY <1>1, LenProperties DEF ImageOK
  <1>3. Differing = {} => Accepted(arrived)
    <2> SUFFICES ASSUME Differing = {}
                 PROVE  Accepted(arrived)
      OBVIOUS
    <2>1. \A i \in 1 .. n : arrived[i] = built[i]
      BY <1>2 DEF Differing
    <2>2. arrived[2] = built[2] /\ arrived[3] = built[3] /\ arrived[5] = built[5]
      BY <1>2, <2>1
    <2>3. arrived[4] = SumOf(SeededIn(arrived), n)
      BY <1>1, <2>1, WholeSumsUp
    <2>4. arrived[5] # 0 /\ arrived[5] % blockSize = 0 /\ SubSeq(arrived, 2, 3) = magicSeed
      BY <1>1, <2>2, HeaderAccepted
    <2> QED
      BY <1>2, <2>2, <2>3, <2>4 DEF Accepted
  <1>4. Cardinality(Differing) = 1 /\ Differing # {PayloadLengthAt} => ~Accepted(arrived)
    <2> SUFFICES ASSUME Cardinality(Differing) = 1, Differing # {PayloadLengthAt}
                 PROVE  ~Accepted(arrived)
      OBVIOUS
    <2>1. Differing \subseteq 1 .. n
      BY <1>2 DEF Differing
    <2>2. IsFiniteSet(Differing)
      <3>1. IsFiniteSet(1 .. n)
        BY <1>2, FS_Interval
      <3> QED
        BY <2>1, <3>1, FS_Subset
    <2>3. PICK k : Differing = {k}
      BY <2>2, FS_Singleton
    <2>4. /\ k \in 1 .. n /\ arrived[k] # built[k]
          /\ \A i \in 1 .. n : i # k => arrived[i] = built[i]
      BY <1>2, <2>3 DEF Differing
    <2>5. arrived[4] # SumOf(SeededIn(arrived), n)
      BY <1>1, <2>4, OneWordFails
    <2>6. arrived[5] = n
      BY <1>2, <2>3, <2>4 DEF PayloadLengthAt
    <2> QED
      BY <2>5, <2>6 DEF Accepted
  <1> QED
    BY <1>3, <1>4 DEF ImageInv, VerdictIsRight

(* Bootloader.cpp, validate() and build_tool: for every content, every word*)
(* left in the DRAM, every word that is changed and every end that is cut, *)
(* the image the tool wrote is run, and one that is run although it is     *)
(* damaged or cut differs in two words at least, or in payloadLength, the  *)
(* word which says how far to add up.                                      *)
THEOREM VerdictStaysRight == ImageSpec => []VerdictIsRight
  <1>1. ImageInit => ImageInv
    BY ImageInvInit
  <1>2. ImageInv /\ [ImageNext]_imageVars => ImageInv'
    BY ImageInvStep
  <1>3. ImageInv => VerdictIsRight
    BY ImageInvJudges
  <1> QED
    BY <1>1, <1>2, <1>3, PTL DEF ImageSpec
=============================================================================
