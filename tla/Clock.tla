------------------------------- MODULE Clock -------------------------------
(* Time in the kernel: the date taken from the CMOS clock at boot           *)
(* (devices/rtc.c), the calibration of busy waiting, ticks, sleeps and      *)
(* delays (devices/timer.c), the counter chip (devices/pit.c) and the beep  *)
(* of the speaker (devices/speaker.c) that needs them.                      *)
EXTENDS Integers, Sequences, FiniteSetsExt

CONSTANTS Sleeper, Never,
          Dates,        \* when the machine may be started
          MaxUpdates,   \* bound on the seconds that pass while the date is read
          Speeds,       \* loops a processor makes in a tick
          FirstBits,    \* the first guess is 2^FirstBits loops: 10 in the code
          UnsignedMax,  \* 2^32
          TIMER_FREQ, Kilo,       \* 100 and 1000
          Amounts,      \* what threads sleep and wait for: [num, denom]
          HalfWord,     \* a 64-bit number is read in two halves
          MaxTicks,     \* bound on the ticks
          BeepTime,     \* 250 thousandths of a second
          PIT_HZ, Byte, \* 1193180, and 256
          LowestFreq,   \* 19: below it a count has more than two bytes
          Frequencies, Tone

VARIABLES phase,        \* of the boot: "date", "seed", "double", "refine", "run" or "panic"
          chip,         \* the date the CMOS clock shows, Never once nobody looks
          updates,
          fields,       \* what rtc_get_time() has read, oldest first
          speed,
          loops_per_tick, test_bit,
          ticks,
          off,          \* the thread that has interrupts off
          th,           \* where each thread is in a sleep, a delay or a beep
          counter,      \* channel 2: its two bytes and which is written next
          gate,         \* the speaker is connected to it
          \* what the properties are about, no variable of the code:
          shown         \* dates the chip showed while they were read

clockVars == <<phase, chip, updates, fields, speed, loops_per_tick, test_bit, ticks, off, th,
               counter, gate, shown>>
bootClock == <<phase, chip, updates, fields, speed, loops_per_tick, test_bit, shown>>

----------------------------------------------------------------------------
\* rtc.c

days_per_month == <<31, 28, 31, 30, 31, 30, 31, 31, 30, 31, 30, 31>>
Bcd(n) == (n \div 10) * 16 + (n % 10)
bcd_to_bin(x) == (x % 16) + (x \div 16) * 10
cmos_read(index) == Bcd(chip[index])

\* The chip counts a second on; its leap years are those divisible by four.
DaysIn(date) == days_per_month[date.mon] + (IF date.mon = 2 /\ date.year % 4 = 0 THEN 1 ELSE 0)
NextSecond(date) ==
    CASE date.sec < 59 -> [date EXCEPT !.sec = @ + 1]
      [] date.sec = 59 /\ date.min < 59 -> [date EXCEPT !.sec = 0, !.min = @ + 1]
      [] date.sec = 59 /\ date.min = 59 /\ date.hour < 23 ->
           [date EXCEPT !.sec = 0, !.min = 0, !.hour = @ + 1]
      [] OTHER ->
           LET midnight == [date EXCEPT !.sec = 0, !.min = 0, !.hour = 0]
           IN IF date.mday < DaysIn(date) THEN [midnight EXCEPT !.mday = @ + 1]
              ELSE IF date.mon < 12 THEN [midnight EXCEPT !.mday = 1, !.mon = @ + 1]
              ELSE [midnight EXCEPT !.mday = 1, !.mon = 1, !.year = (@ + 1) % 100]
Update ==
    /\ phase = "date" /\ updates < MaxUpdates
    /\ chip' = NextSecond(chip)
    /\ updates' = updates + 1
    /\ shown' = shown \cup {chip'}
    /\ UNCHANGED <<phase, fields, speed, loops_per_tick, test_bit, ticks, off, th, counter, gate>>

Order == <<"sec", "min", "hour", "mday", "mon", "year", "sec">>
\* All registers, and the seconds again; if those have changed, from the start.
\* Variant: once is enough.
ReadRegister_once ==
    LET read == Append(fields, bcd_to_bin(cmos_read(Order[Len(fields) + 1])))
    IN /\ phase = "date"
       /\ fields' = read
       /\ phase' = IF Len(read) = Len(Order) THEN "seed" ELSE phase
       /\ UNCHANGED <<chip, updates, speed, loops_per_tick, test_bit, ticks, off, th, counter, gate, shown>>
ReadRegister ==
    LET read == Append(fields, bcd_to_bin(cmos_read(Order[Len(fields) + 1])))
        stable == read[1] = read[Len(read)]
    IN /\ phase = "date"
       /\ IF Len(read) = Len(Order) /\ ~stable
          THEN fields' = <<>> /\ shown' = {chip}
          ELSE fields' = read /\ UNCHANGED shown
       /\ phase' = IF Len(read) = Len(Order) /\ stable THEN "seed" ELSE phase
       /\ UNCHANGED <<chip, updates, speed, loops_per_tick, test_bit, ticks, off, th, counter, gate>>

\* The kernel seeds its random numbers with the time and forgets it.
Seed ==
    /\ phase = "seed"
    /\ phase' = "double"
    /\ chip' = Never /\ fields' = <<>> /\ shown' = {} /\ updates' = 0
    /\ UNCHANGED <<speed, loops_per_tick, test_bit, ticks, off, th, counter, gate>>

----------------------------------------------------------------------------
\* The calibration.  A processor that makes SPEED loops in a tick sees the
\* tick count change if it loops that often or more.

too_many_loops(loops) == loops >= speed

Double ==
    LET next == (loops_per_tick * 2) % UnsignedMax
    IN /\ phase = "double"
       /\ IF too_many_loops(next)
          THEN phase' = "refine" /\ test_bit' = loops_per_tick \div 2 /\ UNCHANGED loops_per_tick
          ELSE phase' = (IF next = 0 THEN "panic" ELSE phase) /\ loops_per_tick' = next /\ UNCHANGED test_bit
       /\ UNCHANGED <<chip, updates, fields, speed, ticks, off, th, counter, gate, shown>>

HighBit == Max({2^i : i \in {i \in 0 .. 30 : 2^i <= loops_per_tick}})
Refine ==
    /\ phase = "refine"
    /\ IF test_bit # HighBit \div 2^FirstBits
       THEN /\ loops_per_tick' = IF too_many_loops(HighBit + test_bit) THEN loops_per_tick
                                 ELSE loops_per_tick + test_bit
            /\ test_bit' = test_bit \div 2
            /\ UNCHANGED phase
       ELSE phase' = "run" /\ UNCHANGED <<loops_per_tick, test_bit>>
    /\ UNCHANGED <<chip, updates, fields, speed, ticks, off, th, counter, gate, shown>>

----------------------------------------------------------------------------
\* Threads.  One whose interrupts are off is not interrupted, and so nobody
\* else runs.

Free == [pc |-> "free", start |-> Never, want |-> 0, loops |-> 0, low |-> 0, beep |-> FALSE,
         begun |-> 0, amount |-> Never]
Runs(t) == phase = "run" /\ off \in {Never, t}
timer_interrupt ==
    /\ phase = "run" /\ off = Never /\ ticks < MaxTicks
    /\ ticks' = ticks + 1
    /\ UNCHANGED <<bootClock, off, th, counter, gate>>

\* real_time_delay(): the loops it makes.
Loops(num, denom) == (((loops_per_tick * num) \div Kilo) * TIMER_FREQ) \div (denom \div Kilo)
Asleep(want) == [Free EXCEPT !.pc = "timer_ticks", !.want = want, !.begun = ticks]
Delayed(a) == [Free EXCEPT !.pc = "busy_wait", !.loops = Loops(a.num, a.denom), !.amount = a]

real_time_sleep(t) ==
    \E a \in Amounts :
        LET wanted == (a.num * TIMER_FREQ) \div a.denom
        IN /\ Runs(t) /\ th[t].pc = "free"
           /\ th' = [th EXCEPT ![t] = IF wanted > 0 THEN Asleep(wanted) ELSE Delayed(a)]
           /\ UNCHANGED <<bootClock, ticks, off, counter, gate>>
real_time_delay(t) ==
    \E a \in Amounts :
        /\ Runs(t) /\ th[t].pc = "free"
        /\ th' = [th EXCEPT ![t] = Delayed(a)]
        /\ UNCHANGED <<bootClock, ticks, off, counter, gate>>
busy_wait(t) ==
    /\ Runs(t) /\ th[t].pc = "busy_wait"
    /\ th' = [th EXCEPT ![t] = Free]
    /\ UNCHANGED <<bootClock, ticks, off, counter, gate>>

\* timer_ticks() with interrupts off, one half after the other; the first
\* value is where the sleep starts, each later one is compared with it.
timer_ticks(t) ==
    /\ Runs(t) /\ th[t].pc = "timer_ticks"
    /\ off' = t
    /\ th' = [th EXCEPT ![t].pc = "second half", ![t].low = ticks % HalfWord]
    /\ UNCHANGED <<bootClock, ticks, counter, gate>>
timer_sleep(t) ==
    LET now == (ticks \div HalfWord) * HalfWord + th[t].low
    IN /\ Runs(t) /\ th[t].pc = "second half"
       /\ off' = Never
       /\ th' = IF th[t].start = Never THEN [th EXCEPT ![t].pc = "timer_ticks", ![t].start = now]
                ELSE IF now - th[t].start < th[t].want THEN [th EXCEPT ![t].pc = "timer_ticks"]
                ELSE [th EXCEPT ![t].pc = "slept"]
       /\ UNCHANGED <<bootClock, ticks, counter, gate>>
Wake(t) ==
    /\ Runs(t) /\ th[t].pc = "slept" /\ ~th[t].beep
    /\ th' = [th EXCEPT ![t] = Free]
    /\ UNCHANGED <<bootClock, ticks, off, counter, gate>>

----------------------------------------------------------------------------
\* pit.c and speaker.c

pit_count(frequency) ==
    IF frequency < LowestFreq THEN 0
    ELSE IF frequency > PIT_HZ THEN 2
    ELSE ((PIT_HZ + frequency \div 2) \div frequency) % Byte^2

\* The control word makes the low byte the next to be written.
speaker_on(t) ==
    /\ Runs(t) /\ th[t].pc = "free"
    /\ off' = t
    /\ counter' = [counter EXCEPT !.low = pit_count(Tone) % Byte, !.next = "high"]
    /\ th' = [th EXCEPT ![t].pc = "high byte"]
    /\ UNCHANGED <<bootClock, ticks, gate>>
pit_configure_channel(t) ==
    LET byte == pit_count(Tone) \div Byte
    IN /\ Runs(t) /\ th[t].pc = "high byte"
       /\ counter' = IF counter.next = "high" THEN [counter EXCEPT !.high = byte, !.next = "low"]
                     ELSE [counter EXCEPT !.low = byte, !.next = "high"]
       /\ th' = [th EXCEPT ![t].pc = "gate"]
       /\ UNCHANGED <<bootClock, ticks, off, gate>>
speaker_beep(t) ==
    /\ Runs(t) /\ th[t].pc = "gate"
    /\ gate' = TRUE
    /\ off' = Never
    /\ th' = [th EXCEPT ![t] = [Asleep((BeepTime * TIMER_FREQ) \div Kilo) EXCEPT !.beep = TRUE]]
    /\ UNCHANGED <<bootClock, ticks, counter>>
speaker_off(t) ==
    /\ Runs(t) /\ th[t].pc = "slept" /\ th[t].beep
    /\ gate' = FALSE
    /\ th' = [th EXCEPT ![t] = Free]
    /\ UNCHANGED <<bootClock, ticks, off, counter>>

ClockInit ==
    /\ phase = "date" /\ chip \in Dates /\ updates = 0 /\ fields = <<>> /\ shown = {chip}
    /\ speed \in Speeds /\ loops_per_tick = 2^FirstBits /\ test_bit = 0
    /\ ticks = 0 /\ off = Never /\ th = [t \in Sleeper |-> Free]
    /\ counter = [low |-> 0, high |-> 0, next |-> "low"] /\ gate = FALSE
ClockStep(t) ==
    \/ real_time_sleep(t) \/ real_time_delay(t) \/ busy_wait(t)
    \/ timer_ticks(t) \/ timer_sleep(t) \/ Wake(t)
    \/ speaker_on(t) \/ pit_configure_channel(t) \/ speaker_beep(t) \/ speaker_off(t)
ClockNext ==
    \/ Update \/ ReadRegister \/ Seed \/ Double \/ Refine \/ timer_interrupt
    \/ \E t \in Sleeper : ClockStep(t)
ClockSpec == ClockInit /\ [][ClockNext]_clockVars

----------------------------------------------------------------------------
(* The date the kernel takes is one the chip showed while it was read,     *)
(* although its parts are read one by one.                                 *)
DateRead ==
    phase = "seed" =>
      \E date \in shown :
        fields = <<date.sec, date.min, date.hour, date.mday, date.mon, date.year, date.sec>>

(* One tick takes at most twice and at least half the loops that were      *)
(* counted, on every processor fast enough to make the first guess.        *)
Calibrated ==
    phase = "run" /\ speed > 2^FirstBits => loops_per_tick < 2 * speed /\ speed <= 2 * loops_per_tick

(* A sleep lasts at least the ticks that were asked for, whatever comes    *)
(* between the two halves of the tick count; a delay makes the loops of    *)
(* its time but for what two roundings down take away.                     *)
WaitsLongEnough ==
    \A t \in Sleeper :
      /\ th[t].pc = "slept" => ticks - th[t].begun >= th[t].want
      /\ th[t].start # Never => th[t].start \in th[t].begun .. ticks
      /\ th[t].pc = "busy_wait" =>
           LET a == th[t].amount
               exact == loops_per_tick * a.num * TIMER_FREQ
           IN /\ th[t].loops * a.denom <= exact
              /\ th[t].loops * a.denom > exact - TIMER_FREQ * Kilo - a.denom

(* The speaker is connected only while some beep lasts, and then the       *)
(* counter holds the count of its tone, the nearest there is.              *)
Beeps ==
    /\ gate => \E t \in Sleeper : th[t].beep \/ th[t].pc \in {"high byte", "gate"}
    /\ gate /\ off = Never => counter.low + Byte * counter.high = pit_count(Tone)
    /\ \A f \in Frequencies :
         f \in LowestFreq .. PIT_HZ =>
           /\ 2 * (pit_count(f) * f - PIT_HZ) \in -f .. f
           /\ pit_count(f) # 0

ClockExact == DateRead /\ Calibrated /\ WaitsLongEnough /\ Beeps
=============================================================================
