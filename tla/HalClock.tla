------------------------------ MODULE HalClock ------------------------------
(***************************************************************************)
(* What the program makes of the system clock: usleep, which spins on the  *)
(* timestamp, and the time of day, which counts from the ticks.  Both are  *)
(* read while the machine timer counts and its interrupt comes between.    *)
(*                                                                         *)
(* mtime is 64 bits wide and is not seen to wrap; usleep multiplies in 32  *)
(* bits, the width of a word of mtime.                                     *)
(***************************************************************************)
EXTENDS HalTimer

CONSTANTS
  CPU_FREQUENCY_MHZ,   (* counts of mtime to a microsecond                  *)
  Sleeps,              (* us of usleep                                      *)
  SleepTime,           (* bound on mtime where the program sleeps           *)
  ALT_US,              (* microseconds to a second, 1000000                 *)
  TicksPerSecond,      (* _alt_tick_rate once it is set                     *)
  Times                (* tv_sec, tv_usec of settimeofday                   *)

ASSUME ClockAssumption ==
  /\ CPU_FREQUENCY_MHZ \in Nat \ {0} /\ Sleeps \subseteq Nat
  /\ SleepTime \in Nat
  /\ TicksPerSecond \in Nat \ {0} /\ ALT_US \in Nat \ {0}
  /\ ALT_US % TicksPerSecond = 0
  /\ Times \subseteq [tv_sec : Nat, tv_usec : 0 .. ALT_US - 1]

VARIABLES
  timestamp_offset,   (* alt_niosv_timestamp_offset                         *)
  end_time,           (* local of alt_busy_sleep                            *)
  sleeping,           (* history: counts to sleep and mtime at the call     *)
  alt_resettime,
  told                (* history: the time last set, and nticks then        *)

sleepVars == <<timestamp_offset, end_time, sleeping>>
dayVars == <<alt_resettime, told>>
wallVars == <<sleepVars, dayVars>>

(* All that a step of usleep leaves alone. *)
awakeVars == <<irqVars, MIE, mtie, isr, stage, context, mtime, mtimecmp,
               alt_niosv_timer_interrupt_handler, alarmVars, dayVars>>

Time(sec, usec) == [tv_sec |-> sec, tv_usec |-> usec]
Awake == [counts |-> 0, from |-> 0]

WallInit ==
  /\ timestamp_offset = 0 /\ end_time = 0 /\ sleeping = Awake
  /\ alt_resettime = Time(0, 0)
  /\ told = [time |-> Time(0, 0), nticks |-> 0]

-----------------------------------------------------------------------------
(* usleep *)
Anew == reading' = [reading EXCEPT !["program"] = [Unread EXCEPT !.step = "high"]]

CallSleep(us) ==
  /\ op = "none" /\ op' = "sleep_start"
  /\ sleeping' = [counts |-> CPU_FREQUENCY_MHZ * us, from |-> mtime]
  /\ end_time' = (CPU_FREQUENCY_MHZ * us) % Word
  /\ Anew
  /\ UNCHANGED <<awakeVars, timestamp_offset>>

(* Mutant: the timestamp is not started again. *)
StartTimestamp_Old ==
  /\ Doing("sleep_start") /\ Reading("program", "done")
  /\ Anew
  /\ op' = "sleep_spin"
  /\ UNCHANGED <<awakeVars, sleepVars>>

(* alt_timestamp_start *)
StartTimestamp ==
  /\ Doing("sleep_start") /\ Reading("program", "done")
  /\ timestamp_offset' = TimeRead("program")
  /\ Anew
  /\ op' = "sleep_spin"
  /\ UNCHANGED <<awakeVars, end_time, sleeping>>

(* alt_timestamp *)
Timestamp == TimeRead("program") - timestamp_offset

Spin ==
  /\ Doing("sleep_spin") /\ Reading("program", "done")
  /\ IF Timestamp < end_time
       THEN Anew /\ UNCHANGED <<op, end_time, sleeping>>
       ELSE /\ reading' = [reading EXCEPT !["program"] = Unread]
            /\ op' = "none" /\ end_time' = 0 /\ sleeping' = Awake
  /\ UNCHANGED <<awakeVars, timestamp_offset>>

SleepStep == StartTimestamp \/ Spin

-----------------------------------------------------------------------------
(* The microseconds of the second under way. *)
Microseconds(n) == (n * (ALT_US \div TicksPerSecond)) % ALT_US

(* settimeofday *)
SetTimeOfDay(t) ==
  /\ op = "none"
  /\ alt_resettime' = Time(t.tv_sec - nticks \div TicksPerSecond,
                           t.tv_usec - Microseconds(nticks))
  /\ told' = [time |-> t, nticks |-> nticks]
  /\ UNCHANGED <<irqVars, cpuVars, timerVars, sleepVars>>

(* Mutant: a negative part of a second is not borrowed for. *)
Normal_Lent(sec, usec) ==
  IF usec < 0 THEN Time(sec, usec + ALT_US)
  ELSE IF usec >= ALT_US THEN Time(sec + 1, usec - ALT_US)
  ELSE Time(sec, usec)

(* The loops of gettimeofday: each is passed at most once. *)
Normal(sec, usec) ==
  IF usec < 0 /\ sec <= 0 THEN Time(0, 0)
  ELSE IF usec < 0 THEN Time(sec - 1, usec + ALT_US)
  ELSE IF usec >= ALT_US THEN Time(sec + 1, usec - ALT_US)
  ELSE Time(sec, usec)

(* What gettimeofday answers. *)
TimeOfDay ==
  Normal(alt_resettime.tv_sec + nticks \div TicksPerSecond,
         alt_resettime.tv_usec + Microseconds(nticks))

-----------------------------------------------------------------------------
InMicroseconds(t) == t.tv_sec * ALT_US + t.tv_usec

(* A sleep lasts at least as long as asked, whatever interrupts come and   *)
(* wherever the words of mtime wrap (alt_busy_sleep.c:99-103), provided    *)
(* the counts fit the 32 bits they are multiplied in.                      *)
SleepsEnough ==
  [][op = "sleep_spin" /\ op' # op /\ sleeping.counts < Word =>
       mtime - sleeping.from >= sleeping.counts]_<<op, sleeping>>

(* The time of day is the time set and the ticks since, to the             *)
(* microsecond, at every tick (alt_settod.c:82-84, alt_gettod.c:91-112).   *)
TellsTheTime ==
  /\ TimeOfDay.tv_usec \in 0 .. ALT_US - 1
  /\ InMicroseconds(TimeOfDay) =
       InMicroseconds(told.time)
         + (nticks - told.nticks) * (ALT_US \div TicksPerSecond)
=============================================================================
