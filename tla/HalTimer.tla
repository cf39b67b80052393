------------------------------ MODULE HalTimer ------------------------------
(***************************************************************************)
(* The system clock of the HAL: the machine timer mtime, which the         *)
(* processor reads one word at a time; its interrupt, which re-arms the    *)
(* comparator and counts a tick; and the doubly linked list of alarms that *)
(* alt_tick walks, and that the program changes under it with interrupts   *)
(* off.                                                                    *)
(***************************************************************************)
EXTENDS HalProcessor

CONSTANTS
  Word,          (* 2^32: values of one word of mtime                       *)
  Delta,         (* MTIMECMP_DELTA_AMT, counts of mtime to a tick           *)
  MaxTime,       (* bound on mtime                                          *)
  Alarm, Head,   (* the alarms, and the head of their list                  *)
  Nil,           (* the null pointer of an alarm never started              *)
  Delays,        (* nticks of alt_alarm_start                               *)
  Periods        (* what a callback may answer, 0 to end its alarm          *)

ASSUME TimerAssumption ==
  /\ Word \in Nat \ {0} /\ Delta \in Nat \ {0} /\ MaxTime \in Nat
  /\ Head \notin Alarm /\ Nil \notin Alarm \cup {Head}
  /\ Delays \subseteq Nat /\ Periods \subseteq Nat

Node == Alarm \cup {Head}
Reader == {"program", "isr"}

VARIABLES
  mtime,
  mtimecmp,
  alt_niosv_timer_interrupt_handler,   (* it has been registered            *)
  reading,        (* reader |-> its alt_niosv_mtime_get: next step and words *)
  tick_rate,      (* _alt_tick_rate has been set                            *)
  nticks,         (* _alt_nticks                                            *)
  next, previous, (* the list                                               *)
  time,           (* alarm |-> tick it is due                               *)
  alarm,          (* alt_tick: the alarm it has come to                     *)
  the_alarm,      (* argument of alt_alarm_start and alt_alarm_stop         *)
  delay,          (* argument of alt_alarm_start                            *)
  running         (* history: the alarms started and neither stopped nor    *)
                  (* ended by their callback                                *)

clockVars == <<mtime, mtimecmp, alt_niosv_timer_interrupt_handler, reading>>
listVars  == <<next, previous, time, running>>
alarmVars == <<tick_rate, nticks, listVars, alarm, the_alarm, delay>>
timerVars == <<clockVars, alarmVars>>

Unread == [step |-> "done", high |-> 0, low |-> 0]

TimerInit ==
  /\ mtime = 0 /\ mtimecmp = 0
  /\ alt_niosv_timer_interrupt_handler = FALSE
  /\ reading = [r \in Reader |-> Unread]
  /\ tick_rate = FALSE /\ nticks = 0
  /\ next = [n \in Node |-> IF n = Head THEN Head ELSE Nil]
  /\ previous = next
  /\ time = [a \in Alarm |-> 0]
  /\ alarm = Head /\ the_alarm = Head /\ delay = 0 /\ running = {}

Count ==
  /\ mtime < MaxTime
  /\ mtime' = mtime + 1
  /\ UNCHANGED <<irqVars, cpuVars, mtimecmp,
                 alt_niosv_timer_interrupt_handler, reading, alarmVars>>

-----------------------------------------------------------------------------
(* alt_niosv_mtime_get: high word, low word, high word again.              *)
Reading(r, step) == reading[r].step = step

BeginReading(r) == reading' = [reading EXCEPT ![r].step = "high"]

(* Mutant: the high word is not read again. *)
ReadMtime_Once(r) ==
  \/ /\ Reading(r, "high")
     /\ reading' = [reading EXCEPT ![r].high = mtime \div Word,
                                         ![r].step = "low"]
  \/ /\ Reading(r, "low")
     /\ reading' = [reading EXCEPT ![r].low = mtime % Word, ![r].step = "done"]

ReadMtime(r) ==
  \/ /\ Reading(r, "high")
     /\ reading' = [reading EXCEPT ![r].high = mtime \div Word,
                                         ![r].step = "low"]
  \/ /\ Reading(r, "low")
     /\ reading' = [reading EXCEPT ![r].low = mtime % Word,
                                   ![r].step = "again"]
  \/ /\ Reading(r, "again")
     /\ reading' = [reading EXCEPT ![r].step =
                      IF mtime \div Word = reading[r].high THEN "done"
                                                          ELSE "high"]

GetTime(r) ==
  /\ r = "program" => Program
  /\ ReadMtime(r)
  /\ UNCHANGED <<irqVars, cpuVars, mtime, mtimecmp,
                 alt_niosv_timer_interrupt_handler, alarmVars>>

TimeRead(r) == reading[r].high * Word + reading[r].low

(* alt_niosv_mtimecmp_set.  Its three writes are one step: both callers    *)
(* have the timer interrupt off, so nobody sees the words change apart.    *)
SetMtimecmp(r) ==
  /\ Reading(r, "done")
  /\ mtimecmp' = TimeRead(r) + Delta
  /\ reading' = [reading EXCEPT ![r] = Unread]

(* INTEL_NIOSV_M_INIT: the clock's rate, its interrupt, and the first tick. *)
InitClock ==
  /\ At("clock")
  /\ tick_rate' = TRUE
  /\ alt_niosv_timer_interrupt_handler' = TRUE
  /\ BeginReading("program")
  /\ stage' = "arm"
  /\ UNCHANGED <<irqVars, MIE, mtie, isr, op, context, mtime, mtimecmp, nticks,
                 listVars, alarm, the_alarm, delay>>

ArmTimer ==
  /\ At("arm")
  /\ SetMtimecmp("program")
  /\ mtie' = TRUE
  /\ stage' = "stdout"
  /\ UNCHANGED <<irqVars, MIE, isr, op, context, mtime,
                 alt_niosv_timer_interrupt_handler, alarmVars>>

-----------------------------------------------------------------------------
(* alt_llist_insert at the head of the list, and alt_llist_remove, each in *)
(* its two halves: the pointers of one node and those of its neighbours.   *)
PointTo(a) ==
  /\ previous' = [previous EXCEPT ![a] = Head]
  /\ next' = [next EXCEPT ![a] = next[Head]]

PointFrom(a) ==
  /\ previous' = [previous EXCEPT ![next[Head]] = a]
  /\ next' = [next EXCEPT ![Head] = a]

Unlink(a) ==
  /\ previous' = [previous EXCEPT ![next[a]] = previous[a]]
  /\ next' = [next EXCEPT ![previous[a]] = next[a]]

Isolate(a) ==
  /\ previous' = [previous EXCEPT ![a] = a]
  /\ next' = [next EXCEPT ![a] = a]

Removed(a) ==
  /\ previous' = [[previous EXCEPT ![next[a]] = previous[a]] EXCEPT ![a] = a]
  /\ next' = [[next EXCEPT ![previous[a]] = next[a]] EXCEPT ![a] = a]
  /\ running' = running \ {a}

(* Mutant: the interrupts are left on. *)
CallStart_Open(a, n) ==
  /\ op = "none" /\ tick_rate /\ a \notin running
  /\ op' = "start_time" /\ the_alarm' = a /\ delay' = n
  /\ context' = MIE /\ UNCHANGED MIE
  /\ UNCHANGED <<irqVars, mtie, isr, clockVars, tick_rate, nticks, listVars,
                 alarm>>

(* alt_alarm_start of an alarm that is not running; without a clock it     *)
(* answers -ENOTSUP and changes nothing.                                   *)
CallStart(a, n) ==
  /\ op = "none" /\ tick_rate /\ a \notin running
  /\ op' = "start_time" /\ the_alarm' = a /\ delay' = n
  /\ DisableAll
  /\ UNCHANGED <<irqVars, mtie, isr, clockVars, tick_rate, nticks, listVars,
                 alarm>>

(* Mutant: the tick under way is counted. *)
StartTime_Early ==
  /\ Doing("start_time")
  /\ time' = [time EXCEPT ![the_alarm] = delay + nticks]
  /\ op' = "start_link"
  /\ UNCHANGED <<irqVars, MIE, mtie, isr, stage, context, clockVars, tick_rate,
                 nticks, next, previous, running, alarm, the_alarm, delay>>

StartTime ==
  /\ Doing("start_time")
  /\ time' = [time EXCEPT ![the_alarm] = delay + nticks + 1]
  /\ op' = "start_link"
  /\ UNCHANGED <<irqVars, MIE, mtie, isr, stage, context, clockVars, tick_rate,
                 nticks, next, previous, running, alarm, the_alarm, delay>>

StartLink ==
  /\ \/ /\ Doing("start_link") /\ op' = "start_insert"
        /\ PointTo(the_alarm)
        /\ UNCHANGED running
     \/ /\ Doing("start_insert") /\ op' = "alarm_done"
        /\ PointFrom(the_alarm)
        /\ running' = running \cup {the_alarm}
  /\ UNCHANGED <<irqVars, MIE, mtie, isr, stage, context, clockVars, tick_rate,
                 nticks, time, alarm, the_alarm, delay>>

(* alt_alarm_stop of an alarm that was started, and may have ended.        *)
CallStop(a) ==
  /\ op = "none" /\ next[a] # Nil
  /\ op' = "stop_unlink" /\ the_alarm' = a
  /\ DisableAll
  /\ UNCHANGED <<irqVars, mtie, isr, clockVars, tick_rate, nticks, listVars,
                 alarm, delay>>

StopUnlink ==
  /\ \/ /\ Doing("stop_unlink") /\ op' = "stop_isolate"
        /\ Unlink(the_alarm)
        /\ running' = running \ {the_alarm}
     \/ /\ Doing("stop_isolate") /\ op' = "alarm_done"
        /\ Isolate(the_alarm)
        /\ UNCHANGED running
  /\ UNCHANGED <<irqVars, MIE, mtie, isr, stage, context, clockVars, tick_rate,
                 nticks, time, alarm, the_alarm, delay>>

AlarmDone ==
  /\ Doing("alarm_done")
  /\ EnableAll
  /\ op' = "none" /\ the_alarm' = Head /\ delay' = 0
  /\ UNCHANGED <<irqVars, mtie, isr, stage, clockVars, tick_rate, nticks,
                 listVars, alarm>>

AlarmStep == StartTime \/ StartLink \/ StopUnlink \/ AlarmDone

-----------------------------------------------------------------------------
(* The timer interrupt: alt_niosv_timer_sc_isr, alt_tick.                  *)
TimerTrap ==
  /\ Program /\ MIE /\ mtie /\ mtime >= mtimecmp
  /\ alt_niosv_timer_interrupt_handler
  /\ MIE' = FALSE
  /\ BeginReading("isr")
  /\ isr' = "rearm"
  /\ UNCHANGED <<irqVars, mtie, stage, op, context, mtime, mtimecmp,
                 alt_niosv_timer_interrupt_handler, alarmVars>>

Rearm ==
  /\ isr = "rearm"
  /\ SetMtimecmp("isr")
  /\ isr' = "tick"
  /\ UNCHANGED <<irqVars, MIE, mtie, stage, op, context, mtime,
                 alt_niosv_timer_interrupt_handler, alarmVars>>

Tick ==
  /\ isr = "tick"
  /\ nticks' = nticks + 1
  /\ alarm' = next[Head]
  /\ isr' = "walk"
  /\ UNCHANGED <<irqVars, MIE, mtie, stage, op, context, clockVars, tick_rate,
                 listVars, the_alarm, delay>>

(* A callback answers the ticks to the next call or 0, and may stop its    *)
(* own alarm instead.                                                      *)
Callback(a) ==
  \/ /\ \E p \in Periods \ {0} : time' = [time EXCEPT ![a] = @ + p]
     /\ UNCHANGED <<next, previous, running>>
  \/ /\ 0 \in Periods
     /\ Removed(a) /\ UNCHANGED time

Overdue(a) == time[a] <= nticks

(* Mutant: the next alarm is looked up after the callback. *)
WalkOn_NextLate ==
  /\ IF Overdue(alarm) THEN Callback(alarm) ELSE UNCHANGED listVars
  /\ alarm' = next'[alarm]

WalkOn ==
  /\ IF Overdue(alarm) THEN Callback(alarm) ELSE UNCHANGED listVars
  /\ alarm' = next[alarm]

Walk ==
  /\ isr = "walk" /\ alarm # Head
  /\ WalkOn
  /\ UNCHANGED <<irqVars, cpuVars, clockVars, tick_rate, nticks, the_alarm,
                 delay>>

TickDone ==
  /\ isr = "walk" /\ alarm = Head
  /\ isr' = "off" /\ MIE' = TRUE
  /\ UNCHANGED <<irqVars, mtie, stage, op, context, timerVars>>

TimerIsr == Rearm \/ Tick \/ Walk \/ TickDone

-----------------------------------------------------------------------------
(* Ticks never get ahead of the time they count, however the two words of  *)
(* mtime move between the reads (mtimer.c:30-41, 71-72).  They do fall     *)
(* behind: the comparator is set from the time of the trap, not from the   *)
(* time it was due.                                                        *)
NeverFast == nticks * Delta <= mtime

(* The list is at any time a ring through its head and the running alarms, *)
(* the same both ways: a tick never meets alt_alarm_start or               *)
(* alt_alarm_stop half way (alt_alarm_start.c:78-85, alt_tick.c:70-72),    *)
(* and a callback that ends its alarm leaves the walk whole.               *)
Ring(nodes) ==
  /\ \A n \in nodes : /\ next[n] \in nodes /\ previous[next[n]] = n
                      /\ previous[n] \in nodes /\ next[previous[n]] = n
  /\ \A part \in SUBSET nodes :
       part # {} /\ (\A n \in part : next[n] \in part) => part = nodes

WellLinked == Ring(running \cup {Head})

(* Between two ticks no running alarm is overdue: each was called at the   *)
(* tick it asked for (alt_tick.c:105, alt_alarm_start.c:82).               *)
NoneOverdue == isr # "walk" => \A a \in running : time[a] > nticks

(* Every tick ends and gives the processor back to the program.            *)
TickEnds == (isr \in {"tick", "walk"}) ~> (isr = "off")
=============================================================================
