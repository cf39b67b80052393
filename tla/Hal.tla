-------------------------------- MODULE Hal --------------------------------
(***************************************************************************)
(* The HAL as one program: alt_main's start-up (interrupts, drivers, clock, *)
(* redirection of the standard streams), then a main that calls its        *)
(* services in any order, while devices raise their lines and the machine  *)
(* timer counts.  No two services touch the same state but through the     *)
(* interrupts, so a behaviour has a main that uses one kind of them.       *)
(***************************************************************************)
EXTENDS HalClock, HalFiles

CONSTANTS I2cLine, UartLine   (* I2C_0_IRQ, JTAG_UART_0_IRQ *)

ASSUME LineAssumption == {I2cLine, UartLine} \subseteq Line

VARIABLE service   (* what main uses *)

Service == {"alarms", "sleep", "time of day", "handlers", "files"}

vars == <<irqVars, cpuVars, timerVars, wallVars, fileVars, service>>

Init ==
  /\ ProcessorInit /\ TimerInit /\ WallInit /\ FilesInit
  /\ service \in Service

-----------------------------------------------------------------------------
(* alt_main: each step leaves its stage for the next.                      *)

(* The two drivers install their handlers; the alarm of the second is      *)
(* refused, for there is no clock yet.                                     *)
InitDriver ==
  /\ \/ At("i2c") /\ CallRegister(I2cLine, TRUE) /\ stage' = "uart"
     \/ At("uart") /\ CallRegister(UartLine, TRUE) /\ stage' = "device"
  /\ UNCHANGED <<timerVars, wallVars, fileVars>>

AddDevice ==
  /\ At("device") /\ stage' = "clock"
  /\ RegisterDevice(StdDevice)
  /\ UNCHANGED <<irqVars, MIE, mtie, isr, op, context, timerVars, wallVars>>

RedirectAll ==
  /\ \/ At("stdout") /\ Redirect(1) /\ stage' = "stdin"
     \/ At("stdin") /\ Redirect(0) /\ stage' = "stderr"
     \/ At("stderr") /\ Redirect(2) /\ stage' = "main"
  /\ UNCHANGED <<irqVars, MIE, mtie, isr, op, context, timerVars, wallVars>>

(* main returns; close of standard output changes no descriptor. *)
Exit ==
  /\ At("main") /\ stage' = "exit"
  /\ UNCHANGED <<irqVars, MIE, mtie, isr, op, context, timerVars,
                 wallVars, fileVars>>

(* ALT_EXIT spins with the interrupts on. *)
Halt ==
  /\ At("exit")
  /\ UNCHANGED <<irqVars, cpuVars, timerVars, wallVars, fileVars>>

StartUp ==
  \/ InitIrq /\ UNCHANGED <<timerVars, wallVars, fileVars>>
  \/ InitDriver
  \/ AddDevice
  \/ (InitClock \/ ArmTimer) /\ UNCHANGED <<wallVars, fileVars>>
  \/ RedirectAll
  \/ Exit
  \/ Halt

-----------------------------------------------------------------------------
UseAlarms ==
  /\ At("main") /\ service = "alarms"
  /\ \E a \in Alarm : (\E n \in Delays : CallStart(a, n)) \/ CallStop(a)
  /\ UNCHANGED <<stage, wallVars, fileVars>>

UseSleep ==
  /\ At("main") /\ service = "sleep"
  /\ \E us \in Sleeps : CallSleep(us)
  /\ UNCHANGED fileVars

UseTimeOfDay ==
  /\ At("main") /\ service = "time of day"
  /\ \E t \in Times : SetTimeOfDay(t)
  /\ UNCHANGED fileVars

UseHandlers ==
  /\ At("main") /\ service = "handlers"
  /\ \E line \in Line, given \in BOOLEAN : CallRegister(line, given)
  /\ UNCHANGED <<stage, timerVars, wallVars, fileVars>>

UseFiles ==
  /\ At("main") /\ service = "files"
  /\ FileCall
  /\ UNCHANGED <<irqVars, cpuVars, timerVars, wallVars>>

Main ==
  \/ UseAlarms
  \/ UseSleep
  \/ UseTimeOfDay
  \/ UseHandlers
  \/ UseFiles
  \/ AlarmStep /\ UNCHANGED <<wallVars, fileVars>>
  \/ SleepStep /\ UNCHANGED fileVars
  \/ RegisterStep /\ UNCHANGED <<timerVars, wallVars, fileVars>>

(* The trap routine serves the platform lines and the timer. *)
TrapRoutine ==
  \/ (Trap \/ PlatformIsr) /\ UNCHANGED <<timerVars, wallVars, fileVars>>
  \/ (TimerTrap \/ TimerIsr) /\ UNCHANGED <<wallVars, fileVars>>

(* The devices are busy in the behaviours whose main changes handlers, and *)
(* time passes in those whose state an interrupt routine touches.          *)
Environment ==
  \/ /\ service = "handlers"
     /\ Raise
     /\ UNCHANGED <<timerVars, wallVars, fileVars>>
  \/ /\ service # "files" /\ (service = "sleep" => mtime < SleepTime)
     /\ Count
     /\ UNCHANGED <<wallVars, fileVars>>

Next ==
  /\ \/ StartUp
     \/ Main
     \/ TrapRoutine
     \/ \E r \in Reader : GetTime(r) /\ UNCHANGED <<wallVars, fileVars>>
     \/ Environment
  /\ UNCHANGED service

Spec == Init /\ [][Next]_vars

(* The trap routine goes on. *)
FairSpec == Spec /\ WF_vars(TimerIsr /\ UNCHANGED <<wallVars, fileVars, service>>)
=============================================================================
