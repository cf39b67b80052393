----------------------------- MODULE BubbleLevel -----------------------------
(***************************************************************************)
(* The application, main.c, on top of the I2C driver: look at DEVID, set   *)
(* POWER_CTL to measure, then read the axes and light the LED of x, as     *)
(* AngleToLeds.tla says, for ever.  No status code of the driver is looked *)
(* at.                                                                     *)
(*                                                                         *)
(* DEVID is register 0; POWER_CTL (0x2D) and DATAX0 (0x32) are numbered 1  *)
(* and 2.  Axes (6 in the code) is the number of axis bytes.               *)
(***************************************************************************)
EXTENDS AvalonI2cDriver, AngleToLeds

CONSTANT Axes

ASSUME AxesAssumption == Axes \in Nat /\ Axes >= 2

VARIABLES
  stage,      (* what main does when the driver is back                    *)
  ready,      (* "ADXL345 pret" has been printed                           *)
  led         (* where the two bytes of x came from, or "off"              *)

mainVars == <<stage, ready, led, lightVars>>

DEVID == 0
POWER_CTL == 1
DATAX0 == 2
Measure == 8

ReadDevid == [tx |-> <<DEVID>>, rx |-> 1]
SetPower  == [tx |-> <<POWER_CTL, Measure>>, rx |-> 0]
ReadAxes  == [tx |-> <<DATAX0>>, rx |-> Axes]

MainInit == stage = "devid" /\ ready = FALSE /\ led = "off" /\ LightInit

(* adxl345_init *)
CheckDevid ==
  /\ stage = "devid" /\ stage' = "power"
  /\ Call(ReadDevid)
  /\ UNCHANGED <<ready, led, lightVars>>

(* Mutant: no POWER_CTL. *)
StartMeasuring_Skipped ==
  /\ stage = "power" /\ stage' = "ready"
  /\ Call(ReadDevid)
  /\ UNCHANGED <<ready, led, lightVars>>

StartMeasuring ==
  /\ stage = "power" /\ stage' = "ready"
  /\ Call(SetPower)
  /\ UNCHANGED <<ready, led, lightVars>>

(* main *)
SayReady ==
  /\ stage = "ready" /\ stage' = "read"
  /\ At("idle")
  /\ ready' = TRUE
  /\ UNCHANGED <<led, lightVars, chipVars, coreVars, driverVars>>

(* adxl345_read_xyz: rx is an array of the stack, and what the driver did  *)
(* not store there is whatever the stack held.                             *)
Read ==
  /\ stage = "read" /\ stage' = "show"
  /\ Call(ReadAxes)
  /\ UNCHANGED <<ready, led, lightVars>>

Received(i) == IF i <= Len(buffer) THEN buffer[i] ELSE Garbage

(* Mutant: the bytes of y. *)
Show_OneOff ==
  /\ stage = "show" /\ stage' = "read"
  /\ At("idle")
  /\ led' = <<Received(2), Received(3)>>
  /\ LightNext
  /\ UNCHANGED <<ready, chipVars, coreVars, driverVars>>

(* x is put together from rx[0] and rx[1], and written to the LEDs. *)
Show ==
  /\ stage = "show" /\ stage' = "read"
  /\ At("idle")
  /\ led' = <<Received(1), Received(2)>>
  /\ LightNext
  /\ UNCHANGED <<ready, chipVars, coreVars, driverVars>>

MainStep == CheckDevid \/ StartMeasuring \/ SayReady \/ Read \/ Show

LevelInit == Init /\ MainInit

LevelNext ==
  \/ MainStep
  \/ (DriverStep \/ Machine \/ OtherMaster) /\ UNCHANGED mainVars

levelVars == <<vars, mainVars>>

LevelSpec == LevelInit /\ [][LevelNext]_levelVars

-----------------------------------------------------------------------------
(* The LEDs show one measurement: the two bytes of x, in order, both       *)
(* sampled by the same read.  main.c has no other protection than the      *)
(* driver's retries (main.c:82-93).                                        *)
OneMeasurement ==
  led # "off" =>
    /\ led[1].register = DATAX0
    /\ led[2].register = (DATAX0 + 1) % Registers
    /\ led[1].attempt = led[2].attempt

(* What the LEDs show was measured: the chip measures from the time        *)
(* POWER_CTL is written, and main says it is ready only after (main.c:42). *)
ReadyMeansMeasuring ==
  ready => written[POWER_CTL] = Measure
=============================================================================
