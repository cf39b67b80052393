----------------------------- MODULE AngleToLeds -----------------------------
(***************************************************************************)
(* angle_to_leds of main.c, and the LEDs it drives: the loop of main takes *)
(* a new sample of x and lights one LED for it.  lit is the number of that *)
(* LED, the bit set in led_value, or Off before the first sample.          *)
(***************************************************************************)
EXTENDS Integers

CONSTANT Samples     (* the values of x that come, of type int16_t         *)

ASSUME SamplesAssumption == Samples \subseteq -32768 .. 32767

VARIABLES
  x,
  lit

lightVars == <<x, lit>>

LED_COUNT  == 10
LED_CENTER == 4
FullScale  == 300    (* about one g                                        *)
Off        == -1     (* the port of the LEDs after reset, no bit set       *)

(* Mutant: the bound of the other end. *)
Clamped_WrongEnd(s) ==
  IF s > FullScale THEN -FullScale ELSE IF s < -FullScale THEN -FullScale ELSE s

Clamped(s) ==
  IF s > FullScale THEN FullScale ELSE IF s < -FullScale THEN -FullScale ELSE s

(* Mutant: rounds towards minus infinity. *)
Quotient_Floor(a) == a \div FullScale

(* Division of C: towards zero.  \div rounds towards minus infinity. *)
Quotient(a) == IF a >= 0 THEN a \div FullScale ELSE -((-a) \div FullScale)

angle_to_leds(s) ==
  LET led == LED_CENTER + Quotient(Clamped(s) * LED_CENTER)
  IN IF led < 0 THEN 0 ELSE IF led >= LED_COUNT THEN LED_COUNT - 1 ELSE led

LightInit == x = 0 /\ lit = Off

Light(s) ==
  /\ x' = s
  /\ lit' = angle_to_leds(s)

LightNext == \E s \in Samples : Light(s)

LightSpec == LightInit /\ [][LightNext]_lightVars

-----------------------------------------------------------------------------
(* One LED of 0 .. 8 is lit whatever the sample: the two bounds the code   *)
(* applies to led are never reached, and LED 9 is never lit.               *)
InRange == lit # Off => x \in Samples /\ lit \in 0 .. 2 * LED_CENTER

(* The bubble is where the tilt is: opposite tilts light LEDs opposite     *)
(* about LED_CENTER, and none of the rounding of main.c:105 shows.         *)
Mirrored == lit # Off => angle_to_leds(-x) = 2 * LED_CENTER - lit

(* The bubble never moves against the tilt. *)
Follows == [][lit # Off /\ x' >= x => lit' >= lit]_lightVars
=============================================================================
