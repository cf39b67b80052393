----------------------------- MODULE Chenillard -----------------------------
(***************************************************************************)
(* tuto_quartus.vhd: the LED chaser.  A prescaler counts C_MAX + 1 clock   *)
(* edges and the LED register is rotated when it expires.  The prescaler   *)
(* starts at zero and is cleared at C_MAX, so comparing it for equality is *)
(* enough: it never passes C_MAX (ChenillardTypeCorrect).                  *)
(***************************************************************************)
EXTENDS Integers

CONSTANTS
  N,        (* LEDs, 10 in the RTL                       *)
  C_MAX     (* last value of the prescaler, 5000000      *)

ASSUME ChenillardAssumption == N \in Nat \ {0} /\ C_MAX \in Nat

VARIABLES r_leds, r_counter

vars == <<r_leds, r_counter>>

Led == 0 .. N - 1

FirstLed == [i \in Led |-> IF i = 0 THEN 1 ELSE 0]

Init == r_leds = FirstLed /\ r_counter = 0

(* r_leds(0) & r_leds(9 downto 1) *)
Rotated(leds) == [i \in Led |-> IF i = N - 1 THEN leds[0] ELSE leds[i + 1]]

(* Mutant: rotates without starting the next period. *)
Rotate_KeepsCounter ==
  /\ r_counter = C_MAX
  /\ r_leds' = Rotated(r_leds)
  /\ UNCHANGED r_counter

Rotate ==
  /\ r_counter = C_MAX
  /\ r_counter' = 0
  /\ r_leds' = Rotated(r_leds)

Count ==
  /\ r_counter # C_MAX
  /\ r_counter' = r_counter + 1
  /\ UNCHANGED r_leds

Reset == r_counter' = 0 /\ r_leds' = FirstLed

Next == Rotate \/ Count \/ Reset

Spec == Init /\ [][Next]_vars

-----------------------------------------------------------------------------
TypeOK ==
  /\ r_leds \in [Led -> {0, 1}]
  /\ r_counter \in 0 .. C_MAX

(* Exactly one LED is lit, whatever the number of LEDs: the rotation       *)
(* neither loses nor copies the bit.                                       *)
OneHot ==
  \E i \in Led : r_leds[i] = 1 /\ \A j \in Led \ {i} : r_leds[j] = 0

(* The register and its prescaler are a light that rests C_MAX + 1 edges   *)
(* on each LED: see the abstract specification.  There is one such light   *)
(* and no other (tuto_quartus.vhd:31-47).                                  *)
Lit == CHOOSE i \in Led : r_leds[i] = 1
Light == INSTANCE WalkingLight WITH
           Period <- C_MAX + 1, lit <- Lit, rested <- r_counter
Walks == Light!Spec /\ []OneHot
=============================================================================
