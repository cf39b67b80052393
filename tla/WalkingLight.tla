---------------------------- MODULE WalkingLight ----------------------------
(***************************************************************************)
(* What the LED chaser promises: one light, which walks down a ring of     *)
(* LEDs, and rests Period clock cycles on each; a reset takes it back to   *)
(* LED 0 for a full period.                                                *)
(***************************************************************************)
EXTENDS Integers

CONSTANTS N, Period

VARIABLES lit, rested

Init == lit = 0 /\ rested = 0

Rest ==
  /\ rested + 1 < Period
  /\ rested' = rested + 1
  /\ UNCHANGED lit

Walk ==
  /\ rested + 1 = Period
  /\ rested' = 0
  /\ lit' = IF lit = 0 THEN N - 1 ELSE lit - 1

Restart == lit' = 0 /\ rested' = 0

Next == Rest \/ Walk \/ Restart

Spec == Init /\ [][Next]_<<lit, rested>>
=============================================================================
