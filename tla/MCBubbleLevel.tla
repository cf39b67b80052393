---------------------------- MODULE MCBubbleLevel ----------------------------
(* Both sides of the bounds of angle_to_leds, and the ends of int16_t. *)
EXTENDS BubbleLevelProofs

NearSamples == {-32768, -301, -300, -299, -75, -74, 0, 74, 75, 299, 300, 301, 32767}
=============================================================================
