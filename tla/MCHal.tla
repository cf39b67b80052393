------------------------------- MODULE MCHal -------------------------------
(* A time of day at the start of a second and one at its end: the second   *)
(* is borrowed from and carried into.                                      *)
EXTENDS Hal

SomeTimes == {Time(0, 0), Time(1, 3)}
=============================================================================
