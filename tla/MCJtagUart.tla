----------------------------- MODULE MCJtagUart -----------------------------
(* Loads for TLC: much written with nothing typed, and much typed with     *)
(* something written.                                                      *)
EXTENDS JtagUart

BothWays == {[in |-> 0, out |-> 5], [in |-> 3, out |-> 1]}

Writing == {[in |-> 0, out |-> 4]}
=============================================================================
