--------------------------- MODULE CharacterQueues ---------------------------
(***************************************************************************)
(* What the JTAG UART and its driver promise to the program and to the     *)
(* terminal: two bounded queues of characters, each of which hands on      *)
(* every character once and in order.  Characters are numbered in the      *)
(* order they enter, so that the last number in and the last number out    *)
(* are all there is to say of a queue.                                     *)
(***************************************************************************)
EXTENDS Integers

CONSTANTS OutRoom, InRoom    (* the characters each queue can hold *)

VARIABLES
  put, shown,    (* towards the terminal: accepted by write, shown       *)
  typed, got     (* from the terminal: sent by it, returned by read      *)

queueVars == <<put, shown, typed, got>>

Init == put = 0 /\ shown = 0 /\ typed = 0 /\ got = 0

Accept ==
  /\ put' \in put + 1 .. shown + OutRoom
  /\ UNCHANGED <<shown, typed, got>>

Show ==
  /\ shown < put /\ shown' = shown + 1
  /\ UNCHANGED <<put, typed, got>>

Type ==
  /\ typed < got + InRoom /\ typed' = typed + 1
  /\ UNCHANGED <<put, shown, got>>

Read ==
  /\ got' \in got + 1 .. typed
  /\ UNCHANGED <<put, shown, typed>>

Next == Accept \/ Show \/ Type \/ Read

Spec == Init /\ [][Next]_queueVars
=============================================================================
