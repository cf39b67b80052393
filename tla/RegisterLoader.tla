--------------------------- MODULE RegisterLoader ---------------------------
(***************************************************************************)
(* What I2C_HDMI_Config.v promises, without clocks, wires or handshakes:   *)
(* the table is gone through in order, each entry is stored in the target  *)
(* once before the next one is considered, nothing else is stored, and the *)
(* end is announced.  Entry 0 is passed without being stored: the code     *)
(* takes the idle writer's END for the end of a transfer it never began.   *)
(* After a reload request the transfer still under way may meet entry 0.   *)
(* A reset may cut a transfer anywhere: the promise ends with it.          *)
(***************************************************************************)
EXTENDS Naturals

CONSTANTS LUT_SIZE, LUT_DATA, Byte, Unwritten

VARIABLES index, stored, regs, ready,
          intact   (* no reset so far *)

loaderVars == <<index, stored, regs, ready, intact>>

Init ==
  /\ index = 0
  /\ stored = FALSE
  /\ regs = [r \in Byte |-> Unwritten]
  /\ ready = FALSE
  /\ intact = TRUE

Store ==
  /\ index \in 1 .. LUT_SIZE - 1
  /\ ~stored
  /\ regs' = [regs EXCEPT ![LUT_DATA[index].register] = LUT_DATA[index].value]
  /\ stored' = TRUE
  /\ UNCHANGED <<index, ready>>

Advance ==
  /\ index < LUT_SIZE
  /\ stored \/ index = 0
  /\ index' = index + 1
  /\ stored' = FALSE
  /\ UNCHANGED <<regs, ready>>

Announce ==
  /\ index = LUT_SIZE
  /\ ready' = TRUE
  /\ UNCHANGED <<index, stored, regs>>

Reload ==
  /\ index = LUT_SIZE
  /\ index' = 0
  /\ ready' = TRUE
  /\ UNCHANGED <<stored, regs>>

(* The announcement is withdrawn; the transfer that follows the last entry *)
(* ends with entry 0 presented.                                            *)
Withdraw ==
  /\ index = 0
  /\ ready' = FALSE
  /\ UNCHANGED <<index, stored, regs>>

Stray ==
  /\ index = 0
  /\ \E i \in {0, LUT_SIZE - 1} :
       regs' = [regs EXCEPT ![LUT_DATA[i].register] = LUT_DATA[0].value]
  /\ stored' \in BOOLEAN
  /\ ready' \in {ready, FALSE}
  /\ UNCHANGED index

Work == intact /\ UNCHANGED intact /\ (Store \/ Advance \/ Announce)

Disturbed == Reload \/ Withdraw \/ Stray

Next ==
  \/ Work
  \/ intact /\ UNCHANGED intact /\ Disturbed
  \/ intact' = FALSE

Spec == Init /\ [][Next]_loaderVars

FairSpec == Spec /\ WF_loaderVars(Work)
=============================================================================
