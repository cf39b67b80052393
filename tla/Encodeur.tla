------------------------------ MODULE Encodeur ------------------------------
(***************************************************************************)
(* encodeur.vhd: a rotary encoder in front of an up/down counter.  The     *)
(* shaft drives two contacts in quadrature; the process samples them at    *)
(* every clock edge, remembers the previous samples and counts some of the *)
(* edges it sees.                                                          *)
(*                                                                         *)
(* The shaft is the environment.  Position p stands for the contact levels *)
(* A, B = 00, 10, 11, 01 at p % 4 = 0, 1, 2, 3, so a bouncing contact is a *)
(* shaft that moves one phase and back.  The shaft is slow: it moves at    *)
(* most one phase between two clock edges.                                 *)
(***************************************************************************)
EXTENDS Integers

CONSTANTS
  Modulus,    (* values of the counter, 2^10 in the RTL                 *)
  MaxTurn,    (* bound on the shaft position, in phases either way      *)
  MaxResets   (* bound on the number of resets                          *)

ASSUME EncodeurAssumption ==
  /\ Modulus \in Nat /\ Modulus > 2
  /\ MaxTurn \in Nat
  /\ MaxResets \in Nat

VARIABLES
  pos,         (* the shaft, in phases; environment                      *)
  still,       (* TRUE until the shaft moves after a clock edge          *)
  A_d, B_d,    (* the previous samples                                   *)
  compteur,    (* the counter, shown on the ten LEDs in binary           *)
  resets       (* history: resets so far                                 *)

encodeurVars == <<pos, still, A_d, B_d, compteur, resets>>

LineA(p) == IF p % 4 \in {1, 2} THEN 1 ELSE 0
LineB(p) == IF p % 4 \in {2, 3} THEN 1 ELSE 0

(* The registers power up cleared, wherever the shaft is. *)
Init ==
  /\ pos \in 0 .. 3 /\ still = TRUE
  /\ A_d = 0 /\ B_d = 0 /\ compteur = 0
  /\ resets = 0

(* unsigned + 1 and - 1 keep the width of the counter. *)
Incremented(c) == IF c = Modulus - 1 THEN 0 ELSE c + 1
Decremented(c) == IF c = 0 THEN Modulus - 1 ELSE c - 1

(* Mutant: counts while the contact is at its level, not at its edge. *)
CountsUp_OnLevel(a, b) ==
  \/ a = 1 /\ b = 0
  \/ a = 0 /\ A_d = 1 /\ b = 1

CountsUp(a, b) ==
  \/ a = 1 /\ A_d = 0 /\ b = 0
  \/ a = 0 /\ A_d = 1 /\ b = 1

CountsDown(a, b) ==
  \/ b = 1 /\ B_d = 0 /\ a = 0
  \/ b = 0 /\ B_d = 1 /\ a = 1

(* The counter after an edge that samples a and b. *)
Counted(a, b) ==
  IF CountsUp(a, b) THEN Incremented(compteur)
  ELSE IF CountsDown(a, b) THEN Decremented(compteur)
  ELSE compteur

-----------------------------------------------------------------------------
(* The shaft moves one phase, away from a clock edge. *)
Turn(step) ==
  /\ still
  /\ pos + step \in -MaxTurn .. MaxTurn
  /\ pos' = pos + step
  /\ still' = FALSE
  /\ UNCHANGED <<A_d, B_d, compteur, resets>>

Tick ==
  /\ A_d' = LineA(pos)
  /\ B_d' = LineB(pos)
  /\ compteur' = Counted(LineA(pos), LineB(pos))
  /\ still' = TRUE
  /\ UNCHANGED <<pos, resets>>

(* Asynchronous: between any two edges. *)
Reset ==
  /\ resets < MaxResets
  /\ resets' = resets + 1
  /\ A_d' = 0 /\ B_d' = 0 /\ compteur' = 0
  /\ UNCHANGED <<pos, still>>

Next ==
  \/ \E step \in {-1, 1} : Turn(step)
  \/ Tick
  \/ Reset

Spec == Init /\ [][Next]_encodeurVars

-----------------------------------------------------------------------------
TypeOK ==
  /\ pos \in Int /\ still \in BOOLEAN
  /\ A_d \in {0, 1} /\ B_d \in {0, 1}
  /\ compteur \in 0 .. Modulus - 1
  /\ resets \in 0 .. MaxResets
=============================================================================
