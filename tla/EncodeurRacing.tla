--------------------------- MODULE EncodeurRacing ---------------------------
(***************************************************************************)
(* encodeur.vhd samples i_A and i_B without a synchroniser.  When a        *)
(* contact moves at the clock edge itself, each register it feeds latches  *)
(* what it sees on its own: the stored sample the old or the new level,    *)
(* and each bit of the counter its old or its new next value.              *)
(***************************************************************************)
EXTENDS Encodeur

CONSTANT Width      (* bits of the counter, 10 in the RTL *)

ASSUME WidthAssumption == Width \in Nat \ {0} /\ Modulus = 2 ^ Width

Bit(c, k) == (c \div 2 ^ k) % 2

(* The counters that take each bit from c or from d. *)
Torn(c, d) ==
  {x \in 0 .. Modulus - 1 :
     \A k \in 0 .. Width - 1 : Bit(x, k) \in {Bit(c, k), Bit(d, k)}}

(* A clock edge at which the shaft moves one phase. *)
RacingTick(step) ==
  /\ still
  /\ pos + step \in -MaxTurn .. MaxTurn
  /\ pos' = pos + step
  /\ A_d' \in {LineA(pos), LineA(pos')}
  /\ B_d' \in {LineB(pos), LineB(pos')}
  /\ compteur' \in Torn(Counted(LineA(pos), LineB(pos)),
                        Counted(LineA(pos'), LineB(pos')))
  /\ UNCHANGED <<still, resets>>
=============================================================================
