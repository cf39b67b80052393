----------------------------- MODULE I2cTarget -----------------------------
(***************************************************************************)
(* The HDMI transmitter (ADV7513) at the other end of the two wires, as    *)
(* far as the configuration design relies on it: an I2C target that only   *)
(* receives.  It is a chip outside the repository, modelled from how       *)
(* I2C_WRITE_WDATA.v talks to it: START and STOP are SDA edges while SCL   *)
(* is high, a bit is sampled when SCL rises, the ninth slot acknowledges,  *)
(* and the three bytes are address, register and value.                    *)
(*                                                                         *)
(* TargetStep reacts to the move of the master's two outputs made in the   *)
(* same step.  A target may refuse any byte, at most MaxRefusals times.    *)
(* Values after the first one of a transaction are accepted and not kept.  *)
(***************************************************************************)
EXTENDS I2cWriteWdata, Sequences

CONSTANTS
  DeviceAddress,   (* the address byte the target answers to *)
  Unwritten,       (* content of a register never written    *)
  MaxRefusals      (* bound on the bytes the target refuses  *)

ASSUME TargetAssumption ==
  /\ DeviceAddress \in Byte
  /\ Unwritten \notin Byte
  /\ MaxRefusals \in Nat

VARIABLES
  phase,       (* the byte being received, or "idle", "ignore" *)
  bits,        (* the bits of it received so far               *)
  pull,        (* TRUE while the target holds SDA low          *)
  register,    (* register named by this transaction           *)
  regs,        (* the register file                            *)
  refusals     (* bytes refused so far                         *)

targetVars == <<phase, bits, pull, register, regs, refusals>>

Phases == {"idle", "ignore", "address", "register", "value", "more"}

(* The wired-and line, given the master's output. *)
Line(sda) == IF pull THEN 0 ELSE sda

TargetInit ==
  /\ phase = "idle" /\ bits = <<>> /\ pull = FALSE
  /\ register = Unwritten
  /\ regs = [r \in Byte |-> Unwritten]
  /\ refusals = 0

Receiving == phase \notin {"idle", "ignore"}

SeeStart ==
  /\ phase' = "address" /\ bits' = <<>> /\ pull' = FALSE
  /\ UNCHANGED <<register, regs, refusals>>

SeeStop ==
  /\ phase' = "idle" /\ bits' = <<>> /\ pull' = FALSE
  /\ UNCHANGED <<register, regs, refusals>>

Sample(sda) ==
  /\ bits' = IF Receiving THEN Append(bits, sda) ELSE bits
  /\ UNCHANGED <<phase, pull, register, regs, refusals>>

(* The falling edge after the last data bit: take the byte, or refuse it. *)
Accept ==
  /\ phase = "address" => bits = DeviceAddress
  /\ pull' = TRUE
  /\ register' = IF phase = "register" THEN bits ELSE register
  /\ regs' = IF phase = "value" THEN [regs EXCEPT ![register] = bits] ELSE regs
  /\ UNCHANGED <<phase, bits, refusals>>

Refuse ==
  /\ \/ /\ phase = "address" /\ bits # DeviceAddress
        /\ UNCHANGED refusals
     \/ /\ refusals < MaxRefusals
        /\ refusals' = refusals + 1
  /\ phase' = "ignore" /\ bits' = <<>>
  /\ UNCHANGED <<pull, register, regs>>

(* The falling edge after the acknowledge slot. *)
Release ==
  /\ pull' = FALSE /\ bits' = <<>>
  /\ phase' = CASE phase = "address"  -> "register"
                [] phase = "register" -> "value"
                [] OTHER              -> "more"
  /\ UNCHANGED <<register, regs, refusals>>

SclFalls ==
  \/ Receiving /\ Len(bits) = ByteBits /\ (Accept \/ Refuse)
  \/ Receiving /\ Len(bits) = Slots /\ Release
  \/ /\ Receiving => Len(bits) \notin {ByteBits, Slots}
     /\ UNCHANGED targetVars

(* START and STOP: SDA moves while SCL is high.                            *)
StartSeen == SCLO = 1 /\ SCLO' = 1 /\ Line(SDAO) = 1 /\ Line(SDAO') = 0
StopSeen  == SCLO' = 1 /\ Line(SDAO) = 0 /\ Line(SDAO') = 1

(* The reaction to the step (SDAO, SCLO) -> (SDAO', SCLO').  When both     *)
(* outputs rise in the same step (the first clock after a reset) the       *)
(* target may see either rise first.                                       *)
TargetStep ==
  \/ StartSeen /\ SeeStart
  \/ StopSeen /\ SeeStop
  \/ SCLO = 0 /\ SCLO' = 1 /\ Sample(Line(SDAO'))
  \/ SCLO = 1 /\ SCLO' = 0 /\ SclFalls
  \/ /\ SCLO' = SCLO
     /\ SCLO = 1 => Line(SDAO) = Line(SDAO')
     /\ UNCHANGED targetVars

TargetTypeOK ==
  /\ phase \in Phases
  /\ bits \in Seq(BIT) /\ Len(bits) \in 0 .. Slots
  /\ pull \in BOOLEAN
  /\ register \in Byte \cup {Unwritten}
  /\ regs \in [Byte -> Byte \cup {Unwritten}]
  /\ refusals \in 0 .. MaxRefusals
=============================================================================
