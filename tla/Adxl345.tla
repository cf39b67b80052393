------------------------------- MODULE Adxl345 -------------------------------
(***************************************************************************)
(* The accelerometer at the other end of the I2C bus of the Nios design,   *)
(* as main.c uses it: a chip with numbered registers and an address        *)
(* pointer.  The first byte written after the address sets the pointer,    *)
(* later bytes written and every byte read use the register it points to   *)
(* and move it on.  The chip is outside the repository.                    *)
(*                                                                         *)
(* A byte it sends is the register it came from and the attempt it was     *)
(* sampled in, so a reader can tell a stale or misplaced byte from the     *)
(* byte it asked for.                                                      *)
(***************************************************************************)
EXTENDS Naturals, Sequences

CONSTANTS
  Registers,    (* the registers are numbered 0 .. Registers - 1          *)
  MaxNacks      (* bound on the bytes the chip refuses                    *)

ASSUME ChipAssumption == Registers \in Nat \ {0} /\ MaxNacks \in Nat

VARIABLES
  pointer,      (* the register the next byte goes to or comes from       *)
  pointing,     (* TRUE when the next byte written is the pointer         *)
  written,      (* what was last written to each register                 *)
  nacks         (* bytes refused so far                                   *)

chipVars == <<pointer, pointing, written, nacks>>

Register == 0 .. Registers - 1

ChipInit ==
  /\ pointer = 0 /\ pointing = FALSE
  /\ written = [r \in Register |-> 0]
  /\ nacks = 0

Onward == (pointer + 1) % Registers

(* ADXL345_ADDR is 0x53: the chip answers to these two address bytes. *)
WriteAddress == 166
ReadAddress  == 167

Addressed(byte) ==
  /\ byte \in {WriteAddress, ReadAddress}
  /\ pointing' = (byte = WriteAddress)
  /\ UNCHANGED <<pointer, written, nacks>>

Take(byte) ==
  /\ pointing' = FALSE
  /\ IF pointing
       THEN pointer' = byte % Registers /\ UNCHANGED written
       ELSE /\ written' = [written EXCEPT ![pointer] = byte]
            /\ pointer' = Onward
  /\ UNCHANGED nacks

(* The byte the chip sends, sampled in this attempt. *)
Sent(attempt) == [register |-> pointer, attempt |-> attempt]

Give ==
  /\ pointer' = Onward
  /\ UNCHANGED <<pointing, written, nacks>>

(* A byte nobody acknowledges: a foreign address, or a busy chip. *)
Refused(byte, isAddress) ==
  /\ \/ isAddress /\ byte \notin {WriteAddress, ReadAddress} /\ UNCHANGED nacks
     \/ nacks < MaxNacks /\ nacks' = nacks + 1
  /\ UNCHANGED <<pointer, pointing, written>>
=============================================================================
