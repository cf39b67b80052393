--------------------------- MODULE I2cWriteWdata ---------------------------
(***************************************************************************)
(* The bit-banging I2C master of the HDMI configuration design:            *)
(* I2C_WRITE_WDATA.v, as instantiated by I2C_Controller.v (BYTE_NUM = 2,   *)
(* an address byte followed by two bytes).                                 *)
(*                                                                         *)
(* One action per value of the state register ST, each the whole branch    *)
(* of the clocked case statement; the inputs of the branch are parameters. *)
(* States 2, 3, 4 and 5 make one bit slot: SCL low, SDA set up, SCL high,  *)
(* SCL low again with SDA sampled.                                         *)
(*                                                                         *)
(* SDA is open drain.  SDAO = 1 releases the line, so what the line        *)
(* carries also depends on the target, which composing modules supply.     *)
(***************************************************************************)
EXTENDS Naturals

CONSTANT ByteBits    (* data bits of a byte: 8 in the RTL (CNT == 9 ends it) *)

ASSUME ByteBitsAssumption == ByteBits \in Nat \ {0}

VARIABLES
  ST,        (* state register of the case statement                  *)
  CNT,       (* clock pulses sent of the current byte                 *)
  BYTE,      (* 0: address byte, 1: register byte, 2: data byte       *)
  A,         (* shift register, one byte and its released ACK slot    *)
  SDAO,      (* SDA as driven by the master, 1 = released             *)
  SCLO,      (* SCL                                                   *)
  END_OK,    (* transfer over                                         *)
  ACK_OK     (* despite its name, 1 when some byte was not acknowledged *)

writerVars == <<ST, CNT, BYTE, A, SDAO, SCLO, END_OK, ACK_OK>>

BIT  == {0, 1}
Byte == [1 .. ByteBits -> BIT]

ByteNum == 2
Slots   == ByteBits + 1      \* the data bits and the acknowledge bit

(* {byte, 1'b1}: the byte followed by a released line for the acknowledge. *)
Framed(byte) == [i \in 1 .. Slots |-> IF i = Slots THEN 1 ELSE byte[i]]

(* What { SDAO, A } <= { A, 1'b0 } leaves in A. *)
Shifted(a) == [i \in 1 .. Slots |-> IF i = Slots THEN 0 ELSE a[i + 1]]

Drive(sda, scl) == SDAO' = sda /\ SCLO' = scl

(* The asynchronous reset clears ST and nothing else.                      *)
WriterReset ==
  /\ ST' = 0
  /\ UNCHANGED <<CNT, BYTE, A, SDAO, SCLO, END_OK, ACK_OK>>

-----------------------------------------------------------------------------
(* The branches of the case statement.                                     *)

Idle(go) ==
  /\ ST = 0
  /\ Drive(1, 1)
  /\ ACK_OK' = 0 /\ CNT' = 0 /\ END_OK' = 1 /\ BYTE' = 0
  /\ ST' = IF go = 1 THEN 30 ELSE 0
  /\ UNCHANGED A

StartBit(address) ==
  /\ ST = 1
  /\ Drive(0, 1)
  /\ A' = Framed(address)
  /\ ST' = 2
  /\ UNCHANGED <<CNT, BYTE, END_OK, ACK_OK>>

ClockLow ==
  /\ ST = 2
  /\ Drive(0, 0)
  /\ ST' = 3
  /\ UNCHANGED <<CNT, BYTE, A, END_OK, ACK_OK>>

ShiftOut ==
  /\ ST = 3
  /\ Drive(A[1], SCLO)
  /\ A' = Shifted(A)
  /\ ST' = 4
  /\ UNCHANGED <<CNT, BYTE, END_OK, ACK_OK>>

ClockHigh ==
  /\ ST = 4
  /\ Drive(SDAO, 1)
  /\ CNT' = CNT + 1
  /\ ST' = 5
  /\ UNCHANGED <<BYTE, A, END_OK, ACK_OK>>

BitDone ==
  /\ ST = 5
  /\ CNT # Slots
  /\ Drive(SDAO, 0)
  /\ ST' = 2
  /\ UNCHANGED <<CNT, BYTE, A, END_OK, ACK_OK>>

(* Mutant: stops one byte short. *)
ByteDone_OneShort(register, data, sdai) ==
  /\ ST = 5
  /\ CNT = Slots
  /\ Drive(SDAO, 0)
  /\ ACK_OK' = IF sdai = 1 THEN 1 ELSE ACK_OK
  /\ \/ /\ BYTE = ByteNum - 1
        /\ ST' = 6
        /\ UNCHANGED <<CNT, BYTE, A>>
     \/ /\ BYTE # ByteNum - 1
        /\ ST' = 2
        /\ CNT' = 0
        /\ BYTE' = BYTE + 1
        /\ A' = Framed(IF BYTE = 0 THEN register ELSE data)
  /\ UNCHANGED END_OK

ByteDone(register, data, sdai) ==
  /\ ST = 5
  /\ CNT = Slots
  /\ Drive(SDAO, 0)
  /\ ACK_OK' = IF sdai = 1 THEN 1 ELSE ACK_OK
  /\ \/ /\ BYTE = ByteNum
        /\ ST' = 6
        /\ UNCHANGED <<CNT, BYTE, A>>
     \/ /\ BYTE # ByteNum
        /\ ST' = 2
        /\ CNT' = 0
        /\ BYTE' = BYTE + 1
        /\ A' = Framed(IF BYTE = 0 THEN register ELSE data)
  /\ UNCHANGED END_OK

StopBit ==
  /\ ST \in 6 .. 8
  /\ Drive(IF ST = 8 THEN 1 ELSE 0, IF ST = 6 THEN 0 ELSE 1)
  /\ ST' = ST + 1
  /\ UNCHANGED <<CNT, BYTE, A, END_OK, ACK_OK>>

(* Mutant: the end of a transfer forgets that a byte was refused. *)
Finish_ForgetsAck ==
  /\ ST = 9
  /\ Drive(1, 1)
  /\ CNT' = 0 /\ END_OK' = 1 /\ BYTE' = 0 /\ ACK_OK' = 0
  /\ ST' = 30
  /\ UNCHANGED A

Finish ==
  /\ ST = 9
  /\ Drive(1, 1)
  /\ CNT' = 0 /\ END_OK' = 1 /\ BYTE' = 0
  /\ ST' = 30
  /\ UNCHANGED <<A, ACK_OK>>

AwaitGoLow(go) ==
  /\ ST = 30
  /\ ST' = IF go = 0 THEN 31 ELSE 30
  /\ UNCHANGED <<CNT, BYTE, A, SDAO, SCLO, END_OK, ACK_OK>>

(* Mutant: a new transfer starts with the refusal of the last one. *)
Launch_KeepsAck ==
  /\ ST = 31
  /\ END_OK' = 0
  /\ ST' = 1
  /\ UNCHANGED <<CNT, BYTE, A, SDAO, SCLO, ACK_OK>>

(* Mutant: a new transfer starts with the END of the last one. *)
Launch_KeepsEnd ==
  /\ ST = 31
  /\ ACK_OK' = 0
  /\ ST' = 1
  /\ UNCHANGED <<CNT, BYTE, A, SDAO, SCLO, END_OK>>

Launch ==
  /\ ST = 31
  /\ END_OK' = 0 /\ ACK_OK' = 0
  /\ ST' = 1
  /\ UNCHANGED <<CNT, BYTE, A, SDAO, SCLO>>

(* One rising edge of PT_CK. *)
WriterEdge(go, address, register, data, sdai) ==
  \/ Idle(go)
  \/ StartBit(address)
  \/ ClockLow
  \/ ShiftOut
  \/ ClockHigh
  \/ BitDone
  \/ ByteDone(register, data, sdai)
  \/ StopBit
  \/ Finish
  \/ AwaitGoLow(go)
  \/ Launch

WriterTypeOK ==
  /\ ST \in 0 .. 9 \cup {30, 31}
  /\ CNT \in 0 .. Slots
  /\ BYTE \in 0 .. ByteNum
  /\ A \in [1 .. Slots -> BIT]
  /\ SDAO \in BIT /\ SCLO \in BIT /\ END_OK \in BIT /\ ACK_OK \in BIT
=============================================================================
