--------------------------- MODULE HdmiConfigInv ---------------------------
(***************************************************************************)
(* The inductive invariants of the HDMI configuration design: DeliveryInv  *)
(* (an entry of the table is only left once the target has it) and LoadInv *)
(* (READY means a configured target).  TLC checks both on small instances; *)
(* HdmiConfigProofs proves that every step preserves them.                 *)
(***************************************************************************)
EXTENDS HdmiConfig

(* An entry other than the first is being loaded. *)
Underway == Loading /\ LUT_INDEX # 0

(* The product of the two state registers.  ACK_OK = 1 in the two states   *)
(* that see a stale END after a refusal is what makes the configuration    *)
(* machine go round once more instead of moving on.                        *)
Handshake ==
  /\ mI2C_GO = 1 <=> mSetup_ST = 1
  /\ ~Loading => mSetup_ST = 0
  /\ ST = 0 => /\ LUT_INDEX = 0 /\ mSetup_ST \in {0, 1}
               /\ mSetup_ST = 1 => END_OK = 1 /\ ACK_OK = 0
  /\ ST \in 1 .. 9 => END_OK = 0
  /\ ST \in {30, 31} => END_OK = 1
  /\ mSetup_ST = 2 => ST \in {1, 30, 31}

EntryHandshake ==
  Underway =>
    /\ mSetup_ST = 0 => /\ ST \in {1, 2, 30, 31}
                        /\ ST = 2 => CNT = 0 /\ BYTE = 0
                        /\ ST = 30 => ACK_OK = 1
    /\ mSetup_ST = 1 => /\ mI2C_DATA = LUT_DATA[LUT_INDEX]
                        /\ ST = 31 => ACK_OK = 1
    /\ mSetup_ST = 2 => ST = 30

(* Levels of the two outputs and of the counters in each state. *)
Levels ==
  /\ ST \in {1, 30, 31} => SDAO = 1 /\ SCLO = 1 /\ CNT = 0 /\ BYTE = 0
  /\ ST = 2 /\ SCLO = 1 => SDAO = 0 /\ CNT = 0 /\ BYTE = 0
  /\ ST \in {3, 4, 6, 7} => SCLO = 0
  /\ ST \in {5, 8, 9} => SCLO = 1
  /\ ST \in {7, 8} => SDAO = 0
  /\ ST = 9 => SDAO = 1
  /\ ST = 5 => CNT > 0
  /\ ST \in 6 .. 9 => BYTE = ByteNum

(* SDA is released for the acknowledge slot. *)
AckReleased ==
  /\ ST \in {2, 3} => A[Slots - CNT] = 1
  /\ ST = 4 => IF CNT = ByteBits THEN SDAO = 1 ELSE A[ByteBits - CNT] = 1
  /\ ST = 5 => IF CNT = Slots THEN SDAO = 1 ELSE A[Slots - CNT] = 1

InByte  == ST \in 2 .. 5
AckSlot == CNT = IF ST = 5 THEN Slots ELSE ByteBits

PhaseOfByte ==
  CASE BYTE = 0 -> "address" [] BYTE = 1 -> "register" [] OTHER -> "value"

(* Once the target has seen the START of a transfer, the two sides count   *)
(* the same slots, and a byte the target refused is known as such after    *)
(* its acknowledge slot.                                                   *)
Framing ==
  ~masked =>
    /\ ~InByte => ~pull
    /\ InByte /\ Receiving =>
         /\ phase = PhaseOfByte /\ Len(bits) = CNT
         /\ pull <=> AckSlot
    /\ InByte /\ ~Receiving => phase = "ignore" /\ ~pull /\ (ACK_OK = 1 \/ AckSlot)
    /\ ST \in 6 .. 8 => phase \in {"more", "ignore"}

(* The data presented do not change under the bytes made from them: while  *)
(* an entry is loaded, and during the extra transfer after the last one    *)
(* until a reload presents the first.                                      *)
Steady == Underway \/ ~Loading \/ READY = 1

(* The byte under way, when it was made from this entry. *)
ByteOf(entry) == IF BYTE = 1 THEN entry.register ELSE entry.value

(* What is left of a byte in the shift register, and what the target has   *)
(* got of it.                                                              *)
Carries(byte) ==
  /\ ST \in {2, 3, 5} => \A i \in 1 .. ByteBits : i > CNT => A[i - CNT] = byte[i]
  /\ ST = 4 => /\ CNT < ByteBits => SDAO = byte[CNT + 1]
               /\ \A i \in 1 .. ByteBits : i > CNT + 1 => A[i - CNT - 1] = byte[i]

Has(byte) == \A i \in 1 .. ByteBits : i <= CNT => bits[i] = byte[i]

ToSend == Steady /\ BYTE # 0 => Carries(ByteOf(mI2C_DATA))

Received ==
  ~masked /\ Steady /\ BYTE # 0 /\ InByte /\ Receiving =>
    /\ Has(ByteOf(mI2C_DATA))
    /\ phase = "value" \/ pull => register = mI2C_DATA.register

Acknowledged ==
  ~masked /\ Underway =>
    /\ phase = "value" /\ pull => delivered
    /\ ST \in 6 .. 9 /\ ACK_OK = 0 => delivered
    /\ ST = 30 /\ mSetup_ST = 1 /\ ACK_OK = 0 => delivered
    /\ mSetup_ST = 2 => delivered

(* The machines, the wires and the target agree: an entry under way, once  *)
(* acknowledged, has been taken by the target.  Inductive next to type     *)
(* correctness.                                                            *)
DeliveryInv ==
  /\ Handshake /\ EntryHandshake
  /\ Levels /\ AckReleased
  /\ Framing /\ ToSend /\ Received /\ Acknowledged

-----------------------------------------------------------------------------
(* Why READY means a configured target: the invariant behind               *)
(* ReadyMeansConfigured.  Only a reset masks the target.                   *)

(* READY outlives the last entry by the step in which a reload begins.     *)
Announced == READY = 1 => ~Loading \/ (LUT_INDEX = 0 /\ mSetup_ST = 0)

(* The entry that is still presented when it is left, and after the last.  *)
StillPresented ==
  /\ Underway /\ mSetup_ST = 2 => mI2C_DATA = LUT_DATA[LUT_INDEX]
  /\ LUT_SIZE > 1 /\ (~Loading \/ READY = 1) =>
       mI2C_DATA = LUT_DATA[LUT_SIZE - 1]

(* The entries taken since the load began; once it has ended, all.         *)
Settled(i) ==
  /\ i \in 1 .. LUT_SIZE - 1
  /\ READY = 1 \/ i < LUT_INDEX \/ (i = LUT_INDEX /\ delivered)

SettledKept ==
  \A i \in 1 .. LUT_SIZE - 1 : Settled(i) =>
    \/ regs[LUT_DATA[i].register] = LUT_DATA[i].value
    \/ \E j \in 1 .. LUT_SIZE - 1 :
         j > i /\ Settled(j) /\ LUT_DATA[j].register = LUT_DATA[i].register

(* The announcement is withdrawn for entry 0 while the last entry may      *)
(* still be sent once more: what is then left of that transfer is made     *)
(* from either, and the last entry's value only if its register was.       *)
Straying == LUT_SIZE > 1 /\ LUT_INDEX = 0 /\ READY = 0

Ends == {LUT_DATA[0], LUT_DATA[LUT_SIZE - 1]}

StrayByte ==
  Straying /\ BYTE # 0 /\ InByte /\ Receiving =>
    \E entry \in Ends :
      /\ Carries(ByteOf(entry)) /\ Has(ByteOf(entry))
      /\ phase = "value" \/ pull => \E end \in Ends : register = end.register
      /\ BYTE = 2 /\ entry # LUT_DATA[0] =>
           register = entry.register /\ regs[register] = entry.value

Astray ==
  /\ Straying => mI2C_DATA = LUT_DATA[0]
  /\ StrayByte
  /\ ~Loading => ~delivered

(* Between transfers the target is idle; around the STOP it has the low    *)
(* bit of SDA and no other.                                                *)
Whole ==
  /\ ~Receiving => bits = <<>>
  /\ ST \notin 2 .. 8 => phase = "idle"
  /\ ST \in {6, 7} => bits = <<>>
  /\ ST = 8 /\ phase = "more" => bits = <<0>>

(* Until a reset, the target's registers hold what the load has settled,   *)
(* even while the last entry is sent once more after READY.                *)
LoadInv ==
  /\ Announced /\ StillPresented
  /\ resets = 0 => ~masked /\ SettledKept /\ Whole /\ Astray

(* Both: where the writer, the configuration machine and the target are at *)
(* every bit slot, and what the load has settled by then                   *)
(* (I2C_WRITE_WDATA.v:25-106, I2C_HDMI_Config.v:69-113).                   *)
ConfigInv == DeliveryInv /\ LoadInv
=============================================================================
