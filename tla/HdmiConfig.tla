----------------------------- MODULE HdmiConfig -----------------------------
(***************************************************************************)
(* I2C_HDMI_Config.v: at power-up the telecran design loads the registers  *)
(* of the HDMI transmitter, one table entry per I2C transfer, and loads    *)
(* them again when the transmitter pulls HDMI_TX_INT low.                  *)
(*                                                                         *)
(* The configuration machine and the I2C writer below it are clocked by    *)
(* the same edge of mI2C_CTRL_CLK, so one step of the model is one edge:   *)
(* each machine reads the registers as they were before the edge.  The     *)
(* target on the wires answers within the step.  Reset is asynchronous: a  *)
(* step of its own, between any two edges.                                 *)
(***************************************************************************)
EXTENDS I2cTarget

CONSTANTS
  LUT_SIZE,      (* number of table entries, 31 in the RTL                  *)
  LUT_DATA,      (* the table: entry |-> [register, value], indexed from 0  *)
  TxIntLevels,   (* levels HDMI_TX_INT may be sampled at: 0 asks for a reload *)
  MaxResets      (* bound on the number of resets                           *)

ASSUME ConfigAssumption ==
  /\ LUT_SIZE \in Nat \ {0}
  /\ LUT_DATA \in [0 .. LUT_SIZE - 1 -> [register : Byte, value : Byte]]
  /\ TxIntLevels \subseteq BIT
  /\ MaxResets \in Nat

VARIABLES
  LUT_INDEX,   (* table entry being loaded, LUT_SIZE once past the last      *)
  mSetup_ST,   (* 0: present the entry, 1: wait for END, 2: next entry       *)
  mI2C_GO,
  mI2C_DATA,   (* the entry presented to the writer                          *)
  READY,
  delivered,   (* history: the target took the entry at LUT_INDEX since      *)
               (* LUT_INDEX got its value                                    *)
  resets,      (* history: resets so far                                     *)
  masked       (* history: a reset caught the target holding SDA low, and no *)
               (* START has reached it since                                 *)

configVars == <<LUT_INDEX, mSetup_ST, mI2C_GO, mI2C_DATA, READY>>
vars == <<writerVars, targetVars, configVars, delivered, resets, masked>>

(* Registers without a reset (all of the writer but ST, mI2C_DATA) may     *)
(* power up at either level; the outputs are the ones it matters for.      *)
Init ==
  /\ ST = 0 /\ CNT = 0 /\ BYTE = 0
  /\ A = [i \in 1 .. Slots |-> 0]
  /\ SDAO \in BIT /\ SCLO \in BIT /\ END_OK \in BIT /\ ACK_OK \in BIT
  /\ TargetInit
  /\ LUT_INDEX = 0 /\ mSetup_ST = 0 /\ mI2C_GO = 0 /\ READY = 0
  /\ mI2C_DATA = LUT_DATA[0]
  /\ delivered = FALSE
  /\ resets = 0
  /\ masked = FALSE

-----------------------------------------------------------------------------
(* The configuration machine.                                              *)

Loading == LUT_INDEX < LUT_SIZE

Present ==
  /\ Loading /\ mSetup_ST = 0
  /\ mI2C_DATA' = LUT_DATA[LUT_INDEX]
  /\ mI2C_GO' = 1
  /\ mSetup_ST' = 1
  /\ READY' = 0
  /\ UNCHANGED LUT_INDEX

(* Mutant: moves on whether or not the transfer was acknowledged. *)
AwaitEnd_AckIgnored ==
  /\ Loading /\ mSetup_ST = 1
  /\ IF END_OK = 1
       THEN mSetup_ST' = 2 /\ mI2C_GO' = 0
       ELSE UNCHANGED <<mSetup_ST, mI2C_GO>>
  /\ READY' = 0
  /\ UNCHANGED <<LUT_INDEX, mI2C_DATA>>

AwaitEnd ==
  /\ Loading /\ mSetup_ST = 1
  /\ IF END_OK = 1
       THEN /\ mSetup_ST' = IF ACK_OK = 0 THEN 2 ELSE 0
            /\ mI2C_GO' = 0
       ELSE UNCHANGED <<mSetup_ST, mI2C_GO>>
  /\ READY' = 0
  /\ UNCHANGED <<LUT_INDEX, mI2C_DATA>>

NextEntry ==
  /\ Loading /\ mSetup_ST = 2
  /\ LUT_INDEX' = LUT_INDEX + 1
  /\ mSetup_ST' = 0
  /\ READY' = 0
  /\ UNCHANGED <<mI2C_GO, mI2C_DATA>>

Loaded(txInt) ==
  /\ ~Loading
  /\ READY' = 1
  /\ LUT_INDEX' = IF txInt = 0 THEN 0 ELSE LUT_INDEX
  /\ UNCHANGED <<mSetup_ST, mI2C_GO, mI2C_DATA>>

ConfigEdge(txInt) == Present \/ AwaitEnd \/ NextEntry \/ Loaded(txInt)

-----------------------------------------------------------------------------
(* Composition.                                                            *)

(* The target takes the value byte of a transfer in this step. *)
Taken(entry) ==
  /\ phase = "value" /\ ~pull /\ pull'
  /\ register = entry.register /\ bits = entry.value

RecordHistory ==
  /\ delivered' = /\ LUT_INDEX' = LUT_INDEX
                  /\ \/ delivered
                     \/ Loading /\ Taken(LUT_DATA[LUT_INDEX])
  /\ masked' = (masked /\ ~StartSeen)
  /\ UNCHANGED resets

EdgeAt(txInt) ==
  /\ ConfigEdge(txInt)
  /\ WriterEdge(mI2C_GO, DeviceAddress, mI2C_DATA.register, mI2C_DATA.value,
                Line(SDAO))
  /\ TargetStep
  /\ RecordHistory

Edge == \E txInt \in TxIntLevels : EdgeAt(txInt)

Reset ==
  /\ resets < MaxResets
  /\ resets' = resets + 1
  /\ WriterReset
  /\ LUT_INDEX' = 0 /\ mSetup_ST' = 0 /\ mI2C_GO' = 0 /\ READY' = 0
  /\ delivered' = FALSE
  /\ masked' = (masked \/ pull)
  /\ UNCHANGED <<mI2C_DATA, targetVars>>

Next == Edge \/ Reset

Spec == Init /\ [][Next]_vars

(* The control clock is free running. *)
FairSpec == Spec /\ WF_vars(Edge)

-----------------------------------------------------------------------------
TypeOK ==
  /\ WriterTypeOK
  /\ TargetTypeOK
  /\ LUT_INDEX \in 0 .. LUT_SIZE
  /\ mSetup_ST \in 0 .. 2
  /\ mI2C_GO \in BIT /\ READY \in BIT
  /\ mI2C_DATA \in [register : Byte, value : Byte]
  /\ delivered \in BOOLEAN
  /\ resets \in 0 .. MaxResets
  /\ masked \in BOOLEAN

(* The configuration machine leaves a table entry only when the target     *)
(* has taken that entry's register and value (I2C_HDMI_Config.v, case 1    *)
(* and 2): END, ACK, GO and the table index stay in step across refusals,  *)
(* resets and reload requests.  The code makes two exceptions: entry 0,    *)
(* and a transfer whose START the target could not see.                    *)
EntryDelivered ==
  [][LUT_INDEX' = LUT_INDEX + 1 /\ LUT_INDEX # 0 /\ ~masked => delivered]_vars

(* READY is reported only when every register named by an entry but the    *)
(* first holds the value of the last such entry naming it, as long as no   *)
(* reset has come: the extra transfer that follows the last entry, and the *)
(* data that change under it when a reload begins, leave no trace.         *)
Configured(i) ==
  \/ regs[LUT_DATA[i].register] = LUT_DATA[i].value
  \/ \E j \in i + 1 .. LUT_SIZE - 1 : LUT_DATA[j].register = LUT_DATA[i].register

ReadyMeansConfigured ==
  READY = 1 /\ resets = 0 => \A i \in 1 .. LUT_SIZE - 1 : Configured(i)

(* A transfer once begun is never cut: the target sees a START only when   *)
(* it is idle, a STOP only after the acknowledge of the last byte (or when *)
(* it gave up), so the writer and the target agree on every bit slot until *)
(* a reset cuts a transfer.                                                *)
NeverCut ==
  [][resets = 0 =>
       /\ StartSeen => phase = "idle"
       /\ StopSeen => \/ phase \in {"idle", "ignore"}
                      \/ phase = "more" /\ bits = <<0>>]_vars

(* Every table entry, the first included, is taken before the next one.    *)
EveryEntryDelivered ==
  [][LUT_INDEX' = LUT_INDEX + 1 => delivered]_vars

(* Refusals and reload requests or not, the design goes through the table  *)
(* as the abstract specification says, until a reset cuts a transfer.      *)
Loader == INSTANCE RegisterLoader WITH
            index <- LUT_INDEX, stored <- delivered, ready <- READY = 1,
            intact <- resets = 0
LoadsRegisters == Loader!FairSpec

(* As long as the target refuses finitely often, the design always comes   *)
(* back to READY, resets and reload requests or not.                       *)
AlwaysReadyAgain == []<>(READY = 1)
=============================================================================
