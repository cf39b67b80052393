---------------------------- MODULE AvalonI2cCore ----------------------------
(***************************************************************************)
(* The Avalon I2C master of the Nios design: the state machine of          *)
(* altera_avalon_i2c_mstfsm.v, the two FIFOs of altera_avalon_i2c_fifo.v   *)
(* as altera_avalon_i2c.v wires them, the CTRL.EN, NACK_DET and            *)
(* ARBLOST_DET bits and the command threshold of altera_avalon_i2c_csr.v,  *)
(* and the bus_idle detector of altera_avalon_i2c_condt_det.v.             *)
(*                                                                         *)
(* A step of the machine is a START, a byte, an acknowledge or a STOP: the *)
(* shifters and clock counters below it are abstracted.  RX_ACK is the     *)
(* ninth bit of RX_BYTE, which comes after the byte is pushed.             *)
(*                                                                         *)
(* Another master may take the bus, by starting first (Contend) or by      *)
(* winning the arbitration of a byte (the Lose actions).                   *)
(***************************************************************************)
EXTENDS Adxl345

CONSTANTS
  Depth,           (* entries of each FIFO, 8 in the design               *)
  MaxContentions   (* bound on the times another master takes the bus     *)

ASSUME CoreAssumption == Depth \in Nat \ {0} /\ MaxContentions \in Nat

VARIABLES
  core,            (* mst_fsm_state                                       *)
  ctrl_en,
  tfr_cmd_fifo_thd, (* TX_READY is up at this many commands or fewer    *)
  cmd,             (* tfr_cmd: the command popped last                    *)
  sent_7bit_addr,
  rw_cmd,          (* TRUE in a read                                      *)
  txfifo,          (* commands [byte, sta, sto]                           *)
  rxfifo,
  nack_det, arblost_det,
  bus,             (* "idle", "ours" or "other": who is between START and STOP *)
  contentions

fifoVars == <<txfifo, rxfifo>>
isrVars  == <<nack_det, arblost_det>>
ctrlVars == <<ctrl_en, tfr_cmd_fifo_thd>>
coreVars == <<core, ctrlVars, cmd, sent_7bit_addr, rw_cmd, fifoVars, isrVars,
              bus, contentions>>

Command(byte, sta, sto) == [byte |-> byte, sta |-> sta, sto |-> sto]

CoreInit ==
  /\ core = "IDLE" /\ ctrl_en = FALSE /\ tfr_cmd_fifo_thd = Depth - 1
  /\ cmd = Command(0, FALSE, FALSE)
  /\ sent_7bit_addr = FALSE /\ rw_cmd = FALSE
  /\ txfifo = <<>> /\ rxfifo = <<>>
  /\ nack_det = FALSE /\ arblost_det = FALSE
  /\ bus = "idle" /\ contentions = 0

(* Both FIFOs are held empty until software clears the two bits. *)
flush_txfifo == nack_det \/ arblost_det

tx_ready == ctrl_en /\ Len(txfifo) <= tfr_cmd_fifo_thd

(* CORE_STATUS, as software reads it. *)
Busy == core \notin {"IDLE", "PRE_IDLE"}

-----------------------------------------------------------------------------
(* Register accesses by software.                                          *)

WriteCommand(c) ==
  /\ txfifo' = IF flush_txfifo \/ Len(txfifo) >= Depth
                 THEN txfifo ELSE Append(txfifo, c)
  /\ UNCHANGED <<core, ctrlVars, cmd, sent_7bit_addr, rw_cmd, rxfifo, isrVars,
                 bus, contentions>>

(* Reading an empty FIFO returns what its memory holds: a byte of no        *)
(* register that was asked for.                                            *)
Garbage == [register |-> Registers, attempt |-> 0]
RxData  == IF rxfifo = <<>> THEN Garbage ELSE Head(rxfifo)

PopRxData ==
  /\ rxfifo' = IF rxfifo = <<>> THEN rxfifo ELSE Tail(rxfifo)
  /\ UNCHANGED <<core, ctrlVars, cmd, sent_7bit_addr, rw_cmd, txfifo, isrVars,
                 bus, contentions>>

ClearIsr ==
  /\ nack_det' = FALSE /\ arblost_det' = FALSE
  /\ UNCHANGED <<core, ctrlVars, cmd, sent_7bit_addr, rw_cmd, fifoVars,
                 bus, contentions>>

(* The rising edge of CTRL.EN starts a machine that is idle, and only then. *)
SetEnable ==
  /\ ctrl_en' = TRUE
  /\ core' = IF core = "IDLE" THEN "PRE_START" ELSE core
  /\ UNCHANGED <<tfr_cmd_fifo_thd, cmd, sent_7bit_addr, rw_cmd, fifoVars,
                 isrVars, bus, contentions>>

ClearEnable ==
  /\ ctrl_en' = FALSE
  /\ UNCHANGED <<core, tfr_cmd_fifo_thd, cmd, sent_7bit_addr, rw_cmd,
                 fifoVars, isrVars, bus, contentions>>

-----------------------------------------------------------------------------
(* The machine.                                                            *)

Goto(state) == core' = state

Start ==
  /\ core = "PRE_START"
  /\ ~flush_txfifo /\ bus = "idle" /\ txfifo # <<>>
  /\ Goto("GEN_START")
  /\ bus' = "ours"
  /\ UNCHANGED <<ctrlVars, cmd, sent_7bit_addr, rw_cmd, fifoVars, isrVars,
                 contentions, chipVars>>

StartDone ==
  /\ core = "GEN_START"
  /\ Goto("POP_TX_FIFO")
  /\ UNCHANGED <<ctrlVars, cmd, sent_7bit_addr, rw_cmd, fifoVars, isrVars, bus,
                 contentions, chipVars>>

Pop ==
  /\ core = "POP_TX_FIFO"
  /\ cmd' = Head(txfifo) /\ txfifo' = Tail(txfifo)
  /\ Goto(IF ~sent_7bit_addr THEN "GEN_7BIT_ADDR"
          ELSE IF cmd'.sta THEN "GEN_RESTART_7BIT"
          ELSE IF rw_cmd THEN "RX_BYTE"
          ELSE "TX_BYTE")
  /\ sent_7bit_addr' = (sent_7bit_addr /\ ~cmd'.sta)
  /\ UNCHANGED <<ctrlVars, rw_cmd, rxfifo, isrVars, bus, contentions, chipVars>>

RestartDone ==
  /\ core = "GEN_RESTART_7BIT"
  /\ Goto("GEN_7BIT_ADDR")
  /\ UNCHANGED <<ctrlVars, cmd, sent_7bit_addr, rw_cmd, fifoVars, isrVars, bus,
                 contentions, chipVars>>

(* The next command, or SCL held low until software writes one. *)
GoOn == Goto(IF txfifo = <<>> THEN "BUS_HOLD" ELSE "POP_TX_FIFO")

AddressAcked ==
  /\ core = "GEN_7BIT_ADDR"
  /\ Addressed(cmd.byte)
  /\ sent_7bit_addr' = TRUE
  /\ rw_cmd' = (cmd.byte = ReadAddress)
  /\ GoOn
  /\ UNCHANGED <<ctrlVars, cmd, fifoVars, isrVars, bus, contentions>>

ByteAcked ==
  /\ core = "TX_BYTE"
  /\ Take(cmd.byte)
  /\ IF cmd.sto THEN Goto("GEN_STOP") ELSE GoOn
  /\ UNCHANGED <<ctrlVars, cmd, sent_7bit_addr, rw_cmd, fifoVars, isrVars, bus,
                 contentions>>

Flushed == txfifo' = <<>> /\ rxfifo' = <<>>

(* Nobody acknowledged the address or the byte. *)
Nacked ==
  /\ core \in {"GEN_7BIT_ADDR", "TX_BYTE"}
  /\ Refused(cmd.byte, core = "GEN_7BIT_ADDR")
  /\ Goto("GEN_STOP")
  /\ nack_det' = TRUE /\ Flushed
  /\ UNCHANGED <<ctrlVars, cmd, sent_7bit_addr, rw_cmd, arblost_det, bus,
                 contentions>>

ByteReceived(attempt) ==
  /\ core = "RX_BYTE"
  /\ rxfifo' = IF flush_txfifo \/ Len(rxfifo) >= Depth
                 THEN rxfifo ELSE Append(rxfifo, Sent(attempt))
  /\ Give
  /\ Goto("RX_ACK")
  /\ UNCHANGED <<ctrlVars, cmd, sent_7bit_addr, rw_cmd, txfifo, isrVars, bus,
                 contentions>>

ByteAnswered ==
  /\ core = "RX_ACK"
  /\ IF cmd.sto THEN Goto("GEN_STOP") ELSE GoOn
  /\ UNCHANGED <<ctrlVars, cmd, sent_7bit_addr, rw_cmd, fifoVars, isrVars, bus,
                 contentions, chipVars>>

(* Another master drives SDA low where this one releases it: in a byte it  *)
(* sends, or in the NACK with which it ends a read.                        *)
Lose ==
  /\ contentions < MaxContentions
  /\ \/ core \in {"GEN_7BIT_ADDR", "TX_BYTE"}
     \/ core = "RX_ACK" /\ cmd.sto
  /\ contentions' = contentions + 1
  /\ arblost_det' = TRUE /\ Flushed
  /\ sent_7bit_addr' = FALSE
  /\ bus' = "other"
  /\ Goto("PRE_IDLE")
  /\ UNCHANGED <<ctrlVars, cmd, rw_cmd, nack_det, chipVars>>

Resume ==
  /\ core = "BUS_HOLD"
  /\ txfifo # <<>>
  /\ Goto("POP_TX_FIFO")
  /\ UNCHANGED <<ctrlVars, cmd, sent_7bit_addr, rw_cmd, fifoVars, isrVars, bus,
                 contentions, chipVars>>

StopDone ==
  /\ core = "GEN_STOP"
  /\ Goto(IF txfifo = <<>> THEN "PRE_IDLE" ELSE "PRE_START")
  /\ sent_7bit_addr' = FALSE
  /\ bus' = "idle"
  /\ UNCHANGED <<ctrlVars, cmd, rw_cmd, fifoVars, isrVars, contentions, chipVars>>

(* PRE_IDLE lasts one clock when it has somewhere to go. *)
LeavesPreIdle ==
  /\ core = "PRE_IDLE"
  /\ (txfifo # <<>> /\ ~flush_txfifo) \/ ~ctrl_en

PreIdle ==
  /\ LeavesPreIdle
  /\ Goto(IF txfifo # <<>> /\ ~flush_txfifo THEN "PRE_START" ELSE "IDLE")
  /\ UNCHANGED <<ctrlVars, cmd, sent_7bit_addr, rw_cmd, fifoVars, isrVars, bus,
                 contentions, chipVars>>

CoreStep(attempt) ==
  \/ Start \/ StartDone \/ Pop \/ RestartDone \/ AddressAcked \/ ByteAcked
  \/ Nacked \/ ByteReceived(attempt) \/ ByteAnswered \/ Lose \/ Resume
  \/ StopDone \/ PreIdle

(* The machine waits for software or for the bus, and for nothing else. *)
Waiting ==
  \/ core = "IDLE"
  \/ core = "PRE_IDLE" /\ ~LeavesPreIdle
  \/ core = "PRE_START" /\ (flush_txfifo \/ bus # "idle" \/ txfifo = <<>>)
  \/ core = "BUS_HOLD" /\ txfifo = <<>>

-----------------------------------------------------------------------------
(* The other master takes an idle bus, and gives the bus back. *)
Contend ==
  /\ bus = "idle" /\ contentions < MaxContentions
  /\ bus' = "other" /\ contentions' = contentions + 1
  /\ UNCHANGED <<core, ctrlVars, cmd, sent_7bit_addr, rw_cmd, fifoVars, isrVars,
                 chipVars>>

Yield ==
  /\ bus = "other"
  /\ bus' = "idle"
  /\ UNCHANGED <<core, ctrlVars, cmd, sent_7bit_addr, rw_cmd, fifoVars, isrVars,
                 contentions, chipVars>>
=============================================================================
