------------------------- MODULE AvalonI2cInterrupt -------------------------
(***************************************************************************)
(* The Avalon I2C driver with interrupts: calls made with                  *)
(* ALT_AVALON_I2C_USE_INTERRUPTS beside polling calls, the interrupt       *)
(* routine with the optional callback, and the status function the         *)
(* application polls between them.  A call by interrupt is over when that  *)
(* function no longer answers BUSY.                                        *)
(*                                                                         *)
(* Arbitration is never looked at once the commands are queued, so calls   *)
(* with interrupts are made where there is no other master, unless         *)
(* SharedBus says otherwise; the chip refuses bytes only there, so that    *)
(* the two are told apart.                                                 *)
(***************************************************************************)
EXTENDS AvalonI2cDriver

CONSTANTS
  IrqRequests,     (* the calls made with interrupts                        *)
  SharedBus        (* they are made on a bus with another master, too       *)

ASSUME IrqAssumption ==
  /\ SharedBus \in BOOLEAN
  /\ \A r \in IrqRequests : r.rx \in Nat /\ (r.tx # <<>> \/ r.rx > 0)

VARIABLES
  alone,            (* there is no other master on the bus                 *)
  use_interrupts,   (* the call under way is one with interrupts           *)
  iser,             (* the interrupts enabled                              *)
  irq_busy,         (* 0, 1 in a write, 2 in a read                        *)
  size,             (* bytes the callback has still to store               *)
  saveints,         (* local to the status function                        *)
  isr,              (* the interrupt routine: "off", or the access to come *)
  missed            (* history: this call cleared a refusal unseen         *)

irqVars == <<alone, use_interrupts, iser, irq_busy, size, saveints, isr,
             missed>>
allVars == <<vars, irqVars>>

TxReady == {"TX_READY"}
RxReady == {"RX_READY"}

(* What ends the transaction that is under way, or moves it on. *)
Awaited == IF irq_busy = 2 THEN RxReady ELSE TxReady

(* The receive threshold is one byte before RX_READY is enabled. *)
intr == \/ TxReady \subseteq iser /\ tx_ready
        \/ RxReady \subseteq iser /\ rxfifo # <<>>

IrqInit ==
  /\ Init /\ alone \in BOOLEAN
  /\ use_interrupts = FALSE /\ iser = {} /\ irq_busy = 0 /\ size = 0
  /\ saveints = {} /\ isr = "off" /\ missed = FALSE

-----------------------------------------------------------------------------
(* The calls. *)
PollingCall ==
  /\ \E r \in Requests : Call(r)
  /\ use_interrupts' = FALSE /\ missed' = FALSE
  /\ UNCHANGED <<alone, iser, irq_busy, size, saveints, isr>>

IrqCall ==
  /\ alone \/ SharedBus
  /\ \E r \in IrqRequests : Call(r)
  /\ use_interrupts' = TRUE /\ missed' = FALSE
  /\ UNCHANGED <<alone, iser, irq_busy, size, saveints, isr>>

(* Both kinds of call begin, write a command and look for a refusal alike. *)
Shared ==
  /\ \/ Enable /\ irq_busy' = IF ctrl_en THEN irq_busy ELSE 0
     \/ (Clear \/ Write \/ CheckNack) /\ UNCHANGED irq_busy
  /\ UNCHANGED <<alone, use_interrupts, iser, size, saveints, isr, missed>>

PollingOnly ==
  /\ ~use_interrupts
  /\ \/ CheckArbLost \/ Drain \/ DrainTake \/ Collect \/ Fetch \/ Settle
     \/ CheckLastNack
  /\ UNCHANGED irqVars

(* Nothing is drained while the commands of a read are queued. *)
IrqCheckArbLost ==
  /\ use_interrupts /\ At("arblost")
  /\ IF arblost_det \/ status # Success
       THEN /\ status' = IF arblost_det THEN "ARB_LOST_ERR" ELSE status
            /\ Goes("settle")
            /\ UNCHANGED <<fn, k, retry, request, buffer>>
       ELSE \/ /\ ~Last
               /\ Goes("write") /\ k' = k + 1
               /\ UNCHANGED <<fn, status, retry, request, buffer>>
            \/ /\ Last /\ fn = "transmit" /\ request.rx > 0
               /\ Return(Success)
            \/ /\ Last /\ (fn = "receive" \/ request.rx = 0)
               /\ Goes("quiet")
               /\ UNCHANGED <<fn, k, status, retry, request, buffer>>
  /\ UNCHANGED <<attempt, coreVars, chipVars, irqVars>>

IrqSettle ==
  /\ use_interrupts /\ At("settle")
  /\ \/ ~Busy /\ UNCHANGED status
     \/ Busy /\ Waiting /\ GiveUp
  /\ Goes("disable")
  /\ UNCHANGED <<fn, k, retry, request, buffer, attempt, coreVars, chipVars,
                 irqVars>>

Finish == Disable /\ UNCHANGED irqVars

(* All the bits of the ISR, NACK_DET with them. *)
ClearAll == ClearIsr /\ missed' = (missed \/ nack_det)

Quiet ==
  /\ At("quiet")
  /\ ClearAll
  /\ Goes("arm")
  /\ UNCHANGED <<fn, k, status, retry, request, buffer, attempt, chipVars,
                 alone, use_interrupts, iser, irq_busy, size, saveints, isr>>

(* The threshold, the IRQ_DATA_t and the interrupt; the call returns.  The *)
(* command threshold stays at EMPTY for the calls to come.                 *)
Arm ==
  /\ At("arm")
  /\ tfr_cmd_fifo_thd' = IF fn = "transmit" THEN 0 ELSE tfr_cmd_fifo_thd
  /\ irq_busy' = IF fn = "transmit" THEN 1 ELSE 2
  /\ size' = request.rx
  /\ iser' = Awaited'
  /\ Goes("ask")
  /\ UNCHANGED <<core, ctrl_en, cmd, sent_7bit_addr, rw_cmd, fifoVars, isrVars,
                 bus, contentions, fn, k, status, retry, request, buffer,
                 attempt, chipVars, alone, use_interrupts, saveints, isr,
                 missed>>

-----------------------------------------------------------------------------
(* alt_avalon_i2c_interrupt_transaction_status, again and again. *)
Ask ==
  /\ At("ask")
  /\ saveints' = iser
  /\ Goes("mask")
  /\ UNCHANGED <<fn, k, status, retry, request, buffer, attempt, coreVars,
                 chipVars, alone, use_interrupts, iser, irq_busy, size, isr,
                 missed>>

Mask ==
  /\ At("mask")
  /\ iser' = iser \ saveints
  /\ Goes("look")
  /\ UNCHANGED <<fn, k, status, retry, request, buffer, attempt, coreVars,
                 chipVars, alone, use_interrupts, irq_busy, size, saveints,
                 isr, missed>>

(* Mutant: a BUSY answer leaves the interrupts off. *)
Answer_KeepsMasked ==
  /\ At("look")
  /\ status' = IF nack_det THEN "NACK_ERR" ELSE Success
  /\ Goes(IF irq_busy = 0 THEN "idle" ELSE IF nack_det THEN "abort" ELSE "ask")
  /\ UNCHANGED <<iser, fn, k, retry, request, buffer, attempt, coreVars,
                 chipVars, alone, use_interrupts, irq_busy, size, saveints,
                 isr, missed>>

Answer ==
  /\ At("look")
  /\ status' = IF nack_det THEN "NACK_ERR" ELSE Success
  /\ Goes(IF irq_busy = 0 THEN "idle" ELSE IF nack_det THEN "abort" ELSE "ask")
  /\ iser' = IF irq_busy # 0 /\ ~nack_det THEN iser \cup saveints ELSE iser
  /\ UNCHANGED <<fn, k, retry, request, buffer, attempt, coreVars, chipVars,
                 alone, use_interrupts, irq_busy, size, saveints, isr, missed>>

(* The refusal holds the receive FIFO empty, so there is nothing to drain. *)
Abort ==
  /\ At("abort")
  /\ \/ ~Busy /\ UNCHANGED status
     \/ Busy /\ Waiting /\ GiveUp
  /\ ClearEnable
  /\ irq_busy' = 0
  /\ Goes("idle")
  /\ UNCHANGED <<fn, k, retry, request, buffer, attempt, chipVars,
                 alone, use_interrupts, iser, size, saveints, isr, missed>>

Application == \/ Shared \/ PollingOnly \/ IrqCheckArbLost \/ IrqSettle \/ Finish
               \/ Quiet \/ Arm \/ Ask \/ Mask \/ Answer \/ Abort

-----------------------------------------------------------------------------
(* alt_irq_handler, alt_avalon_i2c_irq below it, and under that            *)
(* optional_irq_callback with the processor's interrupts disabled.         *)
IsrAt(step) == isr = step /\ ~LeavesPreIdle

Interrupt ==
  /\ isr = "off" /\ intr
  /\ isr' = "trap"
  /\ UNCHANGED <<vars, alone, use_interrupts, iser, irq_busy, size, saveints,
                 missed>>

(* The routine of the lowest pending line, which begins by disabling the   *)
(* interrupts of the IP; otherwise what is left to do.                     *)
PendingOr(otherwise) ==
  /\ isr' = IF intr THEN "clear" ELSE otherwise
  /\ iser' = IF intr THEN {} ELSE iser
  /\ UNCHANGED <<vars, alone, use_interrupts, irq_busy, size, saveints, missed>>

(* The search for a set bit has no end when no line is pending any more.   *)
Dispatch == IsrAt("trap") /\ PendingOr("endless")

(* The routine has returned: once more, or back to the application.        *)
Again == IsrAt("again") /\ PendingOr("off")

IsrClear ==
  /\ IsrAt("clear")
  /\ ClearAll
  /\ isr' = IF irq_busy = 2 THEN "read" ELSE "wait"
  /\ UNCHANGED <<chipVars, driverVars, alone, use_interrupts, iser, irq_busy,
                 size, saveints>>

IsrRead ==
  /\ IsrAt("read") /\ rxfifo # <<>>
  /\ buffer' = Append(buffer, RxData) /\ PopRxData
  /\ size' = size - 1
  /\ isr' = IF size' = 0 THEN "wait" ELSE "read"
  /\ UNCHANGED <<chipVars, pc, fn, k, status, retry, request, attempt,
                 alone, use_interrupts, iser, irq_busy, saveints, missed>>

(* More bytes are to come. *)
IsrMore ==
  /\ IsrAt("read") /\ rxfifo = <<>>
  /\ ClearAll
  /\ iser' = RxReady /\ isr' = "again"
  /\ UNCHANGED <<chipVars, driverVars, alone, use_interrupts, irq_busy, size,
                 saveints>>

(* Mutant: the last byte is not waited for. *)
IsrWait_AtOnce ==
  /\ IsrAt("wait")
  /\ isr' = "disable"
  /\ UNCHANGED <<vars, alone, use_interrupts, iser, irq_busy, size, saveints,
                 missed>>

IsrWait ==
  /\ IsrAt("wait") /\ (~Busy \/ Waiting)
  /\ isr' = "disable"
  /\ UNCHANGED <<vars, alone, use_interrupts, iser, irq_busy, size, saveints,
                 missed>>

IsrDisable ==
  /\ IsrAt("disable")
  /\ ClearEnable
  /\ irq_busy' = 0 /\ isr' = "again"
  /\ UNCHANGED <<chipVars, driverVars, alone, use_interrupts, iser, size,
                 saveints, missed>>

IsrStep == \/ Dispatch \/ IsrClear \/ IsrRead \/ IsrMore \/ IsrWait
           \/ IsrDisable \/ Again

-----------------------------------------------------------------------------
ApplicationStep == isr = "off" /\ Application

Bus ==
  /\ Machine \/ OtherMaster
  /\ IF alone THEN contentions' = contentions ELSE nacks' = nacks
  /\ UNCHANGED irqVars

BusMoves == Machine /\ Bus

IrqNext ==
  \/ PollingCall
  \/ IrqCall
  \/ ApplicationStep
  \/ Interrupt
  \/ IsrStep
  \/ Bus

IrqSpec == IrqInit /\ [][IrqNext]_allVars

(* As FairSpec; and an interrupt that is enabled again and again gets in:  *)
(* the processor takes it between two calls of the status function.        *)
FairIrqSpec ==
  /\ IrqSpec
  /\ WF_allVars(ApplicationStep) /\ WF_allVars(BusMoves)
  /\ WF_allVars(IsrStep) /\ SF_allVars(Interrupt)

-----------------------------------------------------------------------------
(* A call by interrupt that ends with success did what it says, whatever   *)
(* the status function and the callback did to each other                  *)
(* (altera_avalon_i2c.c:454-508 beside 47-86); only a refusal that was     *)
(* cleared unseen can make it a lie.                                       *)
InterruptSound ==
  pc = "idle" /\ use_interrupts /\ ~missed =>
    ReadSound /\ WriteSound /\ WithinBuffer

(* altera_avalon_i2c.h:1154-1163 says so without that exception: SUCCESS   *)
(* means done, and a byte the device did not acknowledge is an error.      *)
SuccessMeansDone ==
  pc = "idle" /\ use_interrupts => ReadSound /\ WriteSound

(* The interrupt a transaction waits for is enabled whenever the routine   *)
(* and the status function are not at work: their read-modify-writes of    *)
(* ISER never lose it (altera_avalon_i2c.c:995-1014).                      *)
StillAwaited ==
  irq_busy # 0 /\ isr = "off" /\ pc \notin {"look", "abort"} => iser = Awaited

(* Every call ends, by interrupt or not, whoever has the bus and whatever  *)
(* the chip refuses, unless the refusal was cleared unseen: then a read    *)
(* answers BUSY for ever.                                                  *)
CallsEnd == (pc # "idle") ~> (pc = "idle" \/ missed)

(* The processor takes an interrupt and finds it still pending when it     *)
(* looks which one it was: alt_irq_handler.c:182-185 takes for granted     *)
(* that its first look at the list is not zero.                            *)
StillPending == isr # "endless"
=============================================================================
