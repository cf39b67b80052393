-------------------------- MODULE AvalonI2cProofs --------------------------
(***************************************************************************)
(* Proofs about AvalonI2cInterrupt, for every chip, every depth of the     *)
(* FIFOs, every set of calls and any number of tries, refusals and losses  *)
(* of the bus: a call leaves the IP disabled, and a transaction by         *)
(* interrupt never loses the interrupt it waits for.  On a bus of one      *)
(* master, what a call by interrupt reports as done is done.               *)
(***************************************************************************)
EXTENDS AvalonI2cInterrupt, AvalonI2cDriverProofs, TLAPS

(* Where the status function is at work, and where an interrupt may meet   *)
(* it: it has every interrupt masked from its second step to its last.     *)
Asking == {"ask", "mask"}
Answering == {"look", "abort"}

(* The IP is disabled between calls, and where a transaction the interrupt *)
(* routine has ended waits to be reported.                                 *)
DisabledInv ==
  /\ Released
  /\ pc \in {"ask", "mask", "look"} /\ irq_busy = 0 => ~ctrl_en

(* What ISER holds and what the status function remembers of it.           *)
MaskInv ==
  /\ isr # "off" => pc \in Asking
  /\ pc \notin Asking \cup Answering => irq_busy = 0
  /\ pc \notin Asking \/ irq_busy = 0 \/ isr \in {"clear", "read", "wait", "disable"}
       => iser = {}
  /\ pc \in Asking /\ irq_busy # 0 /\ isr \in {"off", "trap", "again"}
       => iser = Awaited
  /\ pc \in {"mask", "look"} /\ irq_busy # 0 => saveints = Awaited
  /\ isr = "read" => irq_busy = 2

IrqInv == DisabledInv /\ MaskInv

(* The variables IrqInv is about. *)
maskVars == <<pc, ctrl_en, isr, iser, irq_busy, saveints>>

USE DEF Asking, Answering, DisabledInv, MaskInv, IrqInv, Released, Awaited,
        TxReady, RxReady

LEMMA Initially == IrqInit => IrqInv
  BY DEF IrqInit, Init, CoreInit, DriverInit

-----------------------------------------------------------------------------
(* The machine and the other master touch none of these variables. *)
LEMMA BusTouchesNone == Bus => UNCHANGED maskVars
<1> SUFFICES ASSUME Bus PROVE UNCHANGED maskVars
  OBVIOUS
<1>1. UNCHANGED irqVars
  BY DEF Bus
<1>2. UNCHANGED driverVars
  BY DEF Bus, Machine, OtherMaster
<1>3. CASE Machine
  <2>1. CoreStep(attempt)
    BY <1>3 DEF Machine
  <2>2. UNCHANGED ctrlVars
    BY <2>1 DEF CoreStep, Start, StartDone, Pop, RestartDone, AddressAcked,
       ByteAcked, Nacked, ByteReceived, ByteAnswered, Lose, Resume, StopDone,
       PreIdle
  <2> QED BY <1>1, <1>2, <2>2 DEF maskVars, irqVars, driverVars, ctrlVars
<1>4. CASE OtherMaster
  <2>1. UNCHANGED ctrlVars
    BY <1>4 DEF OtherMaster, Contend, Yield
  <2> QED BY <1>1, <1>2, <2>1 DEF maskVars, irqVars, driverVars, ctrlVars
<1> QED BY <1>3, <1>4 DEF Bus

(* A function that returns with the IP disabled may end the call or begin  *)
(* it again; with the IP enabled it goes on to the second half.            *)
LEMMA Returns ==
  ASSUME NEW st, Return(st)
  PROVE  /\ pc' \in {"idle", "enable", "write"}
         /\ st = Success /\ fn = "transmit" /\ request.rx > 0 => pc' = "write"
  BY DEF Return, Goes, Retried, Success

-----------------------------------------------------------------------------
(* A call begins, or one of its steps before the transaction is left to    *)
(* the interrupt routine. *)
LEMMA CallMasks ==
  ASSUME IrqInv, PollingCall \/ IrqCall
  PROVE  IrqInv'
  BY DEF PollingCall, IrqCall, Call, At, Goes, coreVars, ctrlVars

LEMMA EnableMasks ==
  ASSUME IrqInv, Shared, isr = "off", Enable
  PROVE  IrqInv'
<1>1. pc = "enable" /\ ~ctrl_en
  BY DEF Enable, At
<1>2. pc' = "clear" /\ irq_busy' = 0 /\ UNCHANGED <<iser, saveints, isr>>
  BY <1>1 DEF Enable, Goes, Shared, Clear, Write, CheckNack, At
<1> QED BY <1>1, <1>2

LEMMA SharedStep ==
  ASSUME IrqInv, Shared, isr = "off"
  PROVE  IrqInv'
<1>1. CASE Enable
  BY <1>1, EnableMasks
<1>2. CASE ~Enable
  <2>1. pc \in {"clear", "write", "nack"} /\ UNCHANGED irq_busy
    BY <1>2 DEF Shared, Clear, Write, CheckNack, At
  <2>2. pc' \in {"write", "nack", "settle", "arblost"}
    BY <1>2 DEF Shared, Clear, Write, CheckNack, Goes
  <2>3. UNCHANGED <<iser, saveints, isr>>
    BY DEF Shared
  <2> QED BY <2>1, <2>2, <2>3
<1> QED BY <1>1, <1>2

LEMMA PollingStep ==
  ASSUME IrqInv, PollingOnly, isr = "off"
  PROVE  IrqInv'
<1>1. UNCHANGED <<iser, saveints, isr, irq_busy>>
  BY DEF PollingOnly, irqVars
<1>2. pc \in {"arblost", "drain", "take", "collect", "fetch", "settle", "lastnack"}
  BY DEF PollingOnly, CheckArbLost, Drain, DrainTake, Collect, Fetch, Settle,
         CheckLastNack, At
<1>3. pc' \in {"settle", "drain", "write", "collect", "take", "fetch",
               "lastnack", "disable"}
  <2>1. CASE CheckArbLost
    BY <2>1, Returns DEF CheckArbLost, Goes, Success
  <2>2. CASE ~CheckArbLost
    BY <2>2 DEF PollingOnly, Drain, DrainTake, Collect, Fetch, Settle,
                CheckLastNack, ReadData, Goes
  <2> QED BY <2>1, <2>2
<1> QED BY <1>1, <1>2, <1>3

LEMMA SubmitStep ==
  ASSUME IrqInv, IrqCheckArbLost \/ IrqSettle \/ Quiet, isr = "off"
  PROVE  IrqInv'
<1>1. UNCHANGED <<iser, saveints, isr, irq_busy>>
  BY DEF IrqCheckArbLost, IrqSettle, Quiet, irqVars
<1>2. pc \in {"arblost", "settle", "quiet"}
  BY DEF IrqCheckArbLost, IrqSettle, Quiet, At
<1>3. pc' \in {"settle", "write", "quiet", "disable", "arm"}
  <2>1. CASE IrqCheckArbLost
    BY <2>1, Returns DEF IrqCheckArbLost, Goes, Success
  <2>2. CASE IrqSettle \/ Quiet
    BY <2>2 DEF IrqSettle, Quiet, Goes
  <2> QED BY <2>1, <2>2
<1> QED BY <1>1, <1>2, <1>3

LEMMA FinishStep ==
  ASSUME IrqInv, Finish, isr = "off"
  PROVE  IrqInv'
<1>1. pc = "disable" /\ ~ctrl_en' /\ Return(status)
  BY DEF Finish, Disable, At, ClearEnable
<1>2. pc' \in {"idle", "enable", "write"}
  BY <1>1, Returns
<1>3. UNCHANGED <<iser, saveints, isr, irq_busy>>
  BY DEF Finish, irqVars
<1> QED BY <1>1, <1>2, <1>3

LEMMA ArmStep ==
  ASSUME IrqInv, Arm, isr = "off"
  PROVE  IrqInv'
<1>1. pc' = "ask" /\ irq_busy' # 0 /\ iser' = Awaited' /\ isr' = "off"
  BY DEF Arm, Goes
<1> QED BY <1>1

-----------------------------------------------------------------------------
(* The status function. *)
LEMMA AskStep ==
  ASSUME IrqInv, Ask, isr = "off"
  PROVE  IrqInv'
<1>1. /\ pc = "ask" /\ pc' = "mask" /\ saveints' = iser
      /\ UNCHANGED <<iser, isr, irq_busy, ctrl_en>>
  BY DEF Ask, At, Goes, coreVars, ctrlVars
<1> QED BY <1>1

LEMMA MaskStep ==
  ASSUME IrqInv, Mask, isr = "off"
  PROVE  IrqInv'
<1>1. /\ pc = "mask" /\ pc' = "look" /\ iser' = iser \ saveints
      /\ UNCHANGED <<saveints, isr, irq_busy, ctrl_en>>
  BY DEF Mask, At, Goes, coreVars, ctrlVars
<1>2. iser' = {}
  BY <1>1
<1> QED BY <1>1, <1>2

LEMMA AnswerStep ==
  ASSUME IrqInv, Answer, isr = "off"
  PROVE  IrqInv'
<1>1. /\ pc = "look"
      /\ pc' = IF irq_busy = 0 THEN "idle"
               ELSE IF nack_det THEN "abort" ELSE "ask"
      /\ iser' = IF irq_busy # 0 /\ ~nack_det THEN iser \cup saveints ELSE iser
      /\ UNCHANGED <<saveints, isr, irq_busy, ctrl_en>>
  BY DEF Answer, At, Goes, coreVars, ctrlVars
<1>2. iser = {}
  BY <1>1
<1>3. CASE irq_busy = 0
  BY <1>1, <1>2, <1>3
<1>4. CASE irq_busy # 0 /\ nack_det
  BY <1>1, <1>2, <1>4
<1>5. CASE irq_busy # 0 /\ ~nack_det
  <2>1. iser' = saveints /\ saveints = Awaited
    BY <1>1, <1>2, <1>5
  <2> QED BY <1>1, <1>5, <2>1
<1> QED BY <1>3, <1>4, <1>5

LEMMA AbortStep ==
  ASSUME IrqInv, Abort, isr = "off"
  PROVE  IrqInv'
<1>1. /\ pc = "abort" /\ pc' = "idle" /\ ~ctrl_en' /\ irq_busy' = 0
      /\ UNCHANGED <<iser, isr>>
  BY DEF Abort, At, Goes, ClearEnable
<1> QED BY <1>1

-----------------------------------------------------------------------------
(* The interrupt routine. *)
LEMMA InterruptStep ==
  ASSUME IrqInv, Interrupt
  PROVE  IrqInv'
<1>1. iser # {} /\ isr = "off" /\ isr' = "trap"
  BY DEF Interrupt, intr
<1>2. UNCHANGED <<pc, iser, irq_busy, saveints, ctrl_en>>
  BY DEF Interrupt, vars, driverVars, coreVars, ctrlVars
<1> QED BY <1>1, <1>2

LEMMA PendingStep ==
  ASSUME IrqInv, Dispatch \/ Again
  PROVE  IrqInv'
<1>1. isr \in {"trap", "again"}
  BY DEF Dispatch, Again, IsrAt
<1>2. UNCHANGED <<pc, irq_busy, saveints, ctrl_en>>
  BY DEF Dispatch, Again, PendingOr, vars, driverVars, coreVars, ctrlVars
<1>3. \/ isr' = "clear" /\ iser' = {}
      \/ isr' \in {"endless", "off"} /\ iser' = iser
  BY DEF Dispatch, Again, PendingOr
<1> QED BY <1>1, <1>2, <1>3

LEMMA RoutineStep ==
  ASSUME IrqInv, IsrClear \/ IsrRead \/ IsrMore \/ IsrWait
  PROVE  IrqInv'
<1>1. UNCHANGED <<pc, irq_busy, saveints, ctrl_en>>
  BY DEF IsrClear, IsrRead, IsrMore, IsrWait, ClearAll, ClearIsr, PopRxData,
         vars, driverVars, coreVars, ctrlVars
<1>2. CASE IsrClear
  <2>1. /\ isr = "clear" /\ isr' = IF irq_busy = 2 THEN "read" ELSE "wait"
        /\ UNCHANGED iser
    BY <1>2 DEF IsrClear, IsrAt
  <2> QED BY <1>1, <2>1
<1>3. CASE IsrRead \/ IsrWait
  <2>1. /\ isr \in {"read", "wait"} /\ isr' \in {"wait", "read", "disable"}
        /\ isr' = "read" => isr = "read"
        /\ UNCHANGED iser
    BY <1>3 DEF IsrRead, IsrWait, IsrAt
  <2> QED BY <1>1, <2>1
<1>4. CASE IsrMore
  <2>1. isr = "read" /\ isr' = "again" /\ iser' = RxReady
    BY <1>4 DEF IsrMore, IsrAt
  <2> QED BY <1>1, <2>1
<1> QED BY <1>2, <1>3, <1>4

LEMMA IsrDisableStep ==
  ASSUME IrqInv, IsrDisable
  PROVE  IrqInv'
<1>1. /\ isr = "disable" /\ isr' = "again" /\ irq_busy' = 0 /\ ~ctrl_en'
      /\ UNCHANGED <<pc, iser, saveints>>
  BY DEF IsrDisable, IsrAt, ClearEnable, driverVars
<1> QED BY <1>1

-----------------------------------------------------------------------------
LEMMA IrqInvariant ==
  ASSUME IrqInv, [IrqNext]_allVars
  PROVE  IrqInv'
<1>1. CASE PollingCall \/ IrqCall
  BY <1>1, CallMasks
<1>2. CASE ApplicationStep
  BY <1>2, SharedStep, PollingStep, SubmitStep, FinishStep, ArmStep, AskStep,
     MaskStep, AnswerStep, AbortStep DEF ApplicationStep, Application
<1>3. CASE Interrupt
  BY <1>3, InterruptStep
<1>4. CASE IsrStep
  BY <1>4, PendingStep, RoutineStep, IsrDisableStep DEF IsrStep
<1>5. CASE Bus \/ UNCHANGED allVars
  <2>1. UNCHANGED maskVars
    BY <1>5, BusTouchesNone
    DEF allVars, vars, irqVars, driverVars, coreVars, ctrlVars, maskVars
  <2> QED BY <2>1 DEF maskVars
<1> QED BY <1>1, <1>2, <1>3, <1>4, <1>5 DEF IrqNext

(* Between calls the IP is disabled, whatever the call met and however it  *)
(* was made: alt_avalon_i2c_enable never answers BUSY to the next one      *)
(* (altera_avalon_i2c.c:216-221).                                          *)
THEOREM EveryCallReleases == IrqSpec => []Released
<1>1. IrqInv => Released
  OBVIOUS
<1> QED BY <1>1, Initially, IrqInvariant, PTL DEF IrqSpec

(* No interleaving of the status function with the interrupt routine loses *)
(* the interrupt a transaction waits for (altera_avalon_i2c.c:461-507      *)
(* beside 47-124).                                                         *)
THEOREM InterruptStaysAwaited == IrqSpec => []StillAwaited
<1>1. IrqInv => StillAwaited
  BY DEF StillAwaited
<1> QED BY <1>1, Initially, IrqInvariant, PTL DEF IrqSpec

HIDE DEF Asking, Answering, DisabledInv, MaskInv, IrqInv, Released, Awaited,
         TxReady, RxReady

-----------------------------------------------------------------------------
(* On a bus of its own a call by interrupt goes the way a polling call     *)
(* goes (SoundInv of AvalonI2cDriverProofs) until its last command is      *)
(* written.  Then the transaction is in flight, until the interrupt        *)
(* routine or the status function has the IP disabled.                     *)

(* It was refused and the bit that says so was cleared. *)
Unseen ==
  /\ missed /\ ~nack_det
  /\ txfifo = <<>> /\ rxfifo = <<>>
  /\ core \in {"GEN_STOP", "PRE_IDLE"}
  /\ core = "PRE_IDLE" => ~sent_7bit_addr

InFlight == ctrl_en /\ (Underway(Total) \/ Refusal \/ Unseen)

(* The routine has ended it and the application has not been told. *)
Landed ==
  /\ AtRest /\ Len(buffer) <= request.rx
  /\ nack_det \/ missed \/ Delivered

(* The application has. *)
Told ==
  /\ status \in {Success, "NACK_ERR"} /\ Len(buffer) <= request.rx
  /\ ReadSound /\ WriteSound

Submitting == {"enable", "clear", "write", "nack", "arblost", "drain", "take",
               "collect", "fetch", "settle", "lastnack", "disable"}
Transferring == {"ask", "mask", "look", "abort"}

SubmitInv ==
  pc \in Submitting =>
    /\ SoundInv /\ ~missed
    /\ use_interrupts =>
         /\ buffer = <<>>
         /\ pc = "nack" => status = Success
         /\ pc = "arblost" => status \in {Success, "NACK_ERR"}
         /\ pc = "settle" => status = "NACK_ERR"

ArmInv ==
  pc \in {"quiet", "arm"} =>
    /\ InFlight /\ buffer = <<>>
    /\ fn = IF request.rx > 0 THEN "receive" ELSE "transmit"

(* The routine disables the IP when it has stored every byte and the       *)
(* machine has stopped.                                                    *)
FlightInv ==
  pc \in Transferring =>
    /\ irq_busy = 0 => Landed /\ isr \in {"off", "again"} /\ pc # "abort"
    /\ irq_busy # 0 =>
         /\ InFlight
         /\ irq_busy = IF request.rx > 0 THEN 2 ELSE 1
         /\ size \in Nat /\ size + Len(buffer) = request.rx
         /\ IF isr \in {"wait", "disable"} THEN size = 0
                                           ELSE irq_busy = 2 => size > 0
         /\ isr = "disable" => core = "PRE_IDLE"
    /\ pc = "abort" => status = "NACK_ERR" /\ Refusal

AloneInv ==
  /\ CallTypeOK /\ Alone
  /\ pc \in Submitting \cup {"quiet", "arm"} \cup Transferring \cup {"idle"}
  /\ pc # "idle" => Fits(request)
  /\ pc = "idle" => AtRest /\ (missed \/ Told)
  /\ SubmitInv /\ ArmInv /\ FlightInv

(* The inductive invariant.  On a bus without another master a call by     *)
(* interrupt is at rest, being submitted, in flight, or over and not yet   *)
(* reported, and the routine, the callback and the status function stand   *)
(* where that stage has them (altera_avalon_i2c.c:454-508 beside 47-86);   *)
(* calls by interrupt are made on such a bus only.                         *)
OwnBusInv ==
  /\ alone => AloneInv
  /\ use_interrupts => alone

-----------------------------------------------------------------------------
(* What an access that leaves the IP and the bytes alone does not change.  *)
LEMMA Steady ==
  ASSUME CallTypeOK, Alone, UNCHANGED <<coreVars, chipVars>>,
         UNCHANGED <<fn, retry, request, buffer, attempt>>, missed' <=> missed
  PROVE  /\ CallTypeOK' /\ Alone' /\ core' = core /\ (nack_det' <=> nack_det)
         /\ Fits(request) => Fits(request)'
         /\ InFlight => InFlight'
         /\ Refusal => Refusal'
         /\ AtRest => AtRest'
         /\ Landed => Landed'
<1>1. /\ core' = core /\ txfifo' = txfifo /\ rxfifo' = rxfifo /\ written' = written
      /\ nack_det' = nack_det /\ ctrl_en' = ctrl_en
      /\ sent_7bit_addr' = sent_7bit_addr
  BY Zenon DEF coreVars, chipVars, ctrlVars, isrVars, fifoVars
<1>2. retry' \in 0 .. Tries - 1 /\ fn' \in {"transmit", "receive"}
  BY DEF CallTypeOK
<1>3. /\ \A w : Underway(w) => Underway(w)'
      /\ Refusal => Refusal'
      /\ AtRest => AtRest'
      /\ CallTypeOK' /\ Alone'
      /\ Total' = Total
      /\ Fits(request) => Fits(request)'
  BY <1>2, Kept
<1>4. Unseen => Unseen'
  BY <1>1, Zenon DEF Unseen
<1>5. ctrl_en' <=> ctrl_en
  BY <1>1, Zenon
<1>6. InFlight => InFlight'
  BY <1>3, <1>4, <1>5 DEF InFlight
<1>7. Delivered => Delivered'
  BY <1>1 DEF Delivered, SampleOf, From
<1>8. nack_det' <=> nack_det
  BY <1>1, Zenon
<1>9. Landed => Landed'
  BY <1>3, <1>7, <1>8 DEF Landed
<1> QED BY <1>1, <1>3, <1>6, <1>8, <1>9

(* A step of the machine under a transaction in flight.                    *)
LEMMA FlightGoesOn ==
  ASSUME CallTypeOK, Alone, Fits(request), InFlight, CoreStep(attempt),
         UNCHANGED driverVars, UNCHANGED contentions, missed' <=> missed
  PROVE  /\ CallTypeOK' /\ Alone' /\ InFlight' /\ core # "PRE_IDLE"
         /\ Refusal => Refusal'
<1>1. core = "POP_TX_FIFO" => txfifo # <<>>
  BY DEF InFlight, Underway, Clean, Refusal, Unseen
<1>2. CallTypeOK' /\ Alone' /\ (ctrl_en' = ctrl_en) /\ ctrl_en
  BY <1>1, MachineAlone DEF InFlight
<1>3. Total' = Total
  BY SameRequest DEF driverVars
<1>4. CASE Underway(Total)
  <2>1. PICK w \in Nat : w = Total /\ Underway(w)
    BY <1>4, LightSizes
  <2>2. \/ Underway(w)' /\ core # "PRE_IDLE"
        \/ Refusal' /\ core # "PRE_IDLE"
    BY <1>2, <2>1, MachineUnderway
  <2>3. ~Refusal
    BY <1>4, UnderwayFacts DEF Refusal
  <2> QED BY <1>2, <1>3, <2>1, <2>2, <2>3 DEF InFlight
<1>5. CASE Refusal
  BY <1>2, <1>5, MachineRefused DEF InFlight
<1>6. CASE Unseen
  <2>1. StopDone
    BY <1>2, <1>6 DEF Unseen, CoreStep, Start, StartDone, Pop, RestartDone,
       AddressAcked, ByteAcked, Nacked, ByteReceived, ByteAnswered, Lose, Resume,
       PreIdle, LeavesPreIdle
  <2>2. ~nack_det'
    <3>1. nack_det' = nack_det
      BY <2>1, Zenon DEF StopDone, isrVars
    <3> QED BY <1>6, <3>1, Zenon DEF Unseen
  <2>3. Unseen'
    BY <1>6, <2>1, <2>2 DEF StopDone, Unseen, Goto, fifoVars
  <2>4. core # "PRE_IDLE" /\ ~Refusal
    BY <1>6, <2>1 DEF StopDone, Unseen, Refusal
  <2> QED BY <1>2, <2>3, <2>4 DEF InFlight
<1> QED BY <1>4, <1>5, <1>6 DEF InFlight

(* Clearing the ISR changes nothing unless there was a refusal in it.      *)
LEMMA Cleared ==
  ASSUME CallTypeOK, Alone, InFlight, Fits(request), ClearAll,
         UNCHANGED <<fn, retry, request, buffer, attempt, chipVars>>
  PROVE  CallTypeOK' /\ Alone' /\ InFlight' /\ core' = core
<1>1. /\ UNCHANGED <<core, cmd, txfifo, rxfifo, bus, contentions, tfr_cmd_fifo_thd>>
      /\ ctrl_en' = ctrl_en /\ sent_7bit_addr' = sent_7bit_addr
      /\ rw_cmd' = rw_cmd /\ ~nack_det' /\ ~arblost_det'
      /\ nack_det' = FALSE /\ arblost_det' = FALSE
      /\ missed' = (missed \/ nack_det)
  BY Zenon DEF ClearAll, ClearIsr, ctrlVars, fifoVars
<1>2. CallTypeOK'
  BY <1>1 DEF CallTypeOK, chipVars
<1>3. Alone'
  BY <1>1, Zenon DEF Alone
<1>4. Total' = Total
  BY SameRequest
<1>5. ctrl_en'
  BY <1>1, Zenon DEF InFlight
<1>6. CASE Underway(Total)
  <2>1. ~nack_det
    BY <1>6, UnderwayFacts
  <2>2. nack_det' = nack_det
    BY <1>1, <2>1 DEF CallTypeOK
  <2>3. PICK w \in Nat : w = Total /\ Underway(w)
    BY <1>6, LightSizes
  <2>4. Underway(w)'
    BY <1>1, <2>2, <2>3, Untouched DEF chipVars
  <2> QED BY <1>1, <1>2, <1>3, <1>4, <1>5, <2>3, <2>4 DEF InFlight
<1>7. CASE Refusal \/ Unseen
  <2>1. missed' <=> missed \/ nack_det
    BY <1>1, Zenon
  <2>2. Unseen'
    <3>1. ~sent_7bit_addr => ~sent_7bit_addr'
      BY <1>1, Zenon
    <3> QED BY <1>1, <1>7, <2>1, <3>1 DEF Refusal, Unseen
  <2> QED BY <1>1, <1>2, <1>3, <1>5, <2>2 DEF InFlight
<1> QED BY <1>6, <1>7 DEF InFlight

(* The machine at the end of a transaction in flight: it has stopped when  *)
(* the routine or the status function has waited for it.                   *)
LEMMA FlightEnds ==
  ASSUME CallTypeOK, Alone, Fits(request), InFlight, ~Busy \/ Waiting
  PROVE  core = "PRE_IDLE"
<1>1. CASE Underway(Total)
  <2>1. /\ ~nack_det /\ core # "IDLE"
        /\ core \in {"PRE_START", "BUS_HOLD"} => txfifo # <<>>
    BY <1>1, UnderwayFacts
  <2>2. ~flush_txfifo /\ (core = "PRE_START" => bus = "idle")
    BY <2>1 DEF Alone, flush_txfifo, OnBus
  <2> QED BY <2>1, <2>2 DEF Busy, Waiting
<1>2. CASE Refusal \/ Unseen
  BY <1>2 DEF Refusal, Unseen, Busy, Waiting
<1> QED BY <1>1, <1>2 DEF InFlight

(* Disabling the IP then leaves it at rest.                                *)
LEMMA FlightLands ==
  ASSUME CallTypeOK, Alone, Fits(request), InFlight, core = "PRE_IDLE",
         Refusal \/ Len(buffer) = request.rx,
         ClearEnable, UNCHANGED <<fn, retry, request, buffer, attempt, chipVars>>,
         missed' <=> missed
  PROVE  /\ CallTypeOK' /\ Alone' /\ AtRest'
         /\ Len(buffer) = request.rx => Landed'
<1>1. /\ UNCHANGED <<core, cmd, txfifo, rxfifo, bus, contentions, tfr_cmd_fifo_thd>>
      /\ ~ctrl_en' /\ ctrl_en' = FALSE /\ sent_7bit_addr' = sent_7bit_addr
      /\ rw_cmd' = rw_cmd /\ nack_det' = nack_det /\ arblost_det' = arblost_det
  BY Zenon DEF ClearEnable, fifoVars, isrVars
<1>2. CallTypeOK'
  BY <1>1 DEF CallTypeOK, chipVars
<1>3. Alone'
  BY <1>1, Zenon DEF Alone
<1>4. txfifo = <<>> /\ rxfifo = <<>> /\ ~sent_7bit_addr
  <2>1. CASE Underway(Total)
    <3>1. txfifo = <<>> /\ ~sent_7bit_addr
          /\ Len(buffer) + Len(rxfifo) = request.rx
      BY <2>1, UnderwayFacts
    <3>2. Len(buffer) = request.rx
      BY <2>1, UnderwayFacts DEF Refusal
    <3>3. /\ Len(rxfifo) \in Nat /\ (Len(rxfifo) = 0 => rxfifo = <<>>)
          /\ Len(buffer) \in Nat
      BY DEF CallTypeOK
    <3> QED BY <3>1, <3>2, <3>3
  <2>2. CASE Refusal \/ Unseen
    BY <2>2 DEF Refusal, Unseen
  <2> QED BY <2>1, <2>2 DEF InFlight
<1>5. AtRest'
  BY <1>1, <1>4 DEF AtRest
<1>6. ASSUME Len(buffer) = request.rx PROVE nack_det' \/ missed' \/ Delivered'
  <2>1. CASE Underway(Total)
    <3>1. Delivered
      BY <1>6, <2>1, AllDelivered
    <3>2. Delivered'
      BY <3>1 DEF Delivered, SampleOf, From, chipVars
    <3> QED BY <3>2
  <2>2. CASE Refusal \/ Unseen
    <3>1. nack_det' <=> nack_det
      BY <1>1, Zenon
    <3> QED BY <2>2, <3>1 DEF Refusal, Unseen
  <2> QED BY <2>1, <2>2 DEF InFlight
<1>7. Len(buffer) = request.rx => Len(buffer') <= request'.rx
  BY LightSizes
<1> QED BY <1>2, <1>3, <1>5, <1>6, <1>7 DEF Landed

-----------------------------------------------------------------------------
(* The steps of a call until its transaction is left to the routine.       *)
LEMMA Submits ==
  ASSUME SoundInv', pc' \in Submitting, ~missed',
         use_interrupts' =>
           /\ buffer' = <<>>
           /\ pc' = "nack" => status' = Success
           /\ pc' = "arblost" => status' \in {Success, "NACK_ERR"}
           /\ pc' = "settle" => status' = "NACK_ERR"
  PROVE  AloneInv'
<1>1. pc' # "idle" /\ pc' \notin {"quiet", "arm"} /\ pc' \notin Transferring
  BY DEF Submitting, Transferring
<1>2. CallTypeOK' /\ Alone' /\ Fits(request)'
  BY <1>1 DEF SoundInv, PlaceInv
<1> QED BY <1>1, <1>2 DEF AloneInv, SubmitInv, ArmInv, FlightInv

LEMMA OwnCall ==
  ASSUME AloneInv, PollingCall \/ IrqCall,
         \A r \in Requests \cup IrqRequests : Fits(r)
  PROVE  AloneInv'
<1>1. PICK r : Fits(r) /\ Call(r)
  BY DEF PollingCall, IrqCall
<1>2. pc = "idle" /\ pc' = "enable" /\ buffer' = <<>>
  BY <1>1 DEF Call, At, Goes
<1>3. ~missed'
  BY Zenon DEF PollingCall, IrqCall
<1>4. SoundInv'
  BY <1>1, <1>2, CallBegins DEF AloneInv
<1> QED BY <1>2, <1>3, <1>4, Submits DEF Submitting

LEMMA OwnShared ==
  ASSUME AloneInv, Shared
  PROVE  AloneInv'
<1>1. pc \in {"enable", "clear", "write", "nack"}
  BY DEF Shared, Enable, Clear, Write, CheckNack, At
<1>2. /\ SoundInv /\ ~missed
      /\ use_interrupts => buffer = <<>> /\ (pc = "nack" => status = Success)
  BY <1>1 DEF AloneInv, SubmitInv, Submitting
<1>3. (missed' <=> missed) /\ (use_interrupts' <=> use_interrupts)
  BY Zenon DEF Shared
<1>4. CASE Enable
  <2>1. SoundInv'
    BY <1>2, <1>4, EnableStep
  <2>2. pc = "enable" /\ ~ctrl_en
    BY <1>2, <1>4 DEF Enable, At, SoundInv, IpInv, Idle, AtRest
  <2>3. pc' = "clear" /\ buffer' = buffer
    BY <1>4, <2>2 DEF Enable, Goes
  <2> QED BY <1>2, <1>3, <2>1, <2>3, Submits DEF Submitting
<1>5. CASE Clear
  <2>1. SoundInv' /\ pc' = "write" /\ buffer' = buffer
    BY <1>2, <1>5, ClearStep DEF Clear, Goes
  <2> QED BY <1>2, <1>3, <2>1, Submits DEF Submitting
<1>6. CASE Write
  <2>1. SoundInv'
    BY <1>2, <1>6, WriteStep
  <2>2. tx_ready
    BY <1>2, <1>6, RoomComes DEF Write, At
  <2>3. pc' = "nack" /\ status' = Success /\ buffer' = buffer
    BY <1>6, <2>2 DEF Write, Goes
  <2> QED BY <1>2, <1>3, <2>1, <2>3, Submits DEF Submitting
<1>7. CASE CheckNack
  <2>1. SoundInv'
    BY <1>2, <1>7, CheckNackStep
  <2>2. /\ pc = "nack" /\ pc' = "arblost" /\ buffer' = buffer
        /\ status' \in {status, "NACK_ERR"}
    BY <1>7 DEF CheckNack, At, Goes
  <2> QED BY <1>2, <1>3, <2>1, <2>2, Submits DEF Submitting
<1> QED BY <1>4, <1>5, <1>6, <1>7 DEF Shared

LEMMA OwnPolling ==
  ASSUME AloneInv, PollingOnly
  PROVE  AloneInv'
<1>1. pc \in {"arblost", "drain", "take", "collect", "fetch", "settle", "lastnack"}
  BY DEF PollingOnly, CheckArbLost, Drain, DrainTake, Collect, Fetch, Settle,
         CheckLastNack, At
<1>2. SoundInv /\ ~missed
  BY <1>1 DEF AloneInv, SubmitInv, Submitting
<1>3. ~use_interrupts' /\ ~missed'
  BY <1>2, Zenon DEF PollingOnly, irqVars
<1>4. SoundInv'
  BY <1>2, CheckArbLostStep, DrainStep, DrainTakeStep, CollectStep, FetchStep,
     SettleStep, CheckLastNackStep DEF PollingOnly
<1>5. pc' \in Submitting
  <2>1. CASE CheckArbLost
    BY <2>1, Returns DEF CheckArbLost, Goes, Success, Submitting
  <2>2. CASE ~CheckArbLost
    BY <2>2 DEF PollingOnly, Drain, DrainTake, Collect, Fetch, Settle,
                CheckLastNack, ReadData, Goes, Submitting
  <2> QED BY <2>1, <2>2
<1> QED BY <1>3, <1>4, <1>5, Submits

LEMMA OwnCheckArbLost ==
  ASSUME AloneInv, IrqCheckArbLost
  PROVE  AloneInv'
<1>1. /\ pc = "arblost" /\ use_interrupts
      /\ UNCHANGED <<coreVars, chipVars>> /\ attempt' = attempt
  BY DEF IrqCheckArbLost, At
<1>2. /\ SoundInv /\ ~missed /\ buffer = <<>>
      /\ status \in {Success, "NACK_ERR"}
  BY <1>1 DEF AloneInv, SubmitInv, Submitting
<1>3. ~missed' /\ (missed' <=> missed)
  BY <1>2, Zenon DEF IrqCheckArbLost, irqVars
<1>4. /\ fn \in {"transmit", "receive"} /\ Len(Commands) = Length
      /\ k \in Nat /\ k >= 1 /\ k <= Length /\ Base \in Nat
      /\ fn = "transmit" => Length = Sends /\ Base = 0
      /\ fn = "receive" => Length = Asks /\ Base = Sends
      /\ Written = Base + k /\ Fits(request) /\ ctrl_en
      /\ Refusal \/ OnCourse
      /\ CallTypeOK /\ Alone
  BY <1>1, <1>2, Course DEF Idle
<1>5. ~arblost_det
  BY <1>4 DEF Alone
<1>6. request' = request /\ buffer' = buffer /\ retry' = retry
  BY <1>5, Zenon DEF IrqCheckArbLost, Return, Retried, Success
<1>7. CASE pc' # "quiet"
  <2>1. Continues
    BY <1>1, <1>4, <1>5, <1>7 DEF IrqCheckArbLost, Goes, Last, Return, Retried,
       Success, Continues
  <2>2. SoundInv'
    BY <1>1, <1>2, <1>6, <2>1, NextCommand
  <2>3. pc' \in {"settle", "write"} /\ (pc' = "settle" => status' = "NACK_ERR")
    BY <1>2, <1>5, <1>7 DEF IrqCheckArbLost, Goes, Return, Retried, Success
  <2> QED BY <1>2, <1>3, <1>6, <2>2, <2>3, Submits DEF Submitting
<1>8. CASE pc' = "quiet"
  <2>1. /\ status = Success /\ k = Len(Commands) /\ fn' = fn
        /\ fn = "receive" \/ request.rx = 0
    BY <1>5, <1>8 DEF IrqCheckArbLost, Goes, Last, Return, Retried, Success
  <2>2. /\ Sends \in Nat /\ Asks \in Nat /\ Total = Sends + Asks
        /\ request.rx = 0 <=> Asks = 0
        /\ request.rx \in Nat
    BY <1>4, LightSizes
  <2>3. Written = Total /\ fn = IF request.rx > 0 THEN "receive" ELSE "transmit"
    BY <1>4, <2>1, <2>2
  <2>4. InFlight
    BY <1>4, <2>3 DEF InFlight, OnCourse
  <2>5. CallTypeOK' /\ Alone' /\ Fits(request)' /\ InFlight'
    BY <1>1, <1>3, <1>4, <1>6, <2>1, <2>4, Steady
  <2>6. ArmInv'
    BY <1>2, <1>6, <2>1, <2>3, <2>5 DEF ArmInv
  <2> QED BY <1>8, <2>5, <2>6 DEF AloneInv, SubmitInv, FlightInv, Submitting,
          Transferring
<1> QED BY <1>7, <1>8

LEMMA OwnSettle ==
  ASSUME AloneInv, IrqSettle
  PROVE  AloneInv'
<1>1. /\ pc = "settle" /\ pc' = "disable" /\ UNCHANGED <<coreVars, chipVars>>
      /\ UNCHANGED <<fn, k, request, buffer, attempt>> /\ retry' = retry
      /\ use_interrupts /\ ~LeavesPreIdle
      /\ \/ ~Busy /\ status' = status
         \/ Busy /\ Waiting
  BY DEF IrqSettle, At, Goes
<1>2. SoundInv /\ ~missed /\ buffer = <<>> /\ status = "NACK_ERR"
  BY <1>1 DEF AloneInv, SubmitInv, Submitting
<1>3. ~missed'
  BY <1>2, Zenon DEF IrqSettle, irqVars
<1>4. nack_det /\ Refusal
  <2>1. nack_det
    BY <1>1, <1>2 DEF SoundInv, StatusInv, Before, Success
  <2> QED BY <1>1, <1>2, <2>1, Course DEF Idle
<1>5. core = "PRE_IDLE" /\ status' = "NACK_ERR"
  BY <1>1, <1>2, <1>4 DEF Refusal, Busy, Waiting
<1>6. Written' = Written /\ Length' = Length
  BY <1>1, SameRequest DEF Written, Base, Length
<1>7. fn' \in {"transmit", "receive"}
  BY <1>1, <1>2 DEF SoundInv, CallTypeOK
<1>8. /\ CallTypeOK' /\ Alone' /\ IpInv' /\ CountInv'
      /\ Fits(request)' /\ core' = core /\ nack_det' = nack_det
  BY <1>1, <1>2, <1>6, <1>7, Still DEF Idle
<1>9. PlaceInv'
  BY <1>1, <1>2, <1>6, <1>8 DEF SoundInv, PlaceInv
<1>10. StatusInv'
  BY <1>1, <1>2, <1>4, <1>5, <1>8 DEF StatusInv, Before, Idle
<1>11. SoundInv'
  BY <1>8, <1>9, <1>10 DEF SoundInv
<1> QED BY <1>1, <1>2, <1>3, <1>11, Submits DEF Submitting

LEMMA OwnFinish ==
  ASSUME AloneInv, Finish
  PROVE  AloneInv'
<1>1. pc = "disable" /\ Disable
  BY DEF Finish, Disable, At
<1>2. SoundInv /\ ~missed
  BY <1>1 DEF AloneInv, SubmitInv, Submitting
<1>3. SoundInv' /\ pc' \in {"idle", "enable"}
  BY <1>1, <1>2, DisableStep DEF Idle
<1>4. ~missed'
  BY <1>2, Zenon DEF Finish, irqVars
<1>5. CASE pc' = "enable"
  <2>1. buffer' = <<>>
    BY <1>3, <1>5 DEF SoundInv, PlaceInv
  <2> QED BY <1>3, <1>4, <1>5, <2>1, Submits DEF Submitting
<1>6. CASE pc' = "idle"
  <2>1. AtRest' /\ Told' /\ CallTypeOK' /\ Alone'
    BY <1>3, <1>6 DEF SoundInv, IpInv, StatusInv, Idle, Told
  <2> QED BY <1>6, <2>1 DEF AloneInv, SubmitInv, ArmInv, FlightInv, Submitting,
          Transferring
<1> QED BY <1>3, <1>5, <1>6

(* The transaction is left to the routine. *)
LEMMA OwnQuiet ==
  ASSUME AloneInv, Quiet
  PROVE  AloneInv'
<1>1. /\ pc = "quiet" /\ pc' = "arm" /\ ClearAll
      /\ UNCHANGED <<fn, k, retry, request, buffer, attempt, chipVars>>
  BY DEF Quiet, At, Goes
<1>2. /\ CallTypeOK /\ Alone /\ Fits(request) /\ InFlight /\ buffer = <<>>
      /\ fn = IF request.rx > 0 THEN "receive" ELSE "transmit"
  BY <1>1 DEF AloneInv, ArmInv
<1>3. CallTypeOK' /\ Alone' /\ InFlight'
  BY <1>1, <1>2, Cleared
<1>4. Fits(request)'
  BY <1>1, <1>2, SameRequest
<1>5. ArmInv'
  BY <1>1, <1>2, <1>3 DEF ArmInv
<1> QED BY <1>1, <1>3, <1>4, <1>5 DEF AloneInv, SubmitInv, FlightInv, Submitting,
        Transferring

LEMMA OwnArm ==
  ASSUME AloneInv, Arm, isr = "off"
  PROVE  AloneInv'
<1>1. /\ pc = "arm" /\ pc' = "ask" /\ isr' = isr
      /\ UNCHANGED <<fn, k, retry, request, buffer, attempt>>
      /\ UNCHANGED <<pointer, pointing, written, nacks, core, cmd, txfifo, rxfifo,
                     bus, contentions>>
      /\ ctrl_en' = ctrl_en /\ sent_7bit_addr' = sent_7bit_addr
      /\ rw_cmd' = rw_cmd /\ nack_det' = nack_det /\ arblost_det' = arblost_det
      /\ missed' = missed
  BY Zenon DEF Arm, At, Goes, chipVars, fifoVars, isrVars
<1>2. /\ irq_busy' = IF fn = "transmit" THEN 1 ELSE 2
      /\ size' = request.rx
      /\ tfr_cmd_fifo_thd' \in {0, tfr_cmd_fifo_thd}
  BY DEF Arm
<1>3. /\ CallTypeOK /\ Alone /\ Fits(request) /\ InFlight /\ buffer = <<>>
      /\ fn = IF request.rx > 0 THEN "receive" ELSE "transmit"
  BY <1>1 DEF AloneInv, ArmInv
<1>4. CallTypeOK'
  <2>1. tfr_cmd_fifo_thd' \in 0 .. Depth - 1
    BY <1>2, <1>3, CoreAssumption DEF CallTypeOK
  <2> QED BY <1>1, <1>3, <2>1 DEF CallTypeOK
<1>5. Alone'
  BY <1>1, <1>3, Zenon DEF Alone
<1>6. Fits(request)' /\ Total' = Total
  BY <1>1, <1>3, SameRequest
<1>7. InFlight'
  <2>1. /\ \A w : Underway(w) => Underway(w)'
        /\ Refusal => Refusal'
    BY <1>1, Untouched
  <2>2. Unseen => Unseen'
    BY <1>1, Zenon DEF Unseen
  <2>3. ctrl_en' <=> ctrl_en
    BY <1>1, Zenon
  <2> QED BY <1>3, <1>6, <2>1, <2>2, <2>3 DEF InFlight
<1>8. FlightInv'
  <2>1. request.rx \in Nat /\ Len(buffer) = 0
    BY <1>3, LightSizes
  <2>2. irq_busy' = IF request.rx > 0 THEN 2 ELSE 1
    BY <1>2, <1>3
  <2> QED BY <1>1, <1>2, <1>3, <1>7, <2>1, <2>2 DEF FlightInv
<1> QED BY <1>1, <1>4, <1>5, <1>6, <1>8 DEF AloneInv, SubmitInv, ArmInv, Submitting,
        Transferring

-----------------------------------------------------------------------------
(* The status function. *)
LEMMA OwnAsk ==
  ASSUME AloneInv, Ask \/ Mask
  PROVE  AloneInv'
<1>1. /\ pc \in {"ask", "mask"} /\ pc' \in {"mask", "look"}
      /\ UNCHANGED <<coreVars, chipVars>>
      /\ UNCHANGED <<fn, retry, request, buffer, attempt>>
      /\ UNCHANGED <<irq_busy, size, isr>>
  BY DEF Ask, Mask, At, Goes
<1>2. missed' <=> missed
  <2>1. CASE Ask
    BY <2>1, Zenon DEF Ask
  <2>2. CASE Mask
    BY <2>2, Zenon DEF Mask
  <2> QED BY <2>1, <2>2
<1>3. CallTypeOK /\ Alone /\ Fits(request) /\ FlightInv
  BY <1>1 DEF AloneInv
<1>4. /\ CallTypeOK' /\ Alone' /\ core' = core /\ Fits(request)'
      /\ InFlight => InFlight'
      /\ Landed => Landed'
  BY <1>1, <1>2, <1>3, Steady
<1>5. FlightInv'
  BY <1>1, <1>3, <1>4 DEF FlightInv, Transferring
<1> QED BY <1>1, <1>4, <1>5 DEF AloneInv, SubmitInv, ArmInv, Submitting,
        Transferring

LEMMA OwnAnswer ==
  ASSUME AloneInv, Answer
  PROVE  AloneInv'
<1>1. /\ pc = "look" /\ UNCHANGED <<coreVars, chipVars>>
      /\ pc' = IF irq_busy = 0 THEN "idle"
               ELSE IF nack_det THEN "abort" ELSE "ask"
      /\ status' = IF nack_det THEN "NACK_ERR" ELSE Success
      /\ UNCHANGED <<fn, retry, request, buffer, attempt>>
      /\ UNCHANGED <<irq_busy, size, isr>>
  BY DEF Answer, At, Goes
<1>2. missed' <=> missed
  BY Zenon DEF Answer
<1>3. CallTypeOK /\ Alone /\ Fits(request) /\ FlightInv
  BY <1>1 DEF AloneInv
<1>4. /\ CallTypeOK' /\ Alone' /\ core' = core /\ Fits(request)'
      /\ InFlight => InFlight'
      /\ Refusal => Refusal'
      /\ AtRest => AtRest'
  BY <1>1, <1>2, <1>3, Steady
<1>5. CASE irq_busy = 0
  <2>1. pc' = "idle" /\ Landed
    BY <1>1, <1>3, <1>5 DEF FlightInv, Transferring
  <2>2. missed' \/ Told'
    <3>1. CASE nack_det
      BY <1>1, <2>1, <3>1 DEF Landed, Told, ReadSound, WriteSound, Success
    <3>2. CASE ~nack_det /\ Delivered
      <4>1. written' = written
        BY <1>1 DEF chipVars
      <4>2. ReadSound' /\ WriteSound'
        BY <1>1, <1>3, <3>2, <4>1, DeliveredSound
      <4> QED BY <1>1, <2>1, <3>2, <4>2 DEF Landed, Told
    <3>3. CASE missed
      BY <1>2, <3>3
    <3> QED BY <2>1, <3>1, <3>2, <3>3 DEF Landed
  <2>3. AtRest'
    BY <1>4, <2>1 DEF Landed
  <2> QED BY <1>4, <2>1, <2>2, <2>3 DEF AloneInv, SubmitInv, ArmInv, FlightInv,
          Submitting, Transferring
<1>6. CASE irq_busy # 0
  <2>1. /\ InFlight /\ irq_busy = IF request.rx > 0 THEN 2 ELSE 1
        /\ size \in Nat /\ size + Len(buffer) = request.rx
        /\ IF isr \in {"wait", "disable"} THEN size = 0
                                          ELSE irq_busy = 2 => size > 0
        /\ isr = "disable" => core = "PRE_IDLE"
    BY <1>1, <1>3, <1>6 DEF FlightInv, Transferring
  <2>2. pc' = IF nack_det THEN "abort" ELSE "ask"
    BY <1>1, <1>6
  <2>3. pc' = "abort" => status' = "NACK_ERR" /\ Refusal'
    <3>1. nack_det => Refusal
      BY <1>3, <2>1, UnderwayFacts DEF InFlight, Unseen
    <3> QED BY <1>1, <1>4, <2>2, <3>1
  <2>4. FlightInv'
    BY <1>1, <1>4, <1>6, <2>1, <2>3 DEF FlightInv
  <2> QED BY <1>4, <2>2, <2>4 DEF AloneInv, SubmitInv, ArmInv, Submitting,
          Transferring
<1> QED BY <1>5, <1>6

LEMMA OwnAbort ==
  ASSUME AloneInv, Abort
  PROVE  AloneInv'
<1>1. /\ pc = "abort" /\ pc' = "idle" /\ ClearEnable
      /\ \/ ~Busy /\ status' = status
         \/ Busy /\ Waiting
      /\ UNCHANGED <<fn, retry, request, buffer, attempt, chipVars>>
  BY DEF Abort, At, Goes
<1>2. missed' <=> missed
  BY Zenon DEF Abort
<1>3. /\ CallTypeOK /\ Alone /\ Fits(request) /\ InFlight /\ Refusal
      /\ status = "NACK_ERR" /\ size \in Nat /\ size + Len(buffer) = request.rx
  BY <1>1 DEF AloneInv, FlightInv, Transferring
<1>4. core = "PRE_IDLE" /\ status' = "NACK_ERR"
  BY <1>1, <1>3 DEF Refusal, Busy, Waiting
<1>5. CallTypeOK' /\ Alone' /\ AtRest'
  BY <1>1, <1>2, <1>3, <1>4, FlightLands
<1>6. Len(buffer) <= request.rx
  <2>1. Len(buffer) \in Nat /\ request.rx \in Nat
    BY <1>3, LightSizes DEF CallTypeOK
  <2> QED BY <1>3, <2>1
<1>7. Told'
  BY <1>1, <1>4, <1>6 DEF Told, ReadSound, WriteSound, Success
<1> QED BY <1>1, <1>5, <1>7 DEF AloneInv, SubmitInv, ArmInv, FlightInv, Submitting,
        Transferring

-----------------------------------------------------------------------------
(* The routine works under the status function alone, and on a transaction *)
(* in flight: where the interrupts are off none comes.                     *)
LEMMA RoutinePlace ==
  ASSUME IrqInv, AloneInv
  PROVE  /\ isr # "off" => pc \in {"ask", "mask"}
         /\ intr => pc \in {"ask", "mask"} /\ irq_busy # 0
         /\ isr = "read" => irq_busy = 2
<1>1. iser = {} => ~intr
  BY DEF intr, TxReady, RxReady
<1> QED BY <1>1 DEF IrqInv, MaskInv, Asking

(* A step of the routine that leaves the call where it is. *)
LEMMA RoutineKeeps ==
  ASSUME AloneInv, pc \in {"ask", "mask"}, pc' = pc,
         CallTypeOK', Alone', Fits(request)', FlightInv'
  PROVE  AloneInv'
  BY DEF AloneInv, SubmitInv, ArmInv, Submitting, Transferring

LEMMA OwnPending ==
  ASSUME IrqInv, AloneInv, Interrupt \/ Dispatch \/ Again
  PROVE  AloneInv'
<1>1. UNCHANGED vars /\ UNCHANGED <<irq_busy, size>>
  BY DEF Interrupt, Dispatch, Again, PendingOr
<1>2. missed' <=> missed
  <2>1. CASE Interrupt
    BY <2>1, Zenon DEF Interrupt
  <2>2. CASE Dispatch
    BY <2>2, Zenon DEF Dispatch, PendingOr
  <2>3. CASE Again
    BY <2>3, Zenon DEF Again, PendingOr
  <2> QED BY <2>1, <2>2, <2>3
<1>3. /\ isr \in {"off", "trap", "again"}
      /\ isr' \in {"trap", "clear", "endless", "off"}
      /\ isr = "off" => intr
      /\ isr' # "off" => intr \/ isr = "trap"
  BY DEF Interrupt, Dispatch, Again, IsrAt, PendingOr
<1>4. /\ pc' = pc /\ UNCHANGED <<coreVars, chipVars>>
      /\ UNCHANGED <<fn, retry, request, buffer, attempt>>
  BY <1>1 DEF vars, driverVars
<1>5. pc \in {"ask", "mask"} /\ (intr => irq_busy # 0)
  BY <1>3, RoutinePlace
<1>6. CallTypeOK /\ Alone /\ Fits(request) /\ FlightInv
  BY <1>5 DEF AloneInv
<1>7. /\ CallTypeOK' /\ Alone' /\ core' = core /\ Fits(request)'
      /\ InFlight => InFlight'
      /\ Landed => Landed'
  BY <1>2, <1>4, <1>6, Steady
<1>8. FlightInv'
  BY <1>1, <1>3, <1>4, <1>5, <1>6, <1>7 DEF FlightInv, Transferring
<1> QED BY <1>4, <1>5, <1>7, <1>8, RoutineKeeps

LEMMA OwnClear ==
  ASSUME IrqInv, AloneInv, IsrClear \/ IsrMore
  PROVE  AloneInv'
<1>1. /\ isr \in {"clear", "read"} /\ ClearAll
      /\ pc' = pc
      /\ UNCHANGED <<fn, retry, request, buffer, attempt, chipVars>>
      /\ UNCHANGED <<irq_busy, size>>
      /\ isr' \in {"read", "wait", "again"}
      /\ isr' = "wait" => irq_busy # 2
  BY DEF IsrClear, IsrMore, IsrAt, driverVars
<1>2. pc \in {"ask", "mask"}
  BY <1>1, RoutinePlace
<1>3. /\ CallTypeOK /\ Alone /\ Fits(request) /\ InFlight
      /\ irq_busy # 0
      /\ irq_busy = IF request.rx > 0 THEN 2 ELSE 1
      /\ size \in Nat /\ size + Len(buffer) = request.rx
      /\ irq_busy = 2 => size > 0
  BY <1>1, <1>2 DEF AloneInv, FlightInv, Transferring
<1>4. CallTypeOK' /\ Alone' /\ InFlight'
  BY <1>1, <1>3, Cleared
<1>5. Fits(request)'
  BY <1>1, <1>3, SameRequest
<1>6. isr' = "wait" => size = 0
  <2>1. Len(buffer) \in Nat /\ request.rx \in Nat
    BY <1>3, LightSizes DEF CallTypeOK
  <2> QED BY <1>1, <1>3, <2>1
<1>7. FlightInv'
  BY <1>1, <1>2, <1>3, <1>4, <1>6 DEF FlightInv
<1> QED BY <1>1, <1>2, <1>4, <1>5, <1>7, RoutineKeeps

LEMMA OwnRead ==
  ASSUME IrqInv, AloneInv, IsrRead
  PROVE  AloneInv'
<1>1. /\ isr = "read" /\ rxfifo # <<>> /\ PopRxData
      /\ buffer' = Append(buffer, RxData)
      /\ size' = size - 1 /\ isr' = IF size' = 0 THEN "wait" ELSE "read"
      /\ pc' = pc
      /\ UNCHANGED <<fn, retry, request, attempt, chipVars, irq_busy>>
  BY DEF IsrRead, IsrAt
<1>2. missed' <=> missed
  BY Zenon DEF IsrRead
<1>3. pc \in {"ask", "mask"} /\ irq_busy = 2
  BY <1>1, RoutinePlace
<1>4. /\ CallTypeOK /\ Alone /\ Fits(request) /\ InFlight
      /\ irq_busy = IF request.rx > 0 THEN 2 ELSE 1
      /\ size \in Nat /\ size + Len(buffer) = request.rx /\ size > 0
  BY <1>1, <1>3 DEF AloneInv, FlightInv, Transferring
<1>5. /\ UNCHANGED <<core, cmd, txfifo, bus, contentions, tfr_cmd_fifo_thd>>
      /\ ctrl_en' = ctrl_en /\ sent_7bit_addr' = sent_7bit_addr
      /\ rw_cmd' = rw_cmd /\ nack_det' = nack_det /\ arblost_det' = arblost_det
      /\ rxfifo' = Tail(rxfifo)
  BY <1>1, Zenon DEF PopRxData, ctrlVars, isrVars
<1>6. /\ rxfifo' \in Seq(SampleType) /\ buffer' \in Seq(SampleType)
      /\ Len(buffer') = Len(buffer) + 1 /\ Len(buffer) \in Nat
  <2>1. rxfifo \in Seq(SampleType) /\ buffer \in Seq(SampleType)
    BY <1>4 DEF CallTypeOK
  <2>2. RxData \in SampleType
    BY <1>1, <2>1 DEF RxData
  <2> QED BY <1>1, <1>5, <2>1, <2>2
<1>7. CallTypeOK'
  BY <1>1, <1>4, <1>5, <1>6 DEF CallTypeOK, chipVars
<1>8. Alone'
  BY <1>4, <1>5, Zenon DEF Alone
<1>9. Fits(request)' /\ Total' = Total
  BY <1>1, <1>4, SameRequest
<1>10. InFlight'
  <2>1. PICK w \in Nat : w = Total /\ Underway(w)
    BY <1>1, <1>4, LightSizes DEF InFlight, Refusal, Unseen
  <2>2. Underway(w)'
    BY <1>1, <1>4, <2>1, ReadUnderway
  <2>3. ctrl_en'
    BY <1>4, <1>5, Zenon DEF InFlight
  <2> QED BY <1>9, <2>1, <2>2, <2>3 DEF InFlight
<1>11. size' \in Nat /\ size' + Len(buffer') = request.rx
  BY <1>1, <1>4, <1>6
<1>12. FlightInv'
  BY <1>1, <1>3, <1>4, <1>10, <1>11 DEF FlightInv
<1> QED BY <1>1, <1>3, <1>7, <1>8, <1>9, <1>12, RoutineKeeps

LEMMA OwnWait ==
  ASSUME IrqInv, AloneInv, IsrWait
  PROVE  AloneInv'
<1>1. /\ isr = "wait" /\ isr' = "disable" /\ (~Busy \/ Waiting)
      /\ UNCHANGED vars /\ UNCHANGED <<irq_busy, size>>
  BY DEF IsrWait, IsrAt
<1>2. missed' <=> missed
  BY Zenon DEF IsrWait
<1>3. /\ pc' = pc /\ UNCHANGED <<coreVars, chipVars>>
      /\ UNCHANGED <<fn, retry, request, buffer, attempt>>
  BY <1>1 DEF vars, driverVars
<1>4. pc \in {"ask", "mask"}
  BY <1>1, RoutinePlace
<1>5. /\ CallTypeOK /\ Alone /\ Fits(request) /\ InFlight
      /\ irq_busy # 0
      /\ irq_busy = IF request.rx > 0 THEN 2 ELSE 1
      /\ size = 0 /\ size + Len(buffer) = request.rx
  BY <1>1, <1>4 DEF AloneInv, FlightInv, Transferring
<1>6. core = "PRE_IDLE"
  BY <1>1, <1>5, FlightEnds
<1>7. /\ CallTypeOK' /\ Alone' /\ core' = core /\ Fits(request)' /\ InFlight'
  BY <1>2, <1>3, <1>5, Steady
<1>8. FlightInv'
  BY <1>1, <1>3, <1>4, <1>5, <1>6, <1>7 DEF FlightInv
<1> QED BY <1>3, <1>4, <1>7, <1>8, RoutineKeeps

LEMMA OwnDisable ==
  ASSUME IrqInv, AloneInv, IsrDisable
  PROVE  AloneInv'
<1>1. /\ isr = "disable" /\ isr' = "again" /\ irq_busy' = 0 /\ ClearEnable
      /\ pc' = pc
      /\ UNCHANGED <<fn, retry, request, buffer, attempt, chipVars>>
  BY DEF IsrDisable, IsrAt, driverVars
<1>2. missed' <=> missed
  BY Zenon DEF IsrDisable
<1>3. pc \in {"ask", "mask"}
  BY <1>1, RoutinePlace
<1>4. /\ CallTypeOK /\ Alone /\ Fits(request) /\ InFlight
      /\ size = 0 /\ size + Len(buffer) = request.rx
      /\ core = "PRE_IDLE"
  BY <1>1, <1>3 DEF AloneInv, FlightInv, Transferring
<1>5. Len(buffer) = request.rx
  BY <1>4 DEF CallTypeOK
<1>6. CallTypeOK' /\ Alone' /\ Landed'
  BY <1>1, <1>2, <1>4, <1>5, FlightLands
<1>7. Fits(request)'
  BY <1>1, <1>4, SameRequest
<1>8. FlightInv'
  BY <1>1, <1>3, <1>6 DEF FlightInv
<1> QED BY <1>1, <1>3, <1>6, <1>7, <1>8, RoutineKeeps

-----------------------------------------------------------------------------
(* The machine beside all of them. *)
LEMMA OwnMachine ==
  ASSUME AloneInv, alone, Bus
  PROVE  AloneInv'
<1>1. /\ UNCHANGED driverVars /\ contentions' = contentions
      /\ UNCHANGED <<irq_busy, size, isr>>
  BY DEF Bus, Machine, OtherMaster, irqVars
<1>2. (missed' <=> missed) /\ (use_interrupts' <=> use_interrupts)
  BY Zenon DEF Bus, irqVars
<1>3. /\ UNCHANGED <<pc, fn, k, status, retry, request, buffer, attempt>>
      /\ CallTypeOK /\ Alone
  BY <1>1 DEF driverVars, AloneInv
<1>4. CoreStep(attempt)
  <2>1. contentions = 0 /\ bus # "other"
    BY <1>3 DEF Alone
  <2>2. ~OtherMaster
    BY <1>1, <2>1 DEF OtherMaster, Contend, Yield
  <2> QED BY <2>2 DEF Bus, Machine
<1>5. Fits(request) => Fits(request)'
  BY <1>3, SameRequest
<1>6. CASE pc \in Submitting
  <2>1. SoundInv /\ ~missed
    BY <1>6 DEF AloneInv, SubmitInv
  <2>2. SoundInv'
    BY <1>1, <1>4, <2>1, MachineStep
  <2> QED BY <1>2, <1>3, <1>6, <2>1, <2>2, Submits DEF AloneInv, SubmitInv
<1>7. ASSUME AtRest
      PROVE  /\ CallTypeOK' /\ Alone' /\ AtRest' /\ UNCHANGED chipVars
             /\ nack_det' <=> nack_det
  <2>1. AtRest' /\ UNCHANGED chipVars
    BY <1>4, <1>7, MachineAtRest
  <2>2. CallTypeOK' /\ Alone'
    BY <1>1, <1>3, <1>4, <1>7, MachineAlone DEF AtRest
  <2>3. PreIdle
    BY <1>4, <1>7 DEF AtRest, CoreStep, Start, StartDone, Pop, RestartDone,
       AddressAcked, ByteAcked, Nacked, ByteReceived, ByteAnswered, Lose, Resume,
       StopDone
  <2>4. nack_det' = nack_det
    BY <2>3, Zenon DEF PreIdle, isrVars
  <2> QED BY <2>1, <2>2, <2>4
<1>8. CASE pc = "idle"
  <2>1. AtRest /\ (missed \/ Told)
    BY <1>8 DEF AloneInv
  <2>2. CallTypeOK' /\ Alone' /\ AtRest' /\ UNCHANGED chipVars
    BY <1>7, <2>1
  <2>3. Told => Told'
    BY <1>3, <2>2 DEF Told, ReadSound, WriteSound, chipVars
  <2> QED BY <1>2, <1>3, <1>8, <2>1, <2>2, <2>3
          DEF AloneInv, SubmitInv, ArmInv, FlightInv, Submitting, Transferring
<1>9. ASSUME InFlight, pc # "idle"
      PROVE  /\ CallTypeOK' /\ Alone' /\ InFlight' /\ core # "PRE_IDLE"
             /\ Refusal => Refusal'
  <2>1. Fits(request)
    BY <1>9 DEF AloneInv
  <2> QED BY <1>1, <1>2, <1>3, <1>4, <1>9, <2>1, FlightGoesOn
<1>10. CASE pc \in {"quiet", "arm"}
  <2>1. /\ InFlight /\ buffer = <<>> /\ Fits(request)
        /\ fn = IF request.rx > 0 THEN "receive" ELSE "transmit"
    BY <1>10 DEF AloneInv, ArmInv
  <2>2. CallTypeOK' /\ Alone' /\ InFlight'
    BY <1>9, <1>10, <2>1
  <2>3. ArmInv'
    BY <1>3, <2>1, <2>2 DEF ArmInv
  <2> QED BY <1>3, <1>5, <1>10, <2>1, <2>2, <2>3
          DEF AloneInv, SubmitInv, FlightInv, Submitting, Transferring
<1>11. CASE pc \in Transferring
  <2>1. FlightInv /\ Fits(request) /\ pc # "idle"
    BY <1>11 DEF AloneInv, Transferring
  <2>2. CASE irq_busy = 0
    <3>1. Landed /\ isr \in {"off", "again"} /\ pc # "abort"
      BY <1>11, <2>1, <2>2 DEF FlightInv
    <3>2. /\ CallTypeOK' /\ Alone' /\ AtRest' /\ UNCHANGED chipVars
          /\ nack_det' <=> nack_det
      BY <1>7, <3>1 DEF Landed
    <3>3. Delivered => Delivered'
      BY <1>3, <3>2 DEF Delivered, SampleOf, From, chipVars
    <3>4. Landed'
      BY <1>2, <1>3, <3>1, <3>2, <3>3 DEF Landed
    <3>5. FlightInv'
      BY <1>1, <1>3, <2>2, <3>1, <3>4 DEF FlightInv
    <3> QED BY <1>3, <1>5, <1>11, <2>1, <3>2, <3>5
            DEF AloneInv, SubmitInv, ArmInv, Submitting, Transferring
  <2>3. CASE irq_busy # 0
    <3>1. /\ InFlight /\ irq_busy = IF request.rx > 0 THEN 2 ELSE 1
          /\ size \in Nat /\ size + Len(buffer) = request.rx
          /\ IF isr \in {"wait", "disable"} THEN size = 0
                                            ELSE irq_busy = 2 => size > 0
          /\ isr = "disable" => core = "PRE_IDLE"
          /\ pc = "abort" => status = "NACK_ERR" /\ Refusal
      BY <1>11, <2>1, <2>3 DEF FlightInv
    <3>2. /\ CallTypeOK' /\ Alone' /\ InFlight' /\ core # "PRE_IDLE"
          /\ Refusal => Refusal'
      BY <1>9, <2>1, <3>1
    <3>3. FlightInv'
      BY <1>1, <1>3, <2>3, <3>1, <3>2 DEF FlightInv
    <3> QED BY <1>3, <1>5, <1>11, <2>1, <3>2, <3>3
            DEF AloneInv, SubmitInv, ArmInv, Submitting, Transferring
  <2> QED BY <2>2, <2>3
<1> QED BY <1>6, <1>8, <1>10, <1>11 DEF AloneInv

-----------------------------------------------------------------------------
(* Calls by interrupt are made where there is no other master, and every   *)
(* call fits the FIFO and the chip.                                        *)
NotShared   == ~SharedBus
AllCallsFit == \A r \in Requests \cup IrqRequests : Fits(r)

LEMMA OwnInit == IrqInit => OwnBusInv
<1> SUFFICES ASSUME IrqInit PROVE OwnBusInv
  OBVIOUS
<1>1. Init /\ pc = "idle" /\ ~use_interrupts
  <2>1. Init /\ ~use_interrupts
    BY Zenon DEF IrqInit
  <2> QED BY <2>1 DEF Init, DriverInit
<1>2. SoundInv
  BY <1>1, SoundInit
<1>3. CallTypeOK /\ Alone /\ AtRest /\ Told
  BY <1>1, <1>2 DEF SoundInv, IpInv, StatusInv, Idle, Told
<1> QED BY <1>1, <1>3 DEF OwnBusInv, AloneInv, SubmitInv, ArmInv, FlightInv,
        Submitting, Transferring

LEMMA OwnStutter ==
  ASSUME AloneInv, UNCHANGED allVars
  PROVE  AloneInv'
<1>1. /\ UNCHANGED vars /\ UNCHANGED <<irq_busy, size, isr>>
      /\ UNCHANGED <<coreVars, chipVars>>
      /\ UNCHANGED <<pc, fn, k, status, retry, request, buffer, attempt>>
  BY DEF allVars, irqVars, vars, driverVars
<1>2. (missed' <=> missed) /\ (use_interrupts' <=> use_interrupts)
  BY Zenon DEF allVars, irqVars
<1>3. CallTypeOK /\ Alone
  BY DEF AloneInv
<1>4. /\ CallTypeOK' /\ Alone' /\ core' = core
      /\ Fits(request) => Fits(request)'
      /\ InFlight => InFlight'
      /\ Refusal => Refusal'
      /\ AtRest => AtRest'
      /\ Landed => Landed'
  BY <1>1, <1>2, <1>3, Steady
<1>5. SoundInv => SoundInv'
  BY <1>1, SoundStutter
<1>6. Told => Told'
  BY <1>1 DEF Told, ReadSound, WriteSound, chipVars
<1>7. SubmitInv => SubmitInv'
  BY <1>1, <1>2, <1>5 DEF SubmitInv
<1>8. ArmInv => ArmInv'
  BY <1>1, <1>4 DEF ArmInv
<1>9. FlightInv => FlightInv'
  BY <1>1, <1>4 DEF FlightInv
<1> QED BY <1>1, <1>2, <1>4, <1>6, <1>7, <1>8, <1>9 DEF AloneInv

LEMMA OwnStep ==
  ASSUME NotShared, AllCallsFit, IrqInv, OwnBusInv, [IrqNext]_allVars
  PROVE  OwnBusInv'
<1>1. CASE PollingCall
  <2>1. (alone' <=> alone) /\ ~use_interrupts'
    BY <1>1, Zenon DEF PollingCall
  <2> QED BY <1>1, <2>1, OwnCall DEF OwnBusInv, AllCallsFit
<1>2. CASE IrqCall
  <2>1. (alone' <=> alone) /\ alone
    BY <1>2, Zenon DEF IrqCall, NotShared
  <2> QED BY <1>2, <2>1, OwnCall DEF OwnBusInv, AllCallsFit
<1>3. CASE ApplicationStep
  <2>1. isr = "off" /\ Application
    BY <1>3 DEF ApplicationStep
  <2>2. (alone' <=> alone) /\ (use_interrupts' <=> use_interrupts)
    <3>1. CASE Shared
      BY <3>1, Zenon DEF Shared
    <3>2. CASE PollingOnly \/ IrqCheckArbLost \/ IrqSettle \/ Finish
      <4>1. CASE PollingOnly
        BY <4>1, Zenon DEF PollingOnly, irqVars
      <4>2. CASE IrqCheckArbLost
        BY <4>2, Zenon DEF IrqCheckArbLost, irqVars
      <4>3. CASE IrqSettle
        BY <4>3, Zenon DEF IrqSettle, irqVars
      <4>4. CASE Finish
        BY <4>4, Zenon DEF Finish, irqVars
      <4> QED BY <3>2, <4>1, <4>2, <4>3, <4>4
    <3>3. CASE Quiet
      BY <3>3, Zenon DEF Quiet
    <3>4. CASE Arm
      BY <3>4, Zenon DEF Arm
    <3>5. CASE Ask
      BY <3>5, Zenon DEF Ask
    <3>6. CASE Mask
      BY <3>6, Zenon DEF Mask
    <3>7. CASE Answer
      BY <3>7, Zenon DEF Answer
    <3>8. CASE Abort
      BY <3>8, Zenon DEF Abort
    <3> QED BY <2>1, <3>1, <3>2, <3>3, <3>4, <3>5, <3>6, <3>7, <3>8
            DEF Application
  <2>3. AloneInv => AloneInv'
    BY <2>1, OwnShared, OwnPolling, OwnCheckArbLost, OwnSettle, OwnFinish,
       OwnQuiet, OwnArm, OwnAsk, OwnAnswer, OwnAbort DEF Application
  <2> QED BY <2>2, <2>3 DEF OwnBusInv
<1>4. CASE Interrupt \/ IsrStep
  <2>1. (alone' <=> alone) /\ (use_interrupts' <=> use_interrupts)
    <3>1. CASE Interrupt
      BY <3>1, Zenon DEF Interrupt
    <3>2. CASE Dispatch \/ Again
      <4>1. CASE Dispatch
        BY <4>1, Zenon DEF Dispatch, PendingOr
      <4>2. CASE Again
        BY <4>2, Zenon DEF Again, PendingOr
      <4> QED BY <3>2, <4>1, <4>2
    <3>3. CASE IsrClear
      BY <3>3, Zenon DEF IsrClear
    <3>4. CASE IsrRead
      BY <3>4, Zenon DEF IsrRead
    <3>5. CASE IsrMore
      BY <3>5, Zenon DEF IsrMore
    <3>6. CASE IsrWait
      BY <3>6, Zenon DEF IsrWait
    <3>7. CASE IsrDisable
      BY <3>7, Zenon DEF IsrDisable
    <3> QED BY <1>4, <3>1, <3>2, <3>3, <3>4, <3>5, <3>6, <3>7 DEF IsrStep
  <2>2. AloneInv => AloneInv'
    BY <1>4, OwnPending, OwnClear, OwnRead, OwnWait, OwnDisable DEF IsrStep
  <2> QED BY <2>1, <2>2 DEF OwnBusInv
<1>5. CASE Bus
  <2>1. (alone' <=> alone) /\ (use_interrupts' <=> use_interrupts)
    BY <1>5, Zenon DEF Bus, irqVars
  <2> QED BY <1>5, <2>1, OwnMachine DEF OwnBusInv
<1>6. CASE UNCHANGED allVars
  <2>1. (alone' <=> alone) /\ (use_interrupts' <=> use_interrupts)
    BY <1>6, Zenon DEF allVars, irqVars
  <2> QED BY <1>6, <2>1, OwnStutter DEF OwnBusInv
<1> QED BY <1>1, <1>2, <1>3, <1>4, <1>5, <1>6 DEF IrqNext

(* On a bus of one master every call by interrupt is at rest, being        *)
(* submitted, in flight, or over and not yet reported, and the two halves  *)
(* of the driver stand where that stage has them                           *)
(* (altera_avalon_i2c.c:454-508 beside 47-86).                             *)
THEOREM OwnBusInvariant ==
  ASSUME NotShared, AllCallsFit
  PROVE  IrqSpec => []OwnBusInv
<1>1. IrqInv /\ OwnBusInv /\ [IrqNext]_allVars => OwnBusInv'
  BY OwnStep
<1> QED BY <1>1, Initially, IrqInvariant, OwnInit, PTL DEF IrqSpec

(* A call by interrupt that ends with success did what it says, and its    *)
(* buffer holds no byte too many, however the routine, the callback and    *)
(* the status function fall between each other's accesses, unless a        *)
(* refusal was cleared unseen (altera_avalon_i2c.c:454-508 beside 47-86).  *)
THEOREM InterruptCallsSound ==
  ASSUME NotShared, AllCallsFit
  PROVE  IrqSpec => []InterruptSound
<1>1. OwnBusInv => InterruptSound
  BY DEF OwnBusInv, AloneInv, Told, InterruptSound, WithinBuffer
<1> QED BY <1>1, OwnBusInvariant, PTL
=============================================================================
