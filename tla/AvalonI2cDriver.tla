--------------------------- MODULE AvalonI2cDriver ---------------------------
(***************************************************************************)
(* The polling half of the Avalon I2C driver, altera_avalon_i2c.c, above   *)
(* the IP it drives: alt_avalon_i2c_master_tx, _rx and _tx_rx with         *)
(* ALT_AVALON_I2C_NO_INTERRUPTS, and the transmit and receive functions    *)
(* under them.  A step is one access to a register of the IP; the master   *)
(* machine takes steps of its own in between.                              *)
(*                                                                         *)
(* A polling loop ends when its condition comes, or gives up with TIMEOUT. *)
(* Every limit (10000 polls or more and 90 ms of sleep) is far longer than *)
(* a byte, so a loop gives up only when the machine is Waiting for         *)
(* something other than itself.  For the same reason the one clock         *)
(* PRE_IDLE lasts when it leaves is never seen by two accesses.            *)
(***************************************************************************)
EXTENDS AvalonI2cCore

CONSTANTS
  Requests,   (* the calls the application makes: [tx, rx], the bytes sent *)
              (* and the number of bytes asked for                         *)
  Tries       (* retry, 10000 in the code                                  *)

ASSUME DriverAssumption ==
  /\ Tries \in Nat \ {0}
  /\ \A r \in Requests : r.rx \in Nat /\ (r.tx # <<>> \/ r.rx > 0)

VARIABLES
  pc,         (* the access to come                                        *)
  fn,         (* "transmit" or "receive": the function it is in            *)
  k,          (* the command of that function to write next                *)
  status,
  retry,
  request,
  buffer,     (* the bytes read so far: buffer[0 .. bytes_read-1]          *)
  attempt     (* numbers the transactions, modulo 3                        *)

driverVars == <<pc, fn, k, status, retry, request, buffer, attempt>>
vars == <<chipVars, coreVars, driverVars>>

Success == "SUCCESS"

(* Mutant: a refusal ends the call. *)
Retried_NotRefused(st) == st \in {"ARB_LOST_ERR", "BUSY"}

Retried(st) == st \in {"NACK_ERR", "ARB_LOST_ERR", "BUSY"}

(* What each function writes to the transfer command FIFO: the address,    *)
(* then the bytes to send or a dummy byte for each byte to read.  The read *)
(* restarts the bus when the call has sent something first; STOP goes with *)
(* the last command of the call.                                           *)
TransmitCommands ==
  <<Command(WriteAddress, FALSE, FALSE)>> \o
  [i \in 1 .. Len(request.tx) |->
     Command(request.tx[i], FALSE, request.rx = 0 /\ i = Len(request.tx))]

ReceiveCommands ==
  <<Command(ReadAddress, request.tx # <<>>, FALSE)>> \o
  [i \in 1 .. request.rx |-> Command(0, FALSE, i = request.rx)]

Commands == IF fn = "transmit" THEN TransmitCommands ELSE ReceiveCommands

Begins(r) == IF r.tx # <<>> THEN "transmit" ELSE "receive"

DriverInit ==
  /\ pc = "idle" /\ fn = "transmit" /\ k = 1 /\ status = Success
  /\ retry = 0 /\ request = [tx |-> <<>>, rx |-> 0]
  /\ buffer = <<>> /\ attempt = 0

-----------------------------------------------------------------------------
At(step)   == pc = step /\ ~LeavesPreIdle
Goes(step) == pc' = step

Call(r) ==
  /\ At("idle")
  /\ request' = r /\ retry' = Tries - 1
  /\ fn' = Begins(r) /\ k' = 1
  /\ status' = Success /\ buffer' = <<>>
  /\ Goes("enable")
  /\ UNCHANGED <<attempt, coreVars, chipVars>>

(* Mutant: a retry keeps the bytes of the attempt before it. *)
Return_KeepsBuffer(st) ==
  /\ status' = st
  /\ k' = 1
  /\ UNCHANGED <<request, buffer>>
  /\ \/ /\ Retried(st) /\ retry > 0
        /\ retry' = retry - 1
        /\ fn' = Begins(request)
        /\ Goes("enable")
     \/ /\ ~Retried(st) /\ fn = "transmit" /\ request.rx > 0
        /\ fn' = "receive"
        /\ Goes("write")
        /\ UNCHANGED retry
     \/ /\ IF Retried(st) THEN retry = 0
                          ELSE ~(fn = "transmit" /\ request.rx > 0)
        /\ Goes("idle")
        /\ UNCHANGED <<retry, fn>>

(* One of the two functions returns st to the loop of the call. *)
Return(st) ==
  /\ status' = st
  /\ k' = 1
  /\ \/ /\ Retried(st) /\ retry > 0
        /\ retry' = retry - 1
        /\ fn' = Begins(request) /\ buffer' = <<>>
        /\ Goes("enable")
     \/ /\ Retried(st) /\ retry = 0
        /\ Goes("idle")
        /\ UNCHANGED <<retry, fn, buffer>>
     \/ /\ ~Retried(st) /\ fn = "transmit" /\ request.rx > 0
        /\ fn' = "receive"
        /\ Goes("write")
        /\ UNCHANGED <<retry, buffer>>
     \/ /\ ~Retried(st) /\ ~(fn = "transmit" /\ request.rx > 0)
        /\ Goes("idle")
        /\ UNCHANGED <<retry, fn, buffer>>
  /\ UNCHANGED request

(* alt_avalon_i2c_enable: a transaction needs the IP disabled. *)
Enable ==
  /\ At("enable")
  /\ IF ctrl_en
       THEN /\ Return("BUSY")
            /\ UNCHANGED <<attempt, coreVars>>
       ELSE /\ SetEnable
            /\ attempt' = (attempt + 1) % 3
            /\ Goes("clear")
            /\ UNCHANGED <<fn, k, status, retry, request, buffer>>
  /\ UNCHANGED chipVars

Clear ==
  /\ At("clear")
  /\ ClearIsr
  /\ Goes("write")
  /\ UNCHANGED <<fn, k, status, retry, request, buffer, attempt, chipVars>>

-----------------------------------------------------------------------------
(* alt_avalon_i2c_cmd_write, and what its caller does with the status.     *)

GiveUp == status' = "TIMEOUT"

(* Mutant: waits for room without a limit. *)
Write_NoLimit ==
  /\ At("write")
  /\ tx_ready
  /\ WriteCommand(Commands[k])
  /\ Goes("nack")
  /\ status' = Success
  /\ UNCHANGED <<fn, k, retry, request, buffer, attempt, chipVars>>

Write ==
  /\ At("write")
  /\ \/ /\ tx_ready
        /\ WriteCommand(Commands[k])
        /\ Goes("nack")
        /\ status' = Success
     \/ /\ ~tx_ready /\ Waiting
        /\ GiveUp
        /\ Goes("settle")
        /\ UNCHANGED coreVars
  /\ UNCHANGED <<fn, k, retry, request, buffer, attempt, chipVars>>

CheckNack ==
  /\ At("nack")
  /\ status' = IF nack_det THEN "NACK_ERR" ELSE status
  /\ Goes("arblost")
  /\ UNCHANGED <<fn, k, retry, request, buffer, attempt, coreVars, chipVars>>

Last == k = Len(Commands)

(* A dummy byte but the last: what has come is read before the next one. *)
Drains == fn = "receive" /\ k > 1 /\ ~Last

CheckArbLost ==
  /\ At("arblost")
  /\ IF arblost_det \/ status # Success
       THEN /\ status' = IF arblost_det THEN "ARB_LOST_ERR" ELSE status
            /\ Goes("settle")
            /\ UNCHANGED <<fn, k, retry, request, buffer>>
       ELSE \/ /\ Drains
               /\ Goes("drain")
               /\ UNCHANGED <<fn, k, status, retry, request, buffer>>
            \/ /\ ~Drains /\ ~Last
               /\ Goes("write") /\ k' = k + 1
               /\ UNCHANGED <<fn, status, retry, request, buffer>>
            \/ /\ Last /\ fn = "receive"
               /\ Goes("collect")
               /\ UNCHANGED <<fn, k, status, retry, request, buffer>>
            \/ /\ Last /\ fn = "transmit" /\ request.rx = 0
               /\ Goes("settle")
               /\ UNCHANGED <<fn, k, status, retry, request, buffer>>
            \/ /\ Last /\ fn = "transmit" /\ request.rx > 0
               /\ Return(Success)
  /\ UNCHANGED <<attempt, coreVars, chipVars>>

-----------------------------------------------------------------------------
(* alt_avalon_i2c_rx_read_available: the level, then the byte. *)
Drain ==
  /\ At("drain")
  /\ IF rxfifo = <<>>
       THEN Goes("write") /\ k' = k + 1
       ELSE Goes("take") /\ UNCHANGED k
  /\ UNCHANGED <<fn, status, retry, request, buffer, attempt, coreVars, chipVars>>

ReadData(next) ==
  /\ buffer' = Append(buffer, RxData)
  /\ PopRxData
  /\ Goes(next)
  /\ UNCHANGED <<fn, k, retry, request, attempt, chipVars>>

DrainTake ==
  /\ At("take")
  /\ ReadData("drain")
  /\ UNCHANGED status

(* Mutant: one byte too many. *)
Collect_OneMore ==
  /\ At("collect")
  /\ \/ /\ Len(buffer) > request.rx \/ status # Success
        /\ Goes("settle")
        /\ UNCHANGED status
     \/ /\ Len(buffer) <= request.rx /\ status = Success
        /\ \/ rxfifo # <<>> /\ UNCHANGED status
           \/ rxfifo = <<>> /\ Waiting /\ GiveUp
        /\ Goes("fetch")
  /\ UNCHANGED <<fn, k, retry, request, buffer, attempt, coreVars, chipVars>>

(* The reading loop of alt_avalon_i2c_master_receive, over                 *)
(* alt_avalon_i2c_rx_read, which stores a byte even when it times out.     *)
Collect ==
  /\ At("collect")
  /\ \/ /\ Len(buffer) >= request.rx \/ status # Success
        /\ Goes("settle")
        /\ UNCHANGED status
     \/ /\ Len(buffer) < request.rx /\ status = Success
        /\ \/ rxfifo # <<>> /\ UNCHANGED status
           \/ rxfifo = <<>> /\ Waiting /\ GiveUp
        /\ Goes("fetch")
  /\ UNCHANGED <<fn, k, retry, request, buffer, attempt, coreVars, chipVars>>

Fetch ==
  /\ At("fetch")
  /\ ReadData("collect")
  /\ UNCHANGED status

-----------------------------------------------------------------------------
(* The end of a transaction. *)

(* Mutant: does not wait for the end of the transaction. *)
Settle_AtOnce ==
  /\ At("settle")
  /\ Goes("lastnack")
  /\ UNCHANGED <<fn, k, status, retry, request, buffer, attempt, coreVars,
                 chipVars>>

Settle ==
  /\ At("settle")
  /\ \/ ~Busy /\ UNCHANGED status
     \/ Busy /\ Waiting /\ GiveUp
  /\ Goes("lastnack")
  /\ UNCHANGED <<fn, k, retry, request, buffer, attempt, coreVars, chipVars>>

(* Mutant: no last look at NACK_DET. *)
CheckLastNack_Skipped ==
  /\ At("lastnack")
  /\ Goes("disable")
  /\ UNCHANGED <<fn, k, status, retry, request, buffer, attempt, coreVars,
                 chipVars>>

CheckLastNack ==
  /\ At("lastnack")
  /\ status' = IF nack_det THEN "NACK_ERR" ELSE status
  /\ Goes("disable")
  /\ UNCHANGED <<fn, k, retry, request, buffer, attempt, coreVars, chipVars>>

(* Mutant: the IP is left enabled after an error. *)
Disable_OnlyAfterSuccess ==
  /\ At("disable")
  /\ IF status = Success THEN ClearEnable ELSE UNCHANGED coreVars
  /\ Return(status)
  /\ UNCHANGED <<attempt, chipVars>>

Disable ==
  /\ At("disable")
  /\ ClearEnable
  /\ Return(status)
  /\ UNCHANGED <<attempt, chipVars>>

DriverStep ==
  \/ Enable \/ Clear \/ Write \/ CheckNack \/ CheckArbLost \/ Drain \/ DrainTake
  \/ Collect \/ Fetch \/ Settle \/ CheckLastNack \/ Disable

-----------------------------------------------------------------------------
(* The machine and the other master, beside the driver. *)
Machine == CoreStep(attempt) /\ UNCHANGED driverVars

OtherMaster == (Contend \/ Yield) /\ UNCHANGED driverVars

Init == ChipInit /\ CoreInit /\ DriverInit

Next ==
  \/ \E r \in Requests : Call(r)
  \/ DriverStep
  \/ Machine
  \/ OtherMaster

Spec == Init /\ [][Next]_vars

(* The processor goes on executing and the IP goes on being clocked; no    *)
(* other master is made to give the bus back.                              *)
FairSpec == Spec /\ WF_vars(DriverStep) /\ WF_vars(Machine)

-----------------------------------------------------------------------------
(* Values of the variables. *)
Byte == Nat
CommandType == [byte : Byte, sta : BOOLEAN, sto : BOOLEAN]
Sample == [register : Register, attempt : 0 .. 2]

TypeOK ==
  /\ pointer \in Register /\ pointing \in BOOLEAN
  /\ DOMAIN written = Register /\ nacks \in 0 .. MaxNacks
  /\ core \in {"IDLE", "PRE_START", "GEN_START", "POP_TX_FIFO",
               "GEN_7BIT_ADDR", "GEN_RESTART_7BIT", "TX_BYTE", "RX_BYTE",
               "RX_ACK", "BUS_HOLD", "GEN_STOP", "PRE_IDLE"}
  /\ tfr_cmd_fifo_thd \in {0, Depth - 1}
  /\ {ctrl_en, sent_7bit_addr, rw_cmd, nack_det, arblost_det} \subseteq BOOLEAN
  /\ txfifo \in Seq(CommandType) /\ Len(txfifo) <= Depth
  /\ rxfifo \in Seq(Sample) /\ Len(rxfifo) <= Depth
  /\ bus \in {"idle", "ours", "other"}
  /\ pc \in {"idle", "enable", "clear", "write", "nack", "arblost", "drain",
             "take", "collect", "fetch", "settle", "lastnack", "disable"}
  /\ k \in 1 .. Len(Commands)
  /\ retry \in 0 .. Tries - 1

(* A call that reports success delivered every byte asked for: registers   *)
(* in sequence from the one it named, all sampled by the bus transaction   *)
(* it ended with, none left over from a refused attempt (the FIFO flush    *)
(* races the polling of altera_avalon_i2c.c:823-847).                      *)
ReadSound ==
  pc = "idle" /\ status = Success /\ request.rx > 0 =>
    /\ Len(buffer) = request.rx
    /\ request.tx # <<>> =>
         \A i \in 1 .. request.rx :
           buffer[i] =
             [register |->
                (request.tx[1] + Len(request.tx) + i - 2) % Registers,
              attempt |-> attempt]

(* What a call that reports success wrote reached the chip, even when the  *)
(* chip refused earlier attempts or the last byte of this one.             *)
WriteSound ==
  pc = "idle" /\ status = Success =>
    \A i \in 2 .. Len(request.tx) :
      written[(request.tx[1] + i - 2) % Registers] = request.tx[i]

(* Nothing is stored past the caller's buffer: rx_read_available is called *)
(* with no limit (altera_avalon_i2c.c:829) and trusts the FIFO to hold no  *)
(* more than was asked for.                                                *)
WithinBuffer == Len(buffer) <= request.rx

(* With no other master a call fails only when the chip has refused every  *)
(* one of its tries: it never returns the TIMEOUT of a loop of polls       *)
(* (altera_avalon_i2c.c:843, :860), and a refusal is retried, as           *)
(* altera_avalon_i2c.h:652 says.                                           *)
OnlyRefusalsFail ==
  pc = "idle" /\ status # Success => status = "NACK_ERR" /\ nacks >= Tries

(* Between calls the IP is disabled: alt_avalon_i2c_enable never answers   *)
(* BUSY to the next one, whatever the call met.                            *)
Released == pc \in {"idle", "enable"} => ~ctrl_en

(* Between calls nothing is left for the next one: no command queued, no   *)
(* byte unread, the bus free and the machine back to its idle states.      *)
LeftClean ==
  pc = "idle" =>
    /\ txfifo = <<>> /\ rxfifo = <<>>
    /\ bus = "idle" /\ ~Busy /\ ~sent_7bit_addr

(* An attempt another master won is not the last word: the call is retried *)
(* until the tries run out, as altera_avalon_i2c.h:652 says of all three   *)
(* calls.  The transaction ends with a check of NACK_DET and none of       *)
(* ARBLOST_DET (altera_avalon_i2c.c:681 and 864).                          *)
LossIsRetried ==
  pc = "idle" /\ arblost_det => status = "ARB_LOST_ERR" /\ retry = 0
=============================================================================
