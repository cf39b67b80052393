------------------------------ MODULE JtagUart ------------------------------
(***************************************************************************)
(* The interrupt-driven JTAG UART driver: altera_avalon_jtag_uart_write.c, *)
(* _read.c, _init.c and _ioctl.c, and its place in alt_sys_init.c.         *)
(*                                                                         *)
(* Three threads of control share one state structure.  The caller of      *)
(* write, read, close and ioctl is interrupted between any two steps by    *)
(* the interrupt routine of the UART and by the alarm of the system clock, *)
(* which do not interrupt each other or themselves.  A step of the caller  *)
(* or of the interrupt routine ends where it next looks at something       *)
(* another one changes: an index of a ring, host_inactive, a register of   *)
(* the UART.  The program is compiled without optimisation, so accesses    *)
(* come in the order of the source.                                        *)
(***************************************************************************)
EXTENDS JtagUartCore

CONSTANTS
  BUF_LEN,      (* ALTERA_AVALON_JTAG_UART_BUF_LEN, 2048                   *)
  INT_MAX,
  DefaultTimeout,  (* ALTERA_AVALON_JTAG_UART_DEFAULT_TIMEOUT, 10          *)
  TickRates,    (* what _alt_tick_rate may hold when the driver starts     *)
  Timeouts,     (* arguments of TIOCSTIMEOUT                               *)
  Counts        (* numbers of characters a call asks for                   *)

ASSUME JtagAssumption ==
  /\ BUF_LEN \in Nat /\ BUF_LEN > 1
  /\ DefaultTimeout \in Nat \ {0} /\ INT_MAX \in Nat /\ DefaultTimeout <= INT_MAX - 2
  /\ TickRates \subseteq Nat /\ Timeouts \subseteq Int
  /\ Counts \subseteq Nat \ {0}

VARIABLES
  (* altera_avalon_jtag_uart_state; irq_enable is what ien_AF, ien_AE hold *)
  timeout, host_inactive,
  rx_in, rx_out, rx_buf,
  tx_in, tx_out, tx_buf,
  (* the system clock *)
  _alt_tick_rate,
  alarm,        (* the alarm is in alt_alarm_list                          *)
  (* the caller *)
  pc, in, out, n,
  left,         (* count or space: characters still to move                *)
  moved,        (* ptr - start                                             *)
  nonblock,     (* flags & O_NONBLOCK                                      *)
  result,
  (* the interrupt routine *)
  isr,          (* "off", or the step to come                              *)
  wi, space, ravail,
  (* history *)
  put,          (* characters published in the transmit ring               *)
  got           (* characters read by the caller                           *)

stateVars  == <<timeout, host_inactive, rx_in, rx_out, rx_buf, tx_in, tx_out,
                tx_buf>>
clockVars  == <<_alt_tick_rate, alarm>>
callerVars == <<pc, in, out, n, left, moved, nonblock, result>>
isrVars    == <<isr, wi, space, ravail>>
vars == <<coreVars, stateVars, clockVars, callerVars, isrVars, put, got>>

Index == 0 .. BUF_LEN - 1

Init ==
  /\ CoreInit
  /\ timeout = DefaultTimeout /\ host_inactive = 0
  /\ rx_in = 0 /\ rx_out = 0 /\ tx_in = 0 /\ tx_out = 0
  /\ rx_buf = [i \in Index |-> 0] /\ tx_buf = [i \in Index |-> 0]
  /\ _alt_tick_rate \in TickRates /\ alarm = FALSE
  /\ pc = "sys_init" /\ in = 0 /\ out = 0 /\ n = 0
  /\ left = 0 /\ moved = 0 /\ nonblock = FALSE /\ result = "none"
  /\ isr = "off" /\ wi = FALSE /\ space = 0 /\ ravail = FALSE
  /\ put = 0 /\ got = 0

-----------------------------------------------------------------------------
(* The caller runs when no interrupt routine does. *)
At(step)   == pc = step /\ isr = "off"
Goes(step) == pc' = step

Return(r) == Goes("idle") /\ result' = r /\ in' = 0 /\ out' = 0 /\ n' = 0
             /\ left' = 0 /\ moved' = 0 /\ nonblock' = FALSE

(* alt_sys_init.c:97.  alt_alarm_start fails while there is no tick. *)
InitUart ==
  /\ At("sys_init") /\ Goes("sys_clock")
  /\ WriteControl(TRUE, FALSE, FALSE)
  /\ host_inactive' = 0
  /\ alarm' = (_alt_tick_rate # 0)
  /\ timeout' = IF alarm' THEN timeout ELSE INT_MAX
  /\ UNCHANGED <<rx_in, rx_out, rx_buf, tx_in, tx_out, tx_buf, _alt_tick_rate,
                 in, out, n, left, moved, nonblock, result, isrVars, put, got>>

(* alt_sys_init.c:98, alt_sysclk_init. *)
InitClock ==
  /\ At("sys_clock") /\ Goes("idle")
  /\ _alt_tick_rate' = IF _alt_tick_rate = 0 THEN 1 ELSE _alt_tick_rate
  /\ UNCHANGED <<coreVars, stateVars, alarm, in, out, n, left, moved, nonblock,
                 result, isrVars, put, got>>

-----------------------------------------------------------------------------
(* altera_avalon_jtag_uart_write *)

CallWrite(count, nb) ==
  /\ At("idle") /\ Goes("w_room")
  /\ put + count <= load.out
  /\ left' = count /\ nonblock' = nb /\ result' = "none"
  /\ UNCHANGED <<coreVars, stateVars, clockVars, in, out, n, moved, isrVars, put, got>>

(* Mutant: forgets that a full ring looks like an empty one. *)
Room_Full(i, o) == IF i < o THEN o - 1 - i ELSE BUF_LEN - i

(* The room up to the end of the ring or to out, one place always free. *)
Room(i, o) ==
  IF i < o THEN o - 1 - i
  ELSE IF o > 0 THEN BUF_LEN - i
  ELSE BUF_LEN - 1 - i

AtMost(a, b) == IF a < b THEN a ELSE b

LookForRoom ==
  /\ At("w_room")
  /\ in' = tx_in /\ out' = tx_out
  /\ n' = AtMost(Room(tx_in, tx_out), left)
  /\ Goes(IF n' = 0 THEN "w_kick" ELSE "w_copy")
  /\ UNCHANGED <<coreVars, stateVars, clockVars, left, moved, nonblock, result,
                 isrVars, put, got>>

CopyOut ==
  /\ At("w_copy") /\ Goes("w_publish")
  /\ tx_buf' = [i \in Index |->
                  IF i \in in .. in + n - 1 THEN put + 1 + (i - in) ELSE tx_buf[i]]
  /\ UNCHANGED <<coreVars, timeout, host_inactive, rx_in, rx_out, rx_buf, tx_in,
                 tx_out, clockVars, in, out, n, left, moved, nonblock, result,
                 isrVars, put, got>>

PublishOut ==
  /\ At("w_publish")
  /\ moved' = moved + n /\ left' = left - n
  /\ tx_in' = (in + n) % BUF_LEN
  /\ put' = put + n
  /\ Goes(IF left' > 0 THEN "w_room" ELSE "w_kick")
  /\ UNCHANGED <<coreVars, timeout, host_inactive, rx_in, rx_out, rx_buf, tx_out,
                 tx_buf, clockVars, in, out, n, nonblock, result, isrVars, got>>

WriteResult ==
  IF moved > 0 THEN "count" ELSE IF nonblock THEN "EWOULDBLOCK" ELSE "EIO"

(* Mutant: starts the transmitter only when it will wait for it. *)
KickWriter_WhenFull ==
  /\ At("w_kick")
  /\ WriteControl(ien_AF, ien_AE \/ left > 0, FALSE)
  /\ IF left > 0 /\ ~nonblock
       THEN /\ Goes("w_wait")
            /\ UNCHANGED <<in, out, n, left, moved, nonblock, result>>
       ELSE Return(WriteResult)
  /\ UNCHANGED <<stateVars, clockVars, isrVars, put, got>>

(* Interrupts are disabled: one step. *)
KickWriter ==
  /\ At("w_kick")
  /\ WriteControl(ien_AF, TRUE, FALSE)
  /\ IF left > 0 /\ ~nonblock
       THEN /\ Goes("w_wait")
            /\ UNCHANGED <<in, out, n, left, moved, nonblock, result>>
       ELSE Return(WriteResult)
  /\ UNCHANGED <<stateVars, clockVars, isrVars, put, got>>

(* Mutant: waits for the interrupt routine whatever the host does. *)
AwaitRoom_NoTimeout ==
  /\ At("w_wait") /\ Goes("w_check")
  /\ out # tx_out
  /\ UNCHANGED <<coreVars, stateVars, clockVars, in, out, n, left, moved,
                 nonblock, result, isrVars, put, got>>

AwaitRoom ==
  /\ At("w_wait") /\ Goes("w_check")
  /\ out # tx_out \/ host_inactive >= timeout
  /\ UNCHANGED <<coreVars, stateVars, clockVars, in, out, n, left, moved,
                 nonblock, result, isrVars, put, got>>

CheckHost ==
  /\ At("w_check")
  /\ IF host_inactive # 0
       THEN Return(WriteResult)
       ELSE /\ Goes("w_room")
            /\ UNCHANGED <<in, out, n, left, moved, nonblock, result>>
  /\ UNCHANGED <<coreVars, stateVars, clockVars, isrVars, put, got>>

-----------------------------------------------------------------------------
(* altera_avalon_jtag_uart_read *)

CallRead(count, nb) ==
  /\ At("idle") /\ Goes("r_look")
  /\ left' = count /\ nonblock' = nb /\ result' = "none"
  /\ UNCHANGED <<coreVars, stateVars, clockVars, in, out, n, moved, isrVars, put, got>>

(* What can be read up to the end of the ring. *)
Available(i, o) == IF i >= o THEN i - o ELSE BUF_LEN - o

ReadResult == IF moved > 0 THEN "count" ELSE IF nonblock THEN "EWOULDBLOCK" ELSE "EIO"

LookForData ==
  /\ At("r_look")
  /\ in' = rx_in /\ out' = rx_out
  /\ n' = AtMost(Available(rx_in, rx_out), left)
  /\ Goes(IF n' > 0 THEN "r_copy"
          ELSE IF moved > 0 THEN "r_enable"
          ELSE IF nonblock THEN "r_return" ELSE "r_wait")
  /\ UNCHANGED <<coreVars, stateVars, clockVars, left, moved, nonblock, result,
                 isrVars, put, got>>

(* The bytes go to the caller in order: got counts them only if they are   *)
(* the ones expected next.                                                 *)
CopyIn ==
  /\ At("r_copy") /\ Goes("r_publish")
  /\ got' = IF \A i \in 0 .. n - 1 : rx_buf[out + i] = got + 1 + i
              THEN got + n ELSE -1
  /\ UNCHANGED <<coreVars, stateVars, clockVars, in, out, n, left, moved,
                 nonblock, result, isrVars, put>>

PublishIn ==
  /\ At("r_publish")
  /\ moved' = moved + n /\ left' = left - n
  /\ rx_out' = (out + n) % BUF_LEN
  /\ Goes(IF left' > 0 THEN "r_look" ELSE "r_enable")
  /\ UNCHANGED <<coreVars, timeout, host_inactive, rx_in, rx_buf, tx_in, tx_out,
                 tx_buf, clockVars, in, out, n, nonblock, result, isrVars, put, got>>

AwaitData ==
  /\ At("r_wait") /\ Goes("r_check")
  /\ in # rx_in \/ host_inactive >= timeout
  /\ UNCHANGED <<coreVars, stateVars, clockVars, in, out, n, left, moved,
                 nonblock, result, isrVars, put, got>>

CheckData ==
  /\ At("r_check")
  /\ Goes(IF in = rx_in THEN "r_return" ELSE "r_look")
  /\ UNCHANGED <<coreVars, stateVars, clockVars, in, out, n, left, moved,
                 nonblock, result, isrVars, put, got>>

(* Mutant: leaves receive interrupts as they are. *)
EnableReader_Not ==
  /\ At("r_enable")
  /\ Return(ReadResult)
  /\ UNCHANGED <<coreVars, stateVars, clockVars, isrVars, put, got>>

(* Interrupts are disabled: one step. *)
EnableReader ==
  /\ At("r_enable")
  /\ WriteControl(TRUE, ien_AE, FALSE)
  /\ Return(ReadResult)
  /\ UNCHANGED <<stateVars, clockVars, isrVars, put, got>>

ReturnEmpty ==
  /\ At("r_return")
  /\ Return(ReadResult)
  /\ UNCHANGED <<coreVars, stateVars, clockVars, isrVars, put, got>>

-----------------------------------------------------------------------------
(* altera_avalon_jtag_uart_close and _ioctl *)

CallClose(nb) ==
  /\ At("idle") /\ Goes("c_wait")
  /\ nonblock' = nb /\ result' = "none"
  /\ UNCHANGED <<coreVars, stateVars, clockVars, in, out, n, left, moved, isrVars,
                 put, got>>

AwaitEmpty ==
  /\ At("c_wait")
  /\ \/ /\ tx_out = tx_in \/ host_inactive >= timeout
        /\ Return("closed")
     \/ /\ tx_out # tx_in /\ host_inactive < timeout /\ nonblock
        /\ Return("EWOULDBLOCK")
  /\ UNCHANGED <<coreVars, stateVars, clockVars, isrVars, put, got>>

(* TIOCSTIMEOUT *)
SetTimeout(t) ==
  /\ At("idle") /\ timeout # INT_MAX
  /\ timeout' = IF t >= 2 /\ t < INT_MAX THEN t ELSE INT_MAX - 1
  /\ UNCHANGED <<coreVars, host_inactive, rx_in, rx_out, rx_buf, tx_in, tx_out,
                 tx_buf, clockVars, callerVars, isrVars, put, got>>

CallerStep ==
  \/ InitUart \/ InitClock
  \/ LookForRoom \/ CopyOut \/ PublishOut \/ KickWriter \/ AwaitRoom \/ CheckHost
  \/ LookForData \/ CopyIn \/ PublishIn \/ AwaitData \/ CheckData
  \/ EnableReader \/ ReturnEmpty
  \/ AwaitEmpty

Calls ==
  \/ \E count \in Counts, nb \in BOOLEAN : CallWrite(count, nb) \/ CallRead(count, nb)
  \/ \E nb \in BOOLEAN : CallClose(nb)
  \/ \E t \in Timeouts : SetTimeout(t)

-----------------------------------------------------------------------------
(* altera_avalon_jtag_uart_irq, registered by InitUart *)

Interrupt ==
  /\ isr = "off" /\ pc # "sys_init" /\ av_irq
  /\ isr' = "control"
  /\ UNCHANGED <<coreVars, stateVars, clockVars, callerVars, wi, space, ravail,
                 put, got>>

IsrControl ==
  /\ isr = "control"
  /\ wi' = ipen_AE /\ ravail' = ipen_AF
  /\ space' = IF ipen_AE THEN FifoDepth - Len(wfifo) ELSE 0
  /\ isr' = IF ipen_AF THEN "rx" ELSE IF ipen_AE THEN "tx" ELSE "off"
  /\ UNCHANGED <<coreVars, stateVars, clockVars, callerVars, put, got>>

Next1(i) == (i + 1) % BUF_LEN

(* Mutant: no look at the room in the ring. *)
RxFull_Never == FALSE

RxFull == Next1(rx_in) = rx_out

AfterRx == isr' = IF wi THEN "tx" ELSE "control"

IsrRxChar ==
  /\ isr = "rx" /\ ~RxFull /\ rfifo # <<>>
  /\ PopData
  /\ rx_buf' = [rx_buf EXCEPT ![rx_in] = Head(rfifo)]
  /\ rx_in' = Next1(rx_in)
  /\ ravail' = (Tail(rfifo) # <<>>)
  /\ UNCHANGED <<timeout, host_inactive, rx_out, tx_in, tx_out, tx_buf, clockVars,
                 callerVars, isr, wi, space, put, got>>

IsrRxEmpty ==
  /\ isr = "rx" /\ ~RxFull /\ rfifo = <<>>
  /\ PopData
  /\ ravail' = FALSE
  /\ AfterRx
  /\ UNCHANGED <<stateVars, clockVars, callerVars, wi, space, put, got>>

(* Characters are left in the UART: no more interrupts for them. *)
IsrRxFull ==
  /\ isr = "rx" /\ RxFull
  /\ WriteControl(ien_AF /\ ~ravail, ien_AE, FALSE)
  /\ ravail' = FALSE
  /\ AfterRx
  /\ UNCHANGED <<stateVars, clockVars, callerVars, wi, space, put, got>>

IsrTxChar ==
  /\ isr = "tx" /\ space > 0 /\ tx_out # tx_in
  /\ PushData(tx_buf[tx_out])
  /\ tx_out' = Next1(tx_out)
  /\ space' = space - 1
  /\ UNCHANGED <<timeout, host_inactive, rx_in, rx_out, rx_buf, tx_in, tx_buf,
                 clockVars, callerVars, isr, wi, ravail, put, got>>

(* Mutant: turns the interrupt off although the ring is not empty. *)
IsrTxDone_Always ==
  /\ isr = "tx" /\ (space = 0 \/ tx_out = tx_in)
  /\ WriteControl(ien_AF, FALSE, FALSE)
  /\ isr' = "control" /\ wi' = FALSE /\ space' = 0
  /\ UNCHANGED <<stateVars, clockVars, callerVars, ravail, put, got>>

(* Room in the UART and nothing to send: no more interrupts for it. *)
IsrTxDone ==
  /\ isr = "tx" /\ (space = 0 \/ tx_out = tx_in)
  /\ WriteControl(ien_AF, ien_AE /\ space = 0, FALSE)
  /\ isr' = "control" /\ wi' = FALSE /\ space' = 0
  /\ UNCHANGED <<stateVars, clockVars, callerVars, ravail, put, got>>

IsrStep ==
  \/ Interrupt \/ IsrControl
  \/ IsrRxChar \/ IsrRxEmpty \/ IsrRxFull
  \/ IsrTxChar \/ IsrTxDone

(* altera_avalon_jtag_uart_timeout, by alt_tick *)
Alarm ==
  /\ alarm /\ isr = "off"
  /\ WriteControl(ien_AF, ien_AE, ac)
  /\ host_inactive' = IF ac THEN 0
                      ELSE IF host_inactive < INT_MAX - 2 THEN host_inactive + 1
                      ELSE host_inactive
  /\ UNCHANGED <<timeout, rx_in, rx_out, rx_buf, tx_in, tx_out, tx_buf, clockVars,
                 callerVars, isrVars, put, got>>

Host ==
  /\ HostTake \/ HostType \/ HostPause \/ HostPlugs
  /\ UNCHANGED <<stateVars, clockVars, callerVars, isrVars, put, got>>

Next == CallerStep \/ Calls \/ IsrStep \/ Alarm \/ Host

Spec == Init /\ [][Next]_vars

(***************************************************************************)
(* The processor runs, interrupts are served and the alarm goes off.  A    *)
(* terminal that is attached again and again takes characters and looks at *)
(* the UART; nothing makes anyone attach it or type.                       *)
(***************************************************************************)
FairSpec ==
  /\ Spec
  /\ WF_vars(CallerStep) /\ WF_vars(IsrStep) /\ WF_vars(Alarm)
  /\ SF_vars(HostTake /\ Host) /\ SF_vars(HostPause /\ Host)

-----------------------------------------------------------------------------
Unsent  == [i \in 1 .. (tx_in - tx_out) % BUF_LEN |-> tx_buf[(tx_out + i - 1) % BUF_LEN]]
Unread  == [i \in 1 .. (rx_in - rx_out) % BUF_LEN |-> rx_buf[(rx_out + i - 1) % BUF_LEN]]

Numbers(from, to) == [i \in 1 .. to - from |-> from + i]

JtagTypeOK ==
  /\ Len(wfifo) <= FifoDepth /\ Len(rfifo) <= FifoDepth
  /\ {ien_AE, ien_AF, pause_irq, ac, connected, alarm, nonblock, wi, ravail}
       \subseteq BOOLEAN
  /\ timeout \in 1 .. INT_MAX /\ host_inactive \in 0 .. INT_MAX - 2
  /\ {rx_in, rx_out, tx_in, tx_out, in, out} \subseteq Index
  /\ pc = "w_copy" => in + n <= BUF_LEN
  /\ pc = "r_copy" => out + n <= BUF_LEN
  /\ {n, left, moved} \subseteq Nat
  /\ space \in 0 .. FifoDepth
  /\ shown \in 0 .. put /\ got \in 0 .. typed

(* What write has accepted and the host has not taken is in the ring and   *)
(* the UART, all of it, once, in order (write.c:99-123, init.c:175-185).   *)
TxStream == wfifo \o Unsent = Numbers(shown, put)

(* What the host has sent and read has not returned is in the ring and the *)
(* UART, all of it, once, in order: a full ring overwrites nothing         *)
(* (init.c:138-151, read.c:118-136).  Between its copy and its publication *)
(* of the index, read has taken n characters that are still in the ring.   *)
RxStream ==
  Unread \o rfifo = Numbers(IF pc = "r_publish" THEN got - n ELSE got, typed)

(* Characters wait in the transmit ring only while the write interrupt is  *)
(* on, or while write is about to turn it on: the interrupt routine turns  *)
(* it off when the ring is empty, whatever write did meanwhile             *)
(* (write.c:132-135, init.c:193-197).                                      *)
Kicked ==
  tx_in # tx_out => ien_AE \/ pc \in {"w_room", "w_copy", "w_publish", "w_kick"}

(* The read interrupt is off only while the next read finds something, and *)
(* will then turn it on (init.c:157-163, read.c:184-191).                  *)
Listening ==
  pc # "sys_init" =>
    \/ ien_AF
    \/ rx_in # rx_out
    \/ pc \in {"r_look", "r_copy", "r_publish", "r_enable"} /\ moved > 0

(* The ring, one place of which stays free, and the UART behind it are one *)
(* queue each way: never more characters than fit, none skipped or told    *)
(* twice, none read before it was sent (write.c:99-123, read.c:116-136,    *)
(* init.c:138-185).                                                        *)
Queues == INSTANCE CharacterQueues WITH
            OutRoom <- BUF_LEN - 1 + FifoDepth, InRoom <- BUF_LEN - 1 + FifoDepth
KeepsQueues == Queues!Spec

(* A blocking write or close ends, with or without a terminal, and a read  *)
(* ends once there is something to read, if the time the host may be       *)
(* silent is finite (write.c:179, read.c:169, init.c:254).                 *)
Held == \/ pc \in {"w_room", "w_copy", "w_publish", "w_kick", "w_wait", "w_check",
                   "c_wait"}
        \/ pc \in {"r_look", "r_copy", "r_publish", "r_wait", "r_check", "r_enable",
                   "r_return"} /\ typed > got

CallsReturn == (Held /\ timeout < INT_MAX - 1) ~> (pc = "idle")

(* A write or a close that finds no terminal gives up, as the comment of   *)
(* close says (init.c:250-253).                                            *)
NobodyWaitsForNoHost ==
  (pc \in {"w_wait", "c_wait"}) ~> (pc = "idle")

(* All that write accepted is shown by a terminal that is attached again   *)
(* and again: the interrupt routine and write never both leave the other   *)
(* to start the transmitter (write.c:132-135, init.c:193-197).             *)
AllShown == []<>connected => []<>(shown = put)
=============================================================================
