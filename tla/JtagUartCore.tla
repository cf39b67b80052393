---------------------------- MODULE JtagUartCore ----------------------------
(***************************************************************************)
(* The JTAG UART of the Nios design, altera_avalon_jtag_uart.sv: a FIFO    *)
(* towards the host, a FIFO from it, two interrupt enables, and the bit    *)
(* that says the host has been seen.                                       *)
(*                                                                         *)
(* The host on the other end of the cable is the environment.  Characters  *)
(* are numbered in the order they enter, so that a character lost,         *)
(* repeated or overtaken shows.                                            *)
(***************************************************************************)
EXTENDS Integers, Sequences

CONSTANTS
  FifoDepth,    (* entries of each FIFO, 64 in the design                  *)
  Threshold,    (* writeIRQThreshold, readIRQThreshold: 8                  *)
  Loads         (* bounds: [in, out], the most characters typed, written   *)

ASSUME CoreAssumption ==
  /\ FifoDepth \in Nat \ {0}
  /\ Threshold \in 0 .. FifoDepth - 1
  /\ Loads \subseteq [in : Nat, out : Nat]

VARIABLES
  wfifo,        (* to the host                                             *)
  rfifo,        (* from the host                                           *)
  ien_AE,       (* interrupt enables, CONTROL.WE                           *)
  ien_AF,       (* and CONTROL.RE                                          *)
  pause_irq,    (* the host paused with characters in rfifo                *)
  ac,           (* host activity since software cleared the bit            *)
  connected,    (* environment: a terminal is attached                     *)
  shown,        (* history: characters the host took                       *)
  typed,        (* history: characters the host sent                       *)
  load          (* the bound of this behaviour                             *)

coreVars == <<wfifo, rfifo, ien_AE, ien_AF, pause_irq, ac, connected, shown,
              typed, load>>

CoreInit ==
  /\ wfifo = <<>> /\ rfifo = <<>>
  /\ ien_AE = FALSE /\ ien_AF = FALSE
  /\ pause_irq = FALSE /\ ac = FALSE
  /\ connected \in BOOLEAN
  /\ shown = 0 /\ typed = 0
  /\ load \in Loads

ipen_AE == ien_AE /\ Len(wfifo) <= Threshold
ipen_AF == ien_AF /\ (pause_irq \/ FifoDepth - Len(rfifo) <= Threshold)
av_irq  == ipen_AE \/ ipen_AF

-----------------------------------------------------------------------------
(* Register accesses by software.                                          *)

(* Writing CONTROL: the two enables, and AC is cleared when asked.         *)
WriteControl(re, we, clearAc) ==
  /\ ien_AF' = re /\ ien_AE' = we
  /\ ac' = (ac /\ ~clearAc)
  /\ UNCHANGED <<wfifo, rfifo, pause_irq, connected, shown, typed, load>>

(* Writing DATA: a character for which there is no room is dropped.        *)
PushData(c) ==
  /\ wfifo' = IF Len(wfifo) < FifoDepth THEN Append(wfifo, c) ELSE wfifo
  /\ UNCHANGED <<rfifo, ien_AE, ien_AF, pause_irq, ac, connected, shown, typed, load>>

(* Reading DATA takes a character if there is one. *)
PopData ==
  /\ rfifo' = IF rfifo = <<>> THEN rfifo ELSE Tail(rfifo)
  /\ pause_irq' = FALSE
  /\ UNCHANGED <<wfifo, ien_AE, ien_AF, ac, connected, shown, typed, load>>

-----------------------------------------------------------------------------
(* The host.                                                               *)

(* rd_wfifo *)
HostTake ==
  /\ connected /\ wfifo # <<>>
  /\ shown' = Head(wfifo) /\ wfifo' = Tail(wfifo)
  /\ UNCHANGED <<rfifo, ien_AE, ien_AF, pause_irq, ac, connected, typed, load>>

(* wr_rfifo: the host sees t_dav and never sends into a full FIFO. *)
HostType ==
  /\ connected /\ Len(rfifo) < FifoDepth /\ typed < load.in
  /\ typed' = typed + 1 /\ rfifo' = Append(rfifo, typed')
  /\ ac' = TRUE
  /\ UNCHANGED <<wfifo, ien_AE, ien_AF, pause_irq, connected, shown, load>>

(* t_pause: the terminal looks at the UART and has nothing more to send. *)
HostPause ==
  /\ connected
  /\ ac' = TRUE
  /\ pause_irq' = (pause_irq \/ rfifo # <<>>)
  /\ UNCHANGED <<wfifo, rfifo, ien_AE, ien_AF, connected, shown, typed, load>>

(* The terminal is started or stopped. *)
HostPlugs ==
  /\ connected' = ~connected
  /\ UNCHANGED <<wfifo, rfifo, ien_AE, ien_AF, pause_irq, ac, shown, typed, load>>
=============================================================================
