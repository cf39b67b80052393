--------------------------- MODULE JtagUartProofs ---------------------------
(***************************************************************************)
(* Proofs about JtagUart, for rings and FIFOs of any size and any load:    *)
(* neither direction is left with its interrupt off and work to do.        *)
(***************************************************************************)
EXTENDS JtagUart, SequenceTheorems, TLAPS

USE CoreAssumption, JtagAssumption

(* The indices of the rings, and the caller's copies of them.              *)
Indices ==
  /\ rx_in \in Index /\ rx_out \in Index /\ tx_in \in Index /\ tx_out \in Index
  /\ in \in Index /\ out \in Index
  /\ n \in Nat /\ left \in Nat /\ moved \in Nat

(* While the caller copies and publishes, it moves something, and no more  *)
(* than it was asked to.                                                   *)
Moving ==
  pc \in {"w_copy", "w_publish", "r_copy", "r_publish"} => n > 0 /\ n <= left

(* Nothing is sent before the driver is started.                           *)
Quiet == pc = "sys_init" => tx_in = tx_out

JtagInv == Indices /\ Moving /\ Quiet /\ Kicked /\ Listening

-----------------------------------------------------------------------------
(* An index taken modulo the size of the ring is an index.                 *)
LEMMA Wraps ==
  ASSUME NEW i \in Nat
  PROVE  i % BUF_LEN \in Index
  BY DEF Index

(* The place after an index is an index, and another one: a full ring is   *)
(* not an empty one.                                                       *)
LEMMA NextIsAnother ==
  ASSUME NEW i \in Index
  PROVE  Next1(i) \in Index /\ Next1(i) # i
<1>1. CASE i + 1 < BUF_LEN
  <2>1. (i + 1) % BUF_LEN = i + 1  BY <1>1 DEF Index
  <2> QED BY <1>1, <2>1 DEF Index, Next1
<1>2. CASE i + 1 = BUF_LEN
  <2>1. BUF_LEN % BUF_LEN = 0  OBVIOUS
  <2> QED BY <1>2, <2>1 DEF Index, Next1
<1> QED BY <1>1, <1>2 DEF Index

(* The room in a ring and what a ring holds are not negative.              *)
LEMMA Amounts ==
  ASSUME NEW i \in Index, NEW o \in Index
  PROVE  Room(i, o) \in Nat /\ Available(i, o) \in Nat
  BY DEF Room, Available, Index

LEMMA InitHolds == Init => JtagInv
  BY DEF Init, CoreInit, JtagInv, Indices, Moving, Quiet, Kicked, Listening, Index

-----------------------------------------------------------------------------
(* What the invariant looks at.                                            *)
watched == <<rx_in, rx_out, tx_in, tx_out, in, out, n, left, moved, pc, ien_AE, ien_AF>>

LEMMA UnwatchedKeeps ==
  ASSUME JtagInv, UNCHANGED watched
  PROVE  JtagInv'
  BY DEF watched, JtagInv, Indices, Moving, Quiet, Kicked, Listening

(* The host, the alarm, ioctl, and the interrupt routine when it only      *)
(* looks, change nothing the invariant looks at.                           *)
LEMMA OthersKeep ==
  ASSUME JtagInv,
         \/ Host \/ Alarm \/ Interrupt \/ IsrControl \/ IsrRxEmpty
         \/ \E t \in Timeouts : SetTimeout(t)
  PROVE  JtagInv'
<1> USE DEF stateVars, clockVars, callerVars, isrVars, coreVars, watched
<1>1. CASE Host
  BY <1>1, UnwatchedKeeps DEF Host, HostTake, HostType, HostPause, HostPlugs
<1>2. CASE Alarm
  BY <1>2, UnwatchedKeeps DEF Alarm, WriteControl
<1>3. CASE Interrupt
  BY <1>3, UnwatchedKeeps DEF Interrupt
<1>4. CASE IsrControl
  BY <1>4, UnwatchedKeeps DEF IsrControl
<1>5. CASE IsrRxEmpty
  BY <1>5, UnwatchedKeeps DEF IsrRxEmpty, PopData
<1>6. CASE \E t \in Timeouts : SetTimeout(t)
  BY <1>6, UnwatchedKeeps DEF SetTimeout
<1> QED BY <1>1, <1>2, <1>3, <1>4, <1>5, <1>6

(* The interrupt routine fills the receive ring to one place short of full, *)
(* turns the read interrupt off only for a full ring, and the write        *)
(* interrupt only for an empty one.                                        *)
LEMMA IsrKeeps ==
  ASSUME JtagInv, IsrRxChar \/ IsrRxFull \/ IsrTxChar \/ IsrTxDone
  PROVE  JtagInv'
<1> USE DEF stateVars, clockVars, callerVars, isrVars, coreVars,
            JtagInv, Indices, Moving, Quiet, Kicked, Listening
<1>1. CASE IsrRxChar
  <2>1. Next1(rx_in) \in Index  BY NextIsAnother
  <2>2. rx_in' # rx_out'  BY <1>1 DEF IsrRxChar, RxFull
  <2> QED BY <1>1, <2>1, <2>2 DEF IsrRxChar, PopData
<1>2. CASE IsrRxFull
  <2>1. rx_in # rx_out  BY <1>2, NextIsAnother DEF IsrRxFull, RxFull
  <2> QED BY <1>2, <2>1 DEF IsrRxFull, WriteControl
<1>3. CASE IsrTxChar
  <2>1. Next1(tx_out) \in Index  BY NextIsAnother
  <2> QED BY <1>3, <2>1 DEF IsrTxChar, PushData
<1>4. CASE IsrTxDone
  BY <1>4 DEF IsrTxDone, WriteControl
<1> QED BY <1>1, <1>2, <1>3, <1>4

(* The driver starts with its read interrupt on and nothing to send.       *)
LEMMA StartKeeps ==
  ASSUME JtagInv, InitUart \/ InitClock
  PROVE  JtagInv'
  BY DEF InitUart, InitClock, WriteControl, At, Goes, stateVars, isrVars, coreVars,
         JtagInv, Indices, Moving, Quiet, Kicked, Listening

(* A new call finds the interrupts as the last one left them.              *)
LEMMA CallsKeep ==
  ASSUME JtagInv, NEW count \in Counts, NEW nb \in BOOLEAN,
         CallWrite(count, nb) \/ CallRead(count, nb) \/ CallClose(nb)
  PROVE  JtagInv'
  BY DEF CallWrite, CallRead, CallClose, At, Goes, stateVars, clockVars, isrVars,
         coreVars, JtagInv, Indices, Moving, Quiet, Kicked, Listening

(* write publishes before it turns the write interrupt on, and waits     *)
(* after.                                                                  *)
LEMMA WriteKeeps ==
  ASSUME JtagInv,
         \/ LookForRoom \/ CopyOut \/ PublishOut \/ KickWriter \/ AwaitRoom
         \/ CheckHost
  PROVE  JtagInv'
<1> USE DEF At, Goes, stateVars, clockVars, callerVars, isrVars, coreVars,
            JtagInv, Indices, Moving, Quiet, Kicked, Listening
<1>0. 0 \in Index  BY DEF Index
<1>1. CASE LookForRoom
  <2>1. Room(tx_in, tx_out) \in Nat  BY Amounts
  <2>2. n' \in Nat /\ n' <= left  BY <1>1, <2>1 DEF LookForRoom, AtMost
  <2> QED BY <1>1, <2>2 DEF LookForRoom
<1>2. CASE CopyOut
  BY <1>2 DEF CopyOut
<1>3. CASE PublishOut
  <2>1. in + n \in Nat  BY DEF Index
  <2>2. tx_in' \in Index  BY <1>3, <2>1, Wraps DEF PublishOut
  <2>3. left' \in Nat /\ moved' \in Nat  BY <1>3 DEF PublishOut
  <2> QED BY <1>3, <2>2, <2>3 DEF PublishOut
<1>4. CASE KickWriter
  BY <1>0, <1>4 DEF KickWriter, WriteControl, Return
<1>5. CASE AwaitRoom
  BY <1>5 DEF AwaitRoom
<1>6. CASE CheckHost
  BY <1>0, <1>6 DEF CheckHost, Return
<1> QED BY <1>1, <1>2, <1>3, <1>4, <1>5, <1>6

(* read remembers that it moved something until it has turned the read     *)
(* interrupt on.                                                           *)
LEMMA ReadKeeps ==
  ASSUME JtagInv,
         \/ LookForData \/ CopyIn \/ PublishIn \/ AwaitData \/ CheckData
         \/ EnableReader \/ ReturnEmpty \/ AwaitEmpty
  PROVE  JtagInv'
<1> USE DEF At, Goes, stateVars, clockVars, callerVars, isrVars, coreVars,
            JtagInv, Indices, Moving, Quiet, Kicked, Listening
<1>0. 0 \in Index  BY DEF Index
<1>1. CASE LookForData
  <2>1. Available(rx_in, rx_out) \in Nat  BY Amounts
  <2>2. n' \in Nat /\ n' <= left  BY <1>1, <2>1 DEF LookForData, AtMost
  <2> QED BY <1>1, <2>2 DEF LookForData
<1>2. CASE CopyIn
  BY <1>2 DEF CopyIn
<1>3. CASE PublishIn
  <2>1. out + n \in Nat  BY DEF Index
  <2>2. rx_out' \in Index  BY <1>3, <2>1, Wraps DEF PublishIn
  <2>3. left' \in Nat /\ moved' \in Nat /\ moved' > 0  BY <1>3 DEF PublishIn
  <2> QED BY <1>3, <2>2, <2>3 DEF PublishIn
<1>4. CASE AwaitData
  BY <1>4 DEF AwaitData
<1>5. CASE CheckData
  BY <1>5 DEF CheckData
<1>6. CASE EnableReader
  BY <1>0, <1>6 DEF EnableReader, WriteControl, Return
<1>7. CASE ReturnEmpty
  BY <1>0, <1>7 DEF ReturnEmpty, Return
<1>8. CASE AwaitEmpty
  BY <1>0, <1>8 DEF AwaitEmpty, Return
<1> QED BY <1>1, <1>2, <1>3, <1>4, <1>5, <1>6, <1>7, <1>8

LEMMA NextKeeps ==
  ASSUME JtagInv, [Next]_vars
  PROVE  JtagInv'
<1>1. CASE CallerStep
  BY <1>1, StartKeeps, WriteKeeps, ReadKeeps DEF CallerStep
<1>2. CASE Calls
  <2>1. CASE \E count \in Counts, nb \in BOOLEAN : CallWrite(count, nb) \/ CallRead(count, nb)
    BY <2>1, CallsKeep
  <2>2. CASE \E nb \in BOOLEAN : CallClose(nb)
    BY <2>2 DEF CallClose, At, Goes, stateVars, clockVars, isrVars, coreVars,
                JtagInv, Indices, Moving, Quiet, Kicked, Listening
  <2>3. CASE \E t \in Timeouts : SetTimeout(t)
    BY <2>3, OthersKeep
  <2> QED BY <1>2, <2>1, <2>2, <2>3 DEF Calls
<1>3. CASE IsrStep
  BY <1>3, IsrKeeps, OthersKeep DEF IsrStep
<1>4. CASE Alarm \/ Host
  BY <1>4, OthersKeep
<1>5. CASE UNCHANGED vars
  BY <1>5, UnwatchedKeeps DEF vars, watched, stateVars, callerVars, coreVars
<1> QED BY <1>1, <1>2, <1>3, <1>4, <1>5 DEF Next

(* The inductive invariant holds in every behaviour of the driver.         *)
THEOREM JtagInvariant == Spec => []JtagInv
  BY InitHolds, NextKeeps, PTL DEF Spec

(* Characters wait in the transmit ring only while the write interrupt is  *)
(* on or write is on its way to turn it on (write.c:132-135,               *)
(* init.c:193-197).                                                        *)
THEOREM WriterIsKicked == Spec => []Kicked
  BY JtagInvariant, PTL DEF JtagInv

(* The read interrupt is off only while the next read finds something and  *)
(* turns it on (init.c:157-163, read.c:184-191).                           *)
THEOREM ReaderListens == Spec => []Listening
  BY JtagInvariant, PTL DEF JtagInv

-----------------------------------------------------------------------------
(* The streams.  Places of a ring are told by their distance from its out  *)
(* index, so that a step that moves an index only shifts the distances.    *)
Distance(i, o) == IF i >= o THEN i - o ELSE i - o + BUF_LEN

(* Characters that have left the transmit ring, and that read has taken    *)
(* from the receive ring for good.                                         *)
Sent == shown + Len(wfifo)
Taken == IF pc = "r_publish" THEN got - n ELSE got

StreamTypes ==
  /\ wfifo \in Seq(Int) /\ rfifo \in Seq(Int)
  /\ shown \in Nat /\ put \in Nat /\ typed \in Nat /\ got \in Nat
  /\ rx_buf \in [Index -> Int]
  /\ space \in Nat /\ space + Len(wfifo) <= FifoDepth

TxQueue ==
  /\ put = Sent + Distance(tx_in, tx_out)
  /\ \A i \in 1 .. Len(wfifo) : wfifo[i] = shown + i
  /\ \A i \in Index : Distance(i, tx_out) < Distance(tx_in, tx_out) =>
                        tx_buf[i] = Sent + 1 + Distance(i, tx_out)

(* What write is copying has its place, and is not published yet.          *)
TxCopy ==
  /\ pc \in {"w_copy", "w_publish"} =>
       /\ in = tx_in /\ in + n <= BUF_LEN
       /\ Distance(tx_in, tx_out) + n < BUF_LEN
  /\ pc = "w_publish" =>
       \A i \in Index : i >= in /\ i < in + n => tx_buf[i] = put + 1 + (i - in)

RxQueue ==
  /\ typed = Taken + Distance(rx_in, rx_out) + Len(rfifo)
  /\ \A i \in 1 .. Len(rfifo) : rfifo[i] = typed - Len(rfifo) + i
  /\ \A i \in Index : Distance(i, rx_out) < Distance(rx_in, rx_out) =>
                        rx_buf[i] = Taken + 1 + Distance(i, rx_out)

(* What read is copying stays in the ring until it moves the index.        *)
RxCopy ==
  pc \in {"r_copy", "r_publish"} =>
    /\ out = rx_out /\ out + n <= BUF_LEN
    /\ n <= Distance(rx_in, rx_out)

Streams == StreamTypes /\ TxQueue /\ TxCopy /\ RxQueue /\ RxCopy

-----------------------------------------------------------------------------
(* A distance is less than the ring, and is what the modulus computes.     *)
LEMMA DistanceIsShort ==
  ASSUME NEW i \in Index, NEW o \in Index
  PROVE  Distance(i, o) \in Index
  BY DEF Distance, Index

LEMMA DistanceIsModulus ==
  ASSUME NEW i \in Index, NEW o \in Index
  PROVE  (i - o) % BUF_LEN = Distance(i, o)
  BY DEF Distance, Index

(* Moving an index on by what fits before the end of the ring.             *)
LEMMA Onward ==
  ASSUME NEW i \in Index, NEW m \in Nat, i + m <= BUF_LEN
  PROVE  (i + m) % BUF_LEN = IF i + m = BUF_LEN THEN 0 ELSE i + m
  BY DEF Index

LEMMA NextOne ==
  ASSUME NEW i \in Index
  PROVE  Next1(i) = IF i + 1 = BUF_LEN THEN 0 ELSE i + 1
  BY DEF Index, Next1

LEMMA StreamsStart == Init => Streams
  BY DEF Init, CoreInit, Streams, StreamTypes, TxQueue, TxCopy, RxQueue, RxCopy, Sent, Taken,
         Distance, Index

(* What the transmit side and the receive side look at.                    *)
txWatched == <<wfifo, shown, put, tx_in, tx_out, tx_buf>>
rxWatched == <<rfifo, typed, got, rx_in, rx_out, rx_buf>>

(* A step that leaves the queues alone, and the caller not in the middle   *)
(* of a copy unless it was.                                                *)
LEMMA QueuesKeep ==
  ASSUME Streams, UNCHANGED <<txWatched, rxWatched>>,
         space' \in Nat, space' + Len(wfifo) <= FifoDepth,
         \/ UNCHANGED <<pc, in, out, n>>
         \/ /\ pc # "r_publish"
            /\ pc' \notin {"w_copy", "w_publish", "r_copy", "r_publish"}
  PROVE  Streams'
  BY DEF Streams, StreamTypes, TxQueue, TxCopy, RxQueue, RxCopy, Sent, Taken,
         txWatched, rxWatched

(* The UART and the routine, when no character moves.                      *)
LEMMA OthersKeepStreams ==
  ASSUME Streams,
         \/ Alarm
         \/ (HostPause \/ HostPlugs) /\ Host
         \/ Interrupt \/ IsrControl \/ IsrRxEmpty \/ IsrRxFull \/ IsrTxDone
         \/ InitUart \/ InitClock \/ KickWriter \/ AwaitRoom \/ CheckHost
         \/ AwaitData \/ CheckData \/ EnableReader \/ ReturnEmpty \/ AwaitEmpty
         \/ Calls
  PROVE  Streams'
<1> USE DEF stateVars, clockVars, callerVars, isrVars, coreVars, txWatched,
            rxWatched, WriteControl, At, Goes
<1>0. Len(wfifo) \in Nat /\ space \in Nat /\ space + Len(wfifo) <= FifoDepth
  BY DEF Streams, StreamTypes
<1>1. CASE Alarm
  BY <1>0, <1>1, QueuesKeep DEF Alarm
<1>2. CASE (HostPause \/ HostPlugs) /\ Host
  BY <1>0, <1>2, QueuesKeep DEF Host, HostPause, HostPlugs
<1>3. CASE Interrupt
  BY <1>0, <1>3, QueuesKeep DEF Interrupt
<1>4. CASE IsrControl
  <2>1. space' \in Nat /\ space' + Len(wfifo) <= FifoDepth
    BY <1>0, <1>4 DEF IsrControl
  <2> QED BY <1>4, <2>1, QueuesKeep DEF IsrControl
<1>5. CASE IsrRxEmpty
  BY <1>0, <1>5, QueuesKeep DEF IsrRxEmpty, PopData
<1>6. CASE IsrRxFull
  BY <1>0, <1>6, QueuesKeep DEF IsrRxFull
<1>7. CASE IsrTxDone
  BY <1>0, <1>7, QueuesKeep DEF IsrTxDone
<1>8. CASE InitUart \/ InitClock
  BY <1>0, <1>8, QueuesKeep DEF InitUart, InitClock
<1>9. CASE KickWriter \/ AwaitRoom \/ CheckHost
  BY <1>0, <1>9, QueuesKeep DEF KickWriter, AwaitRoom, CheckHost, Return
<1>10. CASE AwaitData \/ CheckData \/ EnableReader \/ ReturnEmpty \/ AwaitEmpty
  BY <1>0, <1>10, QueuesKeep
     DEF AwaitData, CheckData, EnableReader, ReturnEmpty, AwaitEmpty, Return
<1>11. CASE Calls
  BY <1>0, <1>11, QueuesKeep DEF Calls, CallWrite, CallRead, CallClose, SetTimeout
<1> QED BY <1>1, <1>2, <1>3, <1>4, <1>5, <1>6, <1>7, <1>8, <1>9, <1>10, <1>11

(* The host takes the oldest character, or adds the newest.                *)
LEMMA HostKeepsStreams ==
  ASSUME Streams, JtagInv, (HostTake \/ HostType) /\ Host
  PROVE  Streams'
<1> USE DEF stateVars, clockVars, callerVars, isrVars, coreVars
<1>1. CASE HostTake /\ Host
  <2>1. /\ Head(wfifo) = shown + 1 /\ Tail(wfifo) \in Seq(Int)
        /\ Len(wfifo) \in Nat /\ Len(Tail(wfifo)) = Len(wfifo) - 1
        /\ \A i \in 1 .. Len(Tail(wfifo)) : Tail(wfifo)[i] = wfifo[i + 1]
    BY <1>1 DEF HostTake, Streams, StreamTypes, TxQueue
  <2>2. Sent' = Sent
    BY <1>1, <2>1 DEF HostTake, Host, Sent, Streams, StreamTypes
  <2>3. TxQueue'
    <3>1. \A i \in 1 .. Len(wfifo') : wfifo'[i] = shown' + i
      BY <1>1, <2>1 DEF HostTake, Streams, StreamTypes, TxQueue
    <3> QED BY <1>1, <2>2, <3>1 DEF HostTake, Host, Streams, TxQueue
  <2>4. StreamTypes'
    BY <1>1, <2>1 DEF HostTake, Host, Streams, StreamTypes
  <2> QED BY <1>1, <2>3, <2>4
          DEF HostTake, Host, Streams, TxCopy, RxQueue, RxCopy, Taken
<1>2. CASE HostType /\ Host
  <2>1. /\ Len(rfifo) \in Nat /\ rfifo' \in Seq(Int)
        /\ Len(rfifo') = Len(rfifo) + 1 /\ typed' = typed + 1
        /\ rfifo'[Len(rfifo')] = typed'
        /\ \A i \in 1 .. Len(rfifo) : rfifo'[i] = rfifo[i]
    BY <1>2 DEF HostType, Streams, StreamTypes
  <2>2. RxQueue'
    <3>1. typed \in Nat /\ \A i \in 1 .. Len(rfifo) : rfifo[i] = typed - Len(rfifo) + i
      BY DEF Streams, StreamTypes, RxQueue
    <3>2. ASSUME NEW i \in 1 .. Len(rfifo')
          PROVE  rfifo'[i] = typed' - Len(rfifo') + i
      <4>1. CASE i = Len(rfifo')
        BY <2>1, <3>1, <4>1
      <4>2. CASE i # Len(rfifo')
        <5>1. i \in 1 .. Len(rfifo)  BY <2>1, <4>2
        <5> QED BY <2>1, <3>1, <5>1
      <4> QED BY <4>1, <4>2
    <3>3. rx_in \in Index /\ rx_out \in Index /\ n \in Nat
      BY DEF JtagInv, Indices
    <3>4. Distance(rx_in, rx_out) \in Nat
      BY <3>3, DistanceIsShort DEF Index
    <3>5. Taken \in Int /\ Taken' = Taken
      BY <1>2, <3>3 DEF HostType, Host, Taken, Streams, StreamTypes
    <3>6. typed' = Taken' + Distance(rx_in, rx_out)' + Len(rfifo')
      BY <1>2, <2>1, <3>1, <3>4, <3>5 DEF HostType, Host, Streams, RxQueue, Distance
    <3> QED BY <1>2, <3>2, <3>5, <3>6 DEF HostType, Host, Streams, RxQueue
  <2> QED BY <1>2, <2>1, <2>2
          DEF HostType, Host, Streams, StreamTypes, TxQueue, TxCopy, RxCopy, Sent
<1> QED BY <1>1, <1>2

(* The routine moves the oldest character of the transmit ring behind      *)
(* those in the UART; space says there is room for it.                     *)
LEMMA IsrTxKeepsStreams ==
  ASSUME Streams, JtagInv, IsrTxChar
  PROVE  Streams'
<1> USE DEF stateVars, clockVars, callerVars, isrVars, coreVars
<1>1. tx_in \in Index /\ tx_out \in Index /\ n \in Nat
  BY DEF JtagInv, Indices
<1>2. /\ Len(wfifo) \in Nat /\ Len(wfifo) < FifoDepth /\ space - 1 \in Nat
      /\ wfifo \in Seq(Int) /\ shown \in Nat
  BY DEF IsrTxChar, Streams, StreamTypes
<1>3. tx_out' \in Index /\ tx_out' = IF tx_out + 1 = BUF_LEN THEN 0 ELSE tx_out + 1
  BY <1>1, NextOne, NextIsAnother DEF IsrTxChar
<1>4. /\ Distance(tx_in, tx_out') = Distance(tx_in, tx_out) - 1
      /\ \A i \in Index : i # tx_out => Distance(i, tx_out') = Distance(i, tx_out) - 1
      /\ Distance(tx_out, tx_out) = 0 /\ 0 < Distance(tx_in, tx_out)
      /\ Distance(tx_out, tx_out') = BUF_LEN - 1
  BY <1>1, <1>3 DEF IsrTxChar, Distance, Index
<1>5. tx_buf[tx_out] = Sent + 1 /\ Sent = shown + Len(wfifo)
  <2>1. tx_buf[tx_out] = Sent + 1 + 0
    BY <1>1, <1>4 DEF Streams, TxQueue
  <2> QED BY <1>2, <2>1 DEF Sent
<1>6. /\ wfifo' = Append(wfifo, Sent + 1) /\ wfifo' \in Seq(Int)
      /\ Len(wfifo') = Len(wfifo) + 1
      /\ \A i \in 1 .. Len(wfifo) : wfifo'[i] = wfifo[i]
      /\ wfifo'[Len(wfifo) + 1] = Sent + 1
      /\ Sent' = Sent + 1
  <2>1. wfifo' = Append(wfifo, Sent + 1) /\ shown' = shown
    BY <1>2, <1>5 DEF IsrTxChar, PushData
  <2> QED BY <1>2, <1>5, <2>1 DEF Sent
<1>7. TxQueue'
  <2>1. put' = Sent' + Distance(tx_in, tx_out)'
    <3>1. put = Sent + Distance(tx_in, tx_out) /\ Distance(tx_in, tx_out) \in Nat
      BY <1>1, DistanceIsShort DEF Streams, TxQueue, Index
    <3>2. put' = put /\ Distance(tx_in, tx_out)' = Distance(tx_in, tx_out')
      BY DEF IsrTxChar, Distance
    <3> QED BY <1>2, <1>4, <1>5, <1>6, <3>1, <3>2
  <2>2. \A i \in 1 .. Len(wfifo') : wfifo'[i] = shown' + i
    BY <1>2, <1>5, <1>6 DEF IsrTxChar, PushData, Streams, TxQueue
  <2>3. ASSUME NEW i \in Index, Distance(i, tx_out') < Distance(tx_in, tx_out')
        PROVE  tx_buf[i] = Sent' + 1 + Distance(i, tx_out')
    <3>1. Distance(tx_in, tx_out) \in Index /\ Distance(i, tx_out) \in Index
      BY <1>1, DistanceIsShort
    <3>2. i # tx_out
      BY <1>4, <2>3, <3>1 DEF Index
    <3>3. Distance(i, tx_out') = Distance(i, tx_out) - 1
      BY <1>4, <3>2
    <3>4. Distance(i, tx_out) < Distance(tx_in, tx_out)
      BY <1>4, <2>3, <3>1, <3>3 DEF Index
    <3>5. tx_buf[i] = Sent + 1 + Distance(i, tx_out)
      BY <3>4 DEF Streams, TxQueue
    <3> QED BY <1>2, <1>5, <1>6, <3>1, <3>3, <3>5 DEF Index
  <2>4. tx_in' = tx_in /\ tx_buf' = tx_buf
    BY DEF IsrTxChar
  <2> QED BY <2>1, <2>2, <2>3, <2>4 DEF TxQueue, Distance
<1>8. TxCopy'
  <2>1. Distance(tx_in, tx_out) \in Nat /\ Distance(tx_in, tx_out)' = Distance(tx_in, tx_out) - 1
    BY <1>1, <1>4, DistanceIsShort DEF IsrTxChar, Distance, Index
  <2>2. UNCHANGED <<pc, in, n, tx_in, tx_buf, put>>
    BY DEF IsrTxChar
  <2> QED BY <1>1, <2>1, <2>2 DEF Streams, TxCopy
<1>9. StreamTypes'
  BY <1>2, <1>6 DEF IsrTxChar, PushData, Streams, StreamTypes
<1>10. RxQueue' /\ RxCopy'
  BY DEF IsrTxChar, PushData, Streams, RxQueue, RxCopy, Taken
<1> QED BY <1>7, <1>8, <1>9, <1>10 DEF Streams

(* write copies characters behind those in the ring, and then moves the    *)
(* index past them.                                                        *)
LEMMA WriteKeepsStreams ==
  ASSUME Streams, JtagInv, LookForRoom \/ CopyOut \/ PublishOut
  PROVE  Streams'
<1> USE DEF stateVars, clockVars, callerVars, isrVars, coreVars, At, Goes
<1>1. /\ tx_in \in Index /\ tx_out \in Index /\ in \in Index
      /\ n \in Nat /\ left \in Nat
  BY DEF JtagInv, Indices
<1>2. Len(wfifo) \in Nat /\ shown \in Nat /\ put \in Nat /\ Sent = shown + Len(wfifo)
  BY DEF Streams, StreamTypes, Sent
<1>3. Distance(tx_in, tx_out) \in Nat
  BY <1>1, DistanceIsShort DEF Index
<1>4. CASE LookForRoom
  <2>1. /\ in' = tx_in /\ n' \in Nat
        /\ in' + n' <= BUF_LEN /\ Distance(tx_in, tx_out) + n' < BUF_LEN
    BY <1>1, <1>4 DEF LookForRoom, AtMost, Room, Distance, Index
  <2>2. TxCopy'
    BY <1>4, <2>1 DEF LookForRoom, TxCopy, Distance
  <2> QED BY <1>4, <2>2 DEF LookForRoom, Streams, StreamTypes, TxQueue, RxQueue,
                            RxCopy, Sent, Taken
<1>5. CASE CopyOut
  <2>1. in = tx_in /\ in + n <= BUF_LEN /\ Distance(tx_in, tx_out) + n < BUF_LEN
    BY <1>5 DEF CopyOut, Streams, TxCopy
  <2>2. \A i \in Index : i >= in /\ i < in + n => tx_buf'[i] = put + 1 + (i - in)
    BY <1>1, <1>5 DEF CopyOut, Index
  <2>3. ASSUME NEW i \in Index, Distance(i, tx_out) < Distance(tx_in, tx_out)
        PROVE  tx_buf'[i] = tx_buf[i]
    <3>1. ~(i >= in /\ i < in + n)
      BY <1>1, <2>1, <2>3 DEF Distance, Index
    <3> QED BY <1>1, <1>5, <3>1 DEF CopyOut, Index
  <2>4. TxCopy'
    BY <1>5, <2>1, <2>2 DEF CopyOut, TxCopy, Distance
  <2>5. TxQueue'
    BY <1>5, <2>3 DEF CopyOut, Streams, TxQueue, Sent, Distance
  <2> QED BY <1>5, <2>4, <2>5 DEF CopyOut, Streams, StreamTypes, RxQueue, RxCopy, Taken
<1>6. CASE PublishOut
  <2>1. in = tx_in /\ in + n <= BUF_LEN /\ Distance(tx_in, tx_out) + n < BUF_LEN
    BY <1>6 DEF PublishOut, Streams, TxCopy
  <2>2. tx_in' = IF tx_in + n = BUF_LEN THEN 0 ELSE tx_in + n
    BY <1>1, <1>6, <2>1, Onward DEF PublishOut
  <2>3. Distance(tx_in', tx_out) = Distance(tx_in, tx_out) + n
    BY <1>1, <2>1, <2>2 DEF Distance, Index
  <2>4. ASSUME NEW i \in Index, Distance(i, tx_out) < Distance(tx_in', tx_out)
        PROVE  tx_buf[i] = Sent + 1 + Distance(i, tx_out)
    <3>1. CASE Distance(i, tx_out) < Distance(tx_in, tx_out)
      BY <3>1 DEF Streams, TxQueue
    <3>2. CASE ~(Distance(i, tx_out) < Distance(tx_in, tx_out))
      <4>1. /\ i >= in /\ i < in + n
            /\ Distance(i, tx_out) = Distance(tx_in, tx_out) + (i - in)
        BY <1>1, <2>1, <2>3, <2>4, <3>2 DEF Distance, Index
      <4>2. tx_buf[i] = put + 1 + (i - in)
        BY <1>6, <4>1 DEF PublishOut, Streams, TxCopy
      <4>3. put = Sent + Distance(tx_in, tx_out)
        BY DEF Streams, TxQueue
      <4> QED BY <1>1, <1>2, <1>3, <4>1, <4>2, <4>3 DEF Index
    <3> QED BY <3>1, <3>2
  <2>5. TxQueue'
    <3>1. put' = Sent + Distance(tx_in', tx_out)
      BY <1>1, <1>2, <1>3, <1>6, <2>3 DEF PublishOut, Streams, TxQueue
    <3>2. UNCHANGED <<wfifo, shown, tx_out, tx_buf>>
      BY <1>6 DEF PublishOut
    <3> QED BY <2>4, <3>1, <3>2 DEF Streams, TxQueue, Sent, Distance
  <2>6. put' \in Nat
    BY <1>1, <1>2, <1>6 DEF PublishOut
  <2> QED BY <1>6, <2>5, <2>6 DEF PublishOut, Streams, StreamTypes, TxCopy, RxQueue,
                                  RxCopy, Taken
<1> QED BY <1>4, <1>5, <1>6

(* The routine moves the oldest character of the UART behind those in the  *)
(* receive ring, which is not full.                                        *)
LEMMA IsrRxKeepsStreams ==
  ASSUME Streams, JtagInv, IsrRxChar
  PROVE  Streams'
<1> USE DEF stateVars, clockVars, callerVars, isrVars, coreVars
<1>1. rx_in \in Index /\ rx_out \in Index /\ n \in Nat
  BY DEF JtagInv, Indices
<1>2. /\ rfifo \in Seq(Int) /\ rfifo # <<>> /\ typed \in Nat /\ got \in Nat
      /\ rx_buf \in [Index -> Int]
  BY DEF IsrRxChar, Streams, StreamTypes
<1>3. /\ rfifo' = Tail(rfifo) /\ rfifo' \in Seq(Int)
      /\ Len(rfifo) \in Nat /\ Len(rfifo') = Len(rfifo) - 1
      /\ \A i \in 1 .. Len(rfifo') : rfifo'[i] = rfifo[i + 1]
      /\ Head(rfifo) = typed - Len(rfifo) + 1
  BY <1>2 DEF IsrRxChar, PopData, Streams, RxQueue
<1>4. Taken \in Int /\ Taken' = Taken
  BY <1>1, <1>2 DEF IsrRxChar, PopData, Taken
<1>5. rx_in' \in Index /\ rx_in' = IF rx_in + 1 = BUF_LEN THEN 0 ELSE rx_in + 1
  BY <1>1, NextOne, NextIsAnother DEF IsrRxChar
<1>6. Distance(rx_in, rx_out) \in Nat
  BY <1>1, DistanceIsShort DEF Index
<1>7. Distance(rx_in', rx_out) = Distance(rx_in, rx_out) + 1
  <2>1. rx_in' # rx_out  BY DEF IsrRxChar, RxFull
  <2> QED BY <1>1, <1>5, <2>1 DEF Distance, Index
<1>8. typed = Taken + Distance(rx_in, rx_out) + Len(rfifo)
  BY DEF Streams, RxQueue
<1>9. RxQueue'
  <2>1. UNCHANGED <<typed, rx_out>>
    BY DEF IsrRxChar, PopData
  <2>2. typed = Taken + Distance(rx_in', rx_out) + Len(rfifo')
    BY <1>2, <1>3, <1>4, <1>6, <1>7, <1>8
  <2>3. ASSUME NEW i \in 1 .. Len(rfifo')
        PROVE  rfifo'[i] = typed - Len(rfifo') + i
    <3>1. i + 1 \in 1 .. Len(rfifo)  BY <1>3
    <3>2. rfifo[i + 1] = typed - Len(rfifo) + (i + 1)
      BY <3>1 DEF Streams, RxQueue
    <3> QED BY <1>2, <1>3, <3>2
  <2>4. ASSUME NEW i \in Index, Distance(i, rx_out) < Distance(rx_in', rx_out)
        PROVE  rx_buf'[i] = Taken + 1 + Distance(i, rx_out)
    <3>1. rx_buf' = [rx_buf EXCEPT ![rx_in] = Head(rfifo)]
      BY DEF IsrRxChar
    <3>2. CASE i = rx_in
      BY <1>1, <1>2, <1>3, <1>4, <1>6, <1>8, <3>1, <3>2
    <3>3. CASE i # rx_in
      <4>1. Distance(i, rx_out) < Distance(rx_in, rx_out)
        BY <1>1, <1>7, <2>4, <3>3 DEF Distance, Index
      <4>2. rx_buf[i] = Taken + 1 + Distance(i, rx_out)
        BY <4>1 DEF Streams, RxQueue
      <4> QED BY <1>1, <1>2, <3>1, <3>3, <4>2
    <3> QED BY <3>2, <3>3
  <2> QED BY <1>4, <2>1, <2>2, <2>3, <2>4 DEF RxQueue, Distance
<1>10. RxCopy'
  <2>1. Distance(rx_in, rx_out)' = Distance(rx_in, rx_out) + 1
    BY <1>7 DEF IsrRxChar, Distance
  <2>2. UNCHANGED <<pc, out, n, rx_out>>
    BY DEF IsrRxChar
  <2> QED BY <1>1, <1>6, <2>1, <2>2 DEF Streams, RxCopy
<1>11. StreamTypes'
  <2>1. Head(rfifo) \in Int  BY <1>2, <1>3
  <2>2. rx_buf' \in [Index -> Int]
    BY <1>1, <1>2, <2>1 DEF IsrRxChar
  <2> QED BY <1>3, <2>2 DEF IsrRxChar, PopData, Streams, StreamTypes
<1>12. TxQueue' /\ TxCopy'
  BY DEF IsrRxChar, PopData, Streams, TxQueue, TxCopy, Sent
<1> QED BY <1>9, <1>10, <1>11, <1>12 DEF Streams

(* read copies the oldest characters of the ring, and then moves the index *)
(* past them; the routine only adds to the ring meanwhile.                 *)
(* What read copies are the characters that come next.                     *)
LEMMA CopiedInOrder ==
  ASSUME Streams, JtagInv, CopyIn
  PROVE  got' = got + n /\ n <= Distance(rx_in, rx_out)
<1>1. /\ rx_in \in Index /\ rx_out \in Index /\ out \in Index /\ n \in Nat
      /\ Distance(rx_in, rx_out) \in Nat
  BY DistanceIsShort DEF JtagInv, Indices, Index
<1>2. /\ out = rx_out /\ out + n <= BUF_LEN /\ n <= Distance(rx_in, rx_out)
      /\ Taken = got
  BY DEF CopyIn, At, Streams, RxCopy, Taken
<1>3. ASSUME NEW i \in 0 .. n - 1
      PROVE  rx_buf[out + i] = got + 1 + i
  <2>1. out + i \in Index /\ Distance(out + i, rx_out) = i
    BY <1>1, <1>2 DEF Distance, Index
  <2>2. Distance(out + i, rx_out) < Distance(rx_in, rx_out)
    BY <1>1, <1>2, <2>1
  <2> QED BY <1>2, <2>1, <2>2 DEF Streams, RxQueue
<1> QED BY <1>2, <1>3 DEF CopyIn

LEMMA ReadKeepsStreams ==
  ASSUME Streams, JtagInv, LookForData \/ CopyIn \/ PublishIn
  PROVE  Streams'
<1> USE DEF stateVars, clockVars, callerVars, isrVars, coreVars, At, Goes
<1>1. /\ rx_in \in Index /\ rx_out \in Index /\ out \in Index
      /\ n \in Nat /\ left \in Nat
  BY DEF JtagInv, Indices
<1>2. Len(rfifo) \in Nat /\ typed \in Nat /\ got \in Nat
  BY DEF Streams, StreamTypes
<1>3. Distance(rx_in, rx_out) \in Nat
  BY <1>1, DistanceIsShort DEF Index
<1>4. CASE LookForData
  <2>1. /\ out' = rx_out /\ n' \in Nat
        /\ out' + n' <= BUF_LEN /\ n' <= Distance(rx_in, rx_out)
    BY <1>1, <1>4 DEF LookForData, AtMost, Available, Distance, Index
  <2>2. RxCopy'
    BY <1>4, <2>1 DEF LookForData, RxCopy, Distance
  <2>3. Taken' = Taken
    BY <1>4 DEF LookForData, Taken
  <2> QED BY <1>4, <2>2, <2>3 DEF LookForData, Streams, StreamTypes, TxQueue, TxCopy,
                                  RxQueue, Sent
<1>5. CASE CopyIn
  <2>1. out = rx_out /\ out + n <= BUF_LEN /\ n <= Distance(rx_in, rx_out)
    BY <1>5 DEF CopyIn, Streams, RxCopy
  <2>2. Taken = got
    BY <1>5 DEF CopyIn, Taken
  <2>3. got' = got + n
    BY <1>5, CopiedInOrder
  <2>4. Taken' = Taken
    BY <1>1, <1>2, <1>5, <2>2, <2>3 DEF CopyIn, Taken
  <2>5. RxQueue' /\ RxCopy'
    BY <1>5, <2>1, <2>4 DEF CopyIn, Streams, RxQueue, RxCopy, Distance
  <2>6. StreamTypes'
    BY <1>1, <1>2, <1>5, <2>3 DEF CopyIn, Streams, StreamTypes
  <2> QED BY <1>5, <2>5, <2>6 DEF CopyIn, Streams, TxQueue, TxCopy, Sent
<1>6. CASE PublishIn
  <2>1. out = rx_out /\ out + n <= BUF_LEN /\ n <= Distance(rx_in, rx_out)
    BY <1>6 DEF PublishIn, Streams, RxCopy
  <2>2. /\ rx_out' \in Index
        /\ rx_out' = IF rx_out + n = BUF_LEN THEN 0 ELSE rx_out + n
    <3>1. rx_out' = IF rx_out + n = BUF_LEN THEN 0 ELSE rx_out + n
      BY <1>1, <1>6, <2>1, Onward DEF PublishIn
    <3> QED BY <1>1, <2>1, <3>1 DEF Index
  <2>3. Distance(rx_in, rx_out') = Distance(rx_in, rx_out) - n
    BY <1>1, <2>1, <2>2 DEF Distance, Index
  <2>4. Taken = got - n /\ Taken' = got
    BY <1>6 DEF PublishIn, Taken
  <2>5. ASSUME NEW i \in Index, Distance(i, rx_out') < Distance(rx_in, rx_out')
        PROVE  rx_buf[i] = got + 1 + Distance(i, rx_out')
    <3>1. /\ Distance(i, rx_out) = Distance(i, rx_out') + n
          /\ Distance(i, rx_out) < Distance(rx_in, rx_out)
      BY <1>1, <2>1, <2>2, <2>3, <2>5 DEF Distance, Index
    <3>2. rx_buf[i] = Taken + 1 + Distance(i, rx_out)
      BY <3>1 DEF Streams, RxQueue
    <3>3. Distance(i, rx_out') \in Nat
      BY <2>2, DistanceIsShort DEF Index
    <3> QED BY <1>1, <1>2, <2>4, <3>1, <3>2, <3>3
  <2>6. typed = got + Distance(rx_in, rx_out') + Len(rfifo)
    <3>1. typed = Taken + Distance(rx_in, rx_out) + Len(rfifo)
      BY DEF Streams, RxQueue
    <3> QED BY <1>1, <1>2, <1>3, <2>3, <2>4, <3>1
  <2>7. RxQueue'
    <3>1. UNCHANGED <<rfifo, typed, rx_in, rx_buf>>
      BY <1>6 DEF PublishIn
    <3> QED BY <2>4, <2>5, <2>6, <3>1 DEF Streams, RxQueue, Distance
  <2> QED BY <1>6, <2>7 DEF PublishIn, Streams, StreamTypes, TxQueue, TxCopy, RxCopy,
                            Sent
<1> QED BY <1>4, <1>5, <1>6

LEMMA NextKeepsStreams ==
  ASSUME Streams, JtagInv, [Next]_vars
  PROVE  Streams'
<1>1. CASE CallerStep
  BY <1>1, OthersKeepStreams, WriteKeepsStreams, ReadKeepsStreams DEF CallerStep
<1>2. CASE Calls \/ Alarm
  <2>1. CASE Calls
    BY <2>1, OthersKeepStreams
  <2>2. CASE Alarm
    BY <2>2, OthersKeepStreams
  <2> QED BY <1>2, <2>1, <2>2
<1>3. CASE IsrStep
  BY <1>3, OthersKeepStreams, IsrTxKeepsStreams, IsrRxKeepsStreams DEF IsrStep
<1>4. CASE Host
  BY <1>4, OthersKeepStreams, HostKeepsStreams DEF Host
<1>5. CASE UNCHANGED vars
  BY <1>5, QueuesKeep
     DEF vars, stateVars, callerVars, isrVars, coreVars, txWatched, rxWatched,
         Streams, StreamTypes
<1> QED BY <1>1, <1>2, <1>3, <1>4, <1>5 DEF Next

(* The streams are whole in every behaviour of the driver.                 *)
THEOREM StreamsInvariant == Spec => []Streams
  BY StreamsStart, NextKeepsStreams, JtagInvariant, PTL DEF Spec

-----------------------------------------------------------------------------
(* The k-th character of a ring lies at distance k - 1.                    *)
LEMMA KthPlace ==
  ASSUME NEW i \in Index, NEW o \in Index, NEW k \in 1 .. Distance(i, o)
  PROVE  /\ (o + k - 1) % BUF_LEN \in Index
         /\ Distance((o + k - 1) % BUF_LEN, o) = k - 1
<1>1. k - 1 \in Nat /\ k <= BUF_LEN - 1
  BY DistanceIsShort DEF Index
<1>2. (o + k - 1) % BUF_LEN = IF o + k - 1 < BUF_LEN THEN o + k - 1
                                                     ELSE o + k - 1 - BUF_LEN
  BY <1>1 DEF Index
<1> QED BY <1>1, <1>2 DEF Distance, Index

LEMMA TxStreamIsWhole ==
  ASSUME Streams, JtagInv
  PROVE  TxStream
<1>1. tx_in \in Index /\ tx_out \in Index
  BY DEF JtagInv, Indices
<1> DEFINE m == Distance(tx_in, tx_out)
           U == [i \in 1 .. m |-> tx_buf[(tx_out + i - 1) % BUF_LEN]]
<1>2. m \in Nat /\ Unsent = U
  BY <1>1, DistanceIsShort, DistanceIsModulus DEF Unsent, Index
<1>3. /\ wfifo \in Seq(Int) /\ Len(wfifo) \in Nat /\ shown \in Nat /\ put \in Nat
      /\ put = shown + Len(wfifo) + m
  BY DEF Streams, StreamTypes, TxQueue, Sent
<1>4. ASSUME NEW k \in 1 .. m
      PROVE  U[k] = shown + Len(wfifo) + k
  <2>1. Distance((tx_out + k - 1) % BUF_LEN, tx_out) = k - 1
    BY <1>1, KthPlace
  <2>2. (tx_out + k - 1) % BUF_LEN \in Index
    BY <1>1, KthPlace
  <2>3. k - 1 < m  BY <1>2
  <2>4. tx_buf[(tx_out + k - 1) % BUF_LEN] = Sent + 1 + (k - 1)
    BY <2>1, <2>2, <2>3 DEF Streams, TxQueue
  <2> QED BY <1>2, <1>3, <2>4 DEF Sent
<1>5. U \in Seq(Int) /\ Len(U) = m
  <2>1. \A k \in 1 .. m : U[k] \in Int
    BY <1>2, <1>3, <1>4
  <2>2. U \in [1 .. m -> Int]
    BY <2>1
  <2> QED BY <1>2, <2>2
<1> HIDE DEF U, m
<1>6. /\ wfifo \o U \in Seq(Int) /\ Len(wfifo \o U) = Len(wfifo) + m
      /\ \A i \in 1 .. Len(wfifo) : (wfifo \o U)[i] = wfifo[i]
      /\ \A i \in Len(wfifo) + 1 .. Len(wfifo) + m :
           (wfifo \o U)[i] = U[i - Len(wfifo)]
  BY <1>2, <1>3, <1>5
<1>7. put - shown = Len(wfifo) + m
  BY <1>2, <1>3
<1>8. ASSUME NEW i \in 1 .. Len(wfifo) + m
      PROVE  (wfifo \o U)[i] = shown + i
  <2>1. CASE i <= Len(wfifo)
    BY <1>2, <1>3, <1>6, <2>1 DEF Streams, TxQueue
  <2>2. CASE ~(i <= Len(wfifo))
    <3>1. i - Len(wfifo) \in 1 .. m
      BY <1>2, <1>3, <2>2
    <3> QED BY <1>2, <1>3, <1>4, <1>6, <2>2, <3>1
  <2> QED BY <2>1, <2>2
<1>9. wfifo \o U = [i \in 1 .. Len(wfifo) + m |-> shown + i]
  BY <1>6, <1>8, LenProperties
<1> QED BY <1>2, <1>7, <1>9 DEF TxStream, Numbers

LEMMA RxStreamIsWhole ==
  ASSUME Streams, JtagInv
  PROVE  RxStream
<1>1. rx_in \in Index /\ rx_out \in Index /\ n \in Nat
  BY DEF JtagInv, Indices
<1> DEFINE m == Distance(rx_in, rx_out)
           U == [i \in 1 .. m |-> rx_buf[(rx_out + i - 1) % BUF_LEN]]
<1>2. m \in Nat /\ Unread = U
  BY <1>1, DistanceIsShort, DistanceIsModulus DEF Unread, Index
<1>3. /\ rfifo \in Seq(Int) /\ Len(rfifo) \in Nat /\ typed \in Nat /\ got \in Nat
      /\ Taken \in Int /\ typed = Taken + m + Len(rfifo)
  BY <1>1 DEF Streams, StreamTypes, RxQueue, Taken
<1>4. ASSUME NEW k \in 1 .. m
      PROVE  U[k] = Taken + k
  <2>1. Distance((rx_out + k - 1) % BUF_LEN, rx_out) = k - 1
    BY <1>1, KthPlace
  <2>2. (rx_out + k - 1) % BUF_LEN \in Index
    BY <1>1, KthPlace
  <2>3. k - 1 < m  BY <1>2
  <2>4. rx_buf[(rx_out + k - 1) % BUF_LEN] = Taken + 1 + (k - 1)
    BY <2>1, <2>2, <2>3 DEF Streams, RxQueue
  <2> QED BY <1>2, <1>3, <2>4
<1>5. U \in Seq(Int) /\ Len(U) = m
  <2>1. \A k \in 1 .. m : U[k] \in Int
    BY <1>2, <1>3, <1>4
  <2>2. U \in [1 .. m -> Int]
    BY <2>1
  <2> QED BY <1>2, <2>2
<1> HIDE DEF U, m
<1>6. /\ U \o rfifo \in Seq(Int) /\ Len(U \o rfifo) = m + Len(rfifo)
      /\ \A i \in 1 .. m : (U \o rfifo)[i] = U[i]
      /\ \A i \in m + 1 .. m + Len(rfifo) : (U \o rfifo)[i] = rfifo[i - m]
  BY <1>2, <1>3, <1>5
<1>7. typed - Taken = m + Len(rfifo)
  BY <1>2, <1>3
<1>8. ASSUME NEW i \in 1 .. m + Len(rfifo)
      PROVE  (U \o rfifo)[i] = Taken + i
  <2>1. CASE i <= m
    BY <1>2, <1>3, <1>4, <1>6, <2>1
  <2>2. CASE ~(i <= m)
    <3>1. i - m \in 1 .. Len(rfifo)
      BY <1>2, <1>3, <2>2
    <3>2. rfifo[i - m] = typed - Len(rfifo) + (i - m)
      BY <3>1 DEF Streams, RxQueue
    <3> QED BY <1>2, <1>3, <1>6, <2>2, <3>1, <3>2
  <2> QED BY <2>1, <2>2
<1>9. U \o rfifo = [i \in 1 .. m + Len(rfifo) |-> Taken + i]
  BY <1>6, <1>8, LenProperties
<1> QED BY <1>2, <1>7, <1>9 DEF RxStream, Numbers, Taken

(* Nothing write accepted is lost, repeated or overtaken on its way to the *)
(* host (write.c:99-123, init.c:175-185).                                  *)
THEOREM TxStreamIsKept == Spec => []TxStream
  BY TxStreamIsWhole, JtagInvariant, StreamsInvariant, PTL

(* Nothing the host sent is lost, repeated or overtaken on its way to the  *)
(* caller of read (init.c:138-151, read.c:118-136).                        *)
THEOREM RxStreamIsKept == Spec => []RxStream
  BY RxStreamIsWhole, JtagInvariant, StreamsInvariant, PTL

-----------------------------------------------------------------------------
(* The steps that move the end of a queue, each a step of CharacterQueues. *)
LEMMA PublishAccepts ==
  ASSUME Streams, JtagInv, PublishOut
  PROVE  Queues!Accept
<1>1. /\ n \in Nat /\ n > 0 /\ put \in Nat /\ shown \in Nat
      /\ Len(wfifo) \in Nat /\ Len(wfifo) <= FifoDepth
  BY DEF PublishOut, At, JtagInv, Indices, Moving, Streams, StreamTypes
<1>2. Distance(tx_in, tx_out) \in Nat
  BY DistanceIsShort DEF JtagInv, Indices, Index
<1>3. /\ put = shown + Len(wfifo) + Distance(tx_in, tx_out)
      /\ Distance(tx_in, tx_out) + n <= BUF_LEN - 1
  BY <1>1, <1>2 DEF PublishOut, At, Streams, TxQueue, TxCopy, Sent
<1>4. put' = put + n /\ UNCHANGED <<shown, typed, got>>
  BY DEF PublishOut, coreVars
<1> QED BY <1>1, <1>2, <1>3, <1>4 DEF Queues!Accept

LEMMA TakeShows ==
  ASSUME Streams, JtagInv, HostTake, Host
  PROVE  Queues!Show
<1>1. shown \in Nat /\ put \in Nat /\ Len(wfifo) \in Nat /\ Len(wfifo) > 0
  BY DEF HostTake, Streams, StreamTypes
<1>2. Distance(tx_in, tx_out) \in Nat
  BY DistanceIsShort DEF JtagInv, Indices, Index
<1>3. put = shown + Len(wfifo) + Distance(tx_in, tx_out) /\ wfifo[1] = shown + 1
  BY <1>1 DEF Streams, TxQueue, Sent
<1>4. shown' = wfifo[1] /\ UNCHANGED <<put, typed, got>>
  BY <1>1 DEF HostTake, Host
<1> QED BY <1>1, <1>2, <1>3, <1>4 DEF Queues!Show

LEMMA TypeTypes ==
  ASSUME Streams, JtagInv, HostType, Host
  PROVE  Queues!Type
<1>1. /\ n \in Nat /\ typed \in Nat /\ got \in Nat /\ Len(rfifo) \in Nat
      /\ Len(rfifo) < FifoDepth
  BY DEF HostType, JtagInv, Indices, Streams, StreamTypes
<1>2. Distance(rx_in, rx_out) \in 0 .. BUF_LEN - 1
  BY DistanceIsShort DEF JtagInv, Indices, Index
<1>3. /\ typed = Taken + Distance(rx_in, rx_out) + Len(rfifo)
      /\ Taken \in Int /\ Taken <= got
  BY <1>1 DEF Streams, RxQueue, Taken
<1>4. typed' = typed + 1 /\ UNCHANGED <<put, shown, got>>
  BY DEF HostType, Host
<1> QED BY <1>1, <1>2, <1>3, <1>4 DEF Queues!Type

LEMMA CopyReads ==
  ASSUME Streams, JtagInv, CopyIn
  PROVE  Queues!Read
<1>1. n \in Nat /\ n > 0 /\ got \in Nat /\ typed \in Nat /\ Len(rfifo) \in Nat
  BY DEF CopyIn, At, JtagInv, Indices, Moving, Streams, StreamTypes
<1>2. Distance(rx_in, rx_out) \in Nat
  BY DistanceIsShort DEF JtagInv, Indices, Index
<1>3. typed = got + Distance(rx_in, rx_out) + Len(rfifo)
  BY DEF CopyIn, At, Streams, RxQueue, Taken
<1>4. UNCHANGED <<put, shown, typed>>
  BY DEF CopyIn, coreVars
<1> QED BY <1>1, <1>2, <1>3, <1>4, CopiedInOrder DEF Queues!Read

(* Every other step moves characters within a queue, or none.              *)
LEMMA OthersStutter ==
  ASSUME [Next]_vars, ~PublishOut, ~CopyIn, ~(HostTake /\ Host),
         ~(HostType /\ Host)
  PROVE  UNCHANGED <<put, shown, typed, got>>
<1> USE DEF coreVars, stateVars, clockVars, callerVars, isrVars, WriteControl
<1>1. CASE InitUart \/ InitClock \/ LookForRoom \/ CopyOut \/ KickWriter
           \/ AwaitRoom \/ CheckHost
  BY <1>1 DEF InitUart, InitClock, LookForRoom, CopyOut, KickWriter, AwaitRoom,
       CheckHost
<1>2. CASE LookForData \/ PublishIn \/ AwaitData \/ CheckData \/ EnableReader
           \/ ReturnEmpty \/ AwaitEmpty
  BY <1>2 DEF LookForData, PublishIn, AwaitData, CheckData, EnableReader,
       ReturnEmpty, AwaitEmpty
<1>3. CASE Calls
  BY <1>3 DEF Calls, CallWrite, CallRead, CallClose, SetTimeout
<1>4. CASE IsrStep
  BY <1>4 DEF IsrStep, Interrupt, IsrControl, IsrRxChar, IsrRxEmpty, IsrRxFull,
       IsrTxChar, IsrTxDone, PopData, PushData
<1>5. CASE Alarm
  BY <1>5 DEF Alarm
<1>6. CASE HostPause /\ Host
  BY <1>6 DEF Host, HostPause
<1>7. CASE HostPlugs /\ Host
  BY <1>7 DEF Host, HostPlugs
<1>8. CASE UNCHANGED vars
  BY <1>8 DEF vars
<1> QED BY <1>1, <1>2, <1>3, <1>4, <1>5, <1>6, <1>7, <1>8
        DEF Next, CallerStep, Host

(* Driver and UART implement the two queues: no character is lost, told    *)
(* twice or overtaken at any interleaving, and each way holds a ring less  *)
(* one place and a FIFO, never more (write.c:99-123, read.c:116-136,       *)
(* init.c:138-185).                                                        *)
THEOREM ImplementsQueues == Spec => KeepsQueues
<1>1. Init => Queues!Init
  BY DEF Init, CoreInit, Queues!Init
<1>2. ASSUME Streams, JtagInv, [Next]_vars
      PROVE  [Queues!Next]_<<put, shown, typed, got>>
  <2>1. CASE PublishOut
    BY <1>2, <2>1, PublishAccepts DEF Queues!Next
  <2>2. CASE CopyIn
    BY <1>2, <2>2, CopyReads DEF Queues!Next
  <2>3. CASE HostTake /\ Host
    BY <1>2, <2>3, TakeShows DEF Queues!Next
  <2>4. CASE HostType /\ Host
    BY <1>2, <2>4, TypeTypes DEF Queues!Next
  <2> QED BY <1>2, <2>1, <2>2, <2>3, <2>4, OthersStutter
<1> QED BY <1>1, <1>2, JtagInvariant, StreamsInvariant, PTL
        DEF Spec, KeepsQueues, Queues!Spec, Queues!queueVars
=============================================================================
