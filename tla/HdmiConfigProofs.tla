-------------------------- MODULE HdmiConfigProofs --------------------------
(***************************************************************************)
(* Theorems about HdmiConfig, for every byte width, table and bound.       *)
(***************************************************************************)
EXTENDS HdmiConfigInv, TLAPS

USE ByteBitsAssumption, TargetAssumption, ConfigAssumption

-----------------------------------------------------------------------------
(* Type correctness.  CNT stays in range because a byte is always over at  *)
(* the ninth pulse, bits because the target empties it on the falling edge *)
(* that ends the acknowledge slot.                                         *)

PulseBound == ST \in {1, 2, 3, 4, 30, 31} => CNT < Slots
BitsBound  == SCLO = 0 /\ Receiving => Len(bits) < Slots

TypeInv == TypeOK /\ PulseBound /\ BitsBound

LEMMA ConstantFacts ==
  /\ Slots \in Nat /\ Slots > ByteBits /\ ByteBits \in Nat /\ ByteBits > 0
  /\ 0 \in 0 .. LUT_SIZE - 1
  /\ LUT_DATA[0] \in [register : Byte, value : Byte]
  /\ \A byte \in Byte : Framed(byte) \in [1 .. Slots -> BIT]
  /\ \A a \in [1 .. Slots -> BIT] : Shifted(a) \in [1 .. Slots -> BIT]
<1>1. Slots \in Nat /\ Slots > ByteBits /\ ByteBits \in Nat /\ ByteBits > 0
  BY DEF Slots
<1>2. 0 \in 0 .. LUT_SIZE - 1
  OBVIOUS
<1>3. ASSUME NEW byte \in Byte
      PROVE  Framed(byte) \in [1 .. Slots -> BIT]
  BY <1>1 DEF Framed, Slots, Byte, BIT
<1>4. ASSUME NEW a \in [1 .. Slots -> BIT]
      PROVE  Shifted(a) \in [1 .. Slots -> BIT]
  BY <1>1 DEF Shifted, BIT
<1>. QED
  BY <1>1, <1>2, <1>3, <1>4

(* A full byte of received bits is a byte. *)
LEMMA BitsAreAByte ==
  ASSUME NEW s \in Seq(BIT), Len(s) = ByteBits
  PROVE  s \in Byte
BY DEF Byte

LEMMA NoBits == <<>> \in Seq(BIT) /\ Len(<<>>) = 0
OBVIOUS

LEMMA InitTypeInv == Init => TypeInv
<1>. SUFFICES ASSUME Init PROVE TypeInv
  OBVIOUS
<1>1. WriterTypeOK
  BY ConstantFacts DEF Init, WriterTypeOK, ByteNum, BIT
<1>2. TargetTypeOK
  <2>1. bits \in Seq(BIT) /\ Len(bits) = 0
    BY NoBits DEF Init, TargetInit
  <2>2. refusals \in 0 .. MaxRefusals
    BY DEF Init, TargetInit
  <2>3. Len(bits) \in 0 .. Slots
    BY <2>1, ConstantFacts
  <2>4. regs \in [Byte -> Byte \cup {Unwritten}]
    BY DEF Init, TargetInit
  <2>5. phase \in Phases /\ pull \in BOOLEAN /\ register \in Byte \cup {Unwritten}
    BY DEF Init, TargetInit, Phases
  <2>. QED
    BY <2>1, <2>2, <2>3, <2>4, <2>5 DEF TargetTypeOK
<1>3. TypeOK
  <2>1. LUT_INDEX \in 0 .. LUT_SIZE /\ mSetup_ST \in 0 .. 2 /\ resets \in 0 .. MaxResets
    BY DEF Init
  <2>2. mI2C_GO \in BIT /\ READY \in BIT /\ delivered \in BOOLEAN /\ masked \in BOOLEAN
    BY DEF Init, BIT
  <2>3. mI2C_DATA \in [register : Byte, value : Byte]
    BY ConstantFacts DEF Init
  <2>. QED
    BY <1>1, <1>2, <2>1, <2>2, <2>3 DEF TypeOK
<1>4. PulseBound /\ BitsBound
  BY ConstantFacts DEF Init, TargetInit, PulseBound, BitsBound, Receiving
<1>. QED
  BY <1>3, <1>4 DEF TypeInv

(* One edge of the writer. *)
LEMMA WriterEdgeType ==
  ASSUME TypeInv,
         NEW go \in BIT, NEW address \in Byte, NEW reg \in Byte,
         NEW data \in Byte, NEW sdai \in BIT,
         WriterEdge(go, address, reg, data, sdai)
  PROVE  WriterTypeOK' /\ PulseBound'
<1>. USE ConstantFacts DEF TypeInv, TypeOK, WriterTypeOK, PulseBound, Drive, BIT,
         ByteNum
<1>1. CASE Idle(go)
  BY <1>1 DEF Idle
<1>2. CASE StartBit(address)
  BY <1>2 DEF StartBit
<1>3. CASE ClockLow
  BY <1>3 DEF ClockLow
<1>4. CASE ShiftOut
  <2>1. A[1] \in BIT /\ Shifted(A) \in [1 .. Slots -> BIT]
    OBVIOUS
  <2>. QED
    BY <1>4, <2>1 DEF ShiftOut
<1>5. CASE ClockHigh
  BY <1>5 DEF ClockHigh
<1>6. CASE BitDone
  BY <1>6 DEF BitDone
<1>7. CASE ByteDone(reg, data, sdai)
  BY <1>7 DEF ByteDone
<1>8. CASE StopBit
  BY <1>8 DEF StopBit
<1>9. CASE Finish
  BY <1>9 DEF Finish
<1>10. CASE AwaitGoLow(go)
  BY <1>10 DEF AwaitGoLow
<1>11. CASE Launch
  BY <1>11 DEF Launch
<1>. QED
  BY <1>1, <1>2, <1>3, <1>4, <1>5, <1>6, <1>7, <1>8, <1>9, <1>10, <1>11
     DEF WriterEdge

(* The target's reaction to it. *)
LEMMA TargetStepType ==
  ASSUME TypeInv, WriterTypeOK', TargetStep
  PROVE  TargetTypeOK' /\ BitsBound'
<1>. USE ConstantFacts DEF TypeInv, TypeOK, TargetTypeOK, BitsBound, Receiving, Phases
<1>0. SDAO \in BIT /\ SCLO \in BIT /\ SDAO' \in BIT /\ SCLO' \in BIT
  BY DEF WriterTypeOK
<1>1. CASE StartSeen /\ SeeStart
  <2>1. bits' \in Seq(BIT) /\ Len(bits') = 0
    BY <1>1, NoBits DEF SeeStart
  <2>2. Len(bits') \in 0 .. Slots /\ Len(bits') < Slots
    BY <2>1
  <2>. QED
    BY <1>1, <2>1, <2>2 DEF SeeStart
<1>2. CASE StopSeen /\ SeeStop
  <2>1. bits' \in Seq(BIT) /\ Len(bits') = 0
    BY <1>2, NoBits DEF SeeStop
  <2>2. Len(bits') \in 0 .. Slots /\ Len(bits') < Slots
    BY <2>1
  <2>. QED
    BY <1>2, <2>1, <2>2 DEF SeeStop
<1>3. CASE SCLO = 0 /\ SCLO' = 1 /\ Sample(Line(SDAO'))
  <2>1. Line(SDAO') \in BIT
    BY <1>0 DEF Line, BIT
  <2>. QED
    BY <1>3, <2>1 DEF Sample
<1>4. CASE SCLO = 1 /\ SCLO' = 0 /\ SclFalls
  <2>1. CASE Receiving /\ Len(bits) = ByteBits /\ Accept
    BY <1>4, <2>1, BitsAreAByte DEF Accept
  <2>2. CASE Receiving /\ Len(bits) = ByteBits /\ Refuse
    BY <1>4, <2>2, NoBits DEF Refuse
  <2>3. CASE Receiving /\ Len(bits) = Slots /\ Release
    <3>1. bits' \in Seq(BIT) /\ Len(bits') = 0
      BY <2>3, NoBits DEF Release
    <3>2. Len(bits') \in 0 .. Slots /\ Len(bits') < Slots
      BY <3>1
    <3>3. phase' \in Phases /\ pull' \in BOOLEAN
      BY <2>3 DEF Release
    <3>. QED
      BY <1>4, <2>3, <3>1, <3>2, <3>3 DEF Release
  <2>4. CASE /\ Receiving => Len(bits) \notin {ByteBits, Slots}
             /\ UNCHANGED targetVars
    BY <1>4, <2>4 DEF targetVars
  <2>. QED
    BY <1>4, <2>1, <2>2, <2>3, <2>4 DEF SclFalls
<1>5. CASE SCLO' = SCLO /\ UNCHANGED targetVars
  BY <1>5 DEF targetVars
<1>. QED
  BY <1>1, <1>2, <1>3, <1>4, <1>5 DEF TargetStep

(* The configuration machine. *)
LEMMA ConfigEdgeType ==
  ASSUME TypeInv, NEW txInt \in TxIntLevels, ConfigEdge(txInt)
  PROVE  /\ LUT_INDEX' \in 0 .. LUT_SIZE
         /\ mSetup_ST' \in 0 .. 2
         /\ mI2C_GO' \in BIT /\ READY' \in BIT
         /\ mI2C_DATA' \in [register : Byte, value : Byte]
<1>. USE DEF TypeInv, TypeOK, BIT, Loading
<1>1. CASE Present
  BY <1>1 DEF Present
<1>2. CASE AwaitEnd
  BY <1>2 DEF AwaitEnd
<1>3. CASE NextEntry
  BY <1>3 DEF NextEntry
<1>4. CASE Loaded(txInt)
  BY <1>4 DEF Loaded
<1>. QED
  BY <1>1, <1>2, <1>3, <1>4 DEF ConfigEdge

LEMMA NextTypeInv == TypeInv /\ [Next]_vars => TypeInv'
<1>. SUFFICES ASSUME TypeInv, [Next]_vars PROVE TypeInv'
  OBVIOUS
<1>1. ASSUME NEW txInt \in TxIntLevels, EdgeAt(txInt)
      PROVE  TypeInv'
  <2>1. Line(SDAO) \in BIT /\ mI2C_GO \in BIT
    BY DEF TypeInv, TypeOK, WriterTypeOK, Line, BIT
  <2>2. mI2C_DATA.register \in Byte /\ mI2C_DATA.value \in Byte
    BY DEF TypeInv, TypeOK
  <2>3. WriterTypeOK' /\ PulseBound'
    BY <1>1, <2>1, <2>2, WriterEdgeType DEF EdgeAt
  <2>4. TargetTypeOK' /\ BitsBound'
    BY <1>1, <2>3, TargetStepType DEF EdgeAt
  <2>5. delivered' \in BOOLEAN /\ resets' \in 0 .. MaxResets /\ masked' \in BOOLEAN
    BY <1>1 DEF EdgeAt, RecordHistory, TypeInv, TypeOK
  <2>. QED
    BY <1>1, <2>3, <2>4, <2>5, ConfigEdgeType DEF EdgeAt, TypeInv, TypeOK
<1>2. CASE Reset
  <2>. USE <1>2 DEF Reset, WriterReset, TypeInv, TypeOK
  <2>1. WriterTypeOK' /\ PulseBound'
    BY DEF WriterTypeOK, PulseBound
  <2>2. TargetTypeOK' /\ BitsBound'
    BY DEF TargetTypeOK, BitsBound, Receiving, targetVars
  <2>3. /\ LUT_INDEX' \in 0 .. LUT_SIZE /\ mSetup_ST' \in 0 .. 2
        /\ resets' \in 0 .. MaxResets
        /\ mI2C_GO' \in BIT /\ READY' \in BIT
    BY DEF BIT
  <2>4. mI2C_DATA' \in [register : Byte, value : Byte]
    OBVIOUS
  <2>5. delivered' \in BOOLEAN /\ masked' \in BOOLEAN
    OBVIOUS
  <2>. QED
    BY <2>1, <2>2, <2>3, <2>4, <2>5
<1>3. CASE UNCHANGED vars
  BY <1>3 DEF vars, writerVars, targetVars, configVars, TypeInv, TypeOK,
              WriterTypeOK, TargetTypeOK, PulseBound, BitsBound, Receiving
<1>. QED
  BY <1>1, <1>2, <1>3 DEF Next, Edge

(* Every reachable state is well typed: no counter of the writer or of the *)
(* target leaves its range, whatever the target refuses and whenever the   *)
(* reset is pressed.                                                       *)
THEOREM TypeCorrect == Spec => []TypeOK
<1>1. TypeInv => TypeOK
  BY DEF TypeInv
<1>. QED
  BY <1>1, InitTypeInv, NextTypeInv, PTL DEF Spec
-----------------------------------------------------------------------------
(* Delivery.                                                               *)

LEMMA InitDelivery == Init => DeliveryInv
<1>. SUFFICES ASSUME Init PROVE DeliveryInv
  OBVIOUS
<1>1. ST = 0 /\ LUT_INDEX = 0 /\ mSetup_ST = 0 /\ mI2C_GO = 0 /\ ~pull
  BY DEF Init, TargetInit
<1>. QED
  BY <1>1 DEF DeliveryInv, Handshake, EntryHandshake, Underway, Loading, Levels,
     AckReleased, Framing, InByte, ToSend, Received, Carries, Has, Acknowledged

LEMMA ResetDelivery == TypeInv /\ DeliveryInv /\ Reset => DeliveryInv'
<1>. SUFFICES ASSUME TypeInv, DeliveryInv, Reset PROVE DeliveryInv'
  OBVIOUS
<1>1. ST' = 0 /\ LUT_INDEX' = 0 /\ mSetup_ST' = 0 /\ mI2C_GO' = 0
  BY DEF Reset, WriterReset
<1>2. ~masked' => ~pull'
  BY DEF Reset, targetVars
<1>. QED
  BY <1>1, <1>2 DEF DeliveryInv, Handshake, EntryHandshake, Underway, Loading,
     Levels, AckReleased, Framing, InByte, ToSend, Received, Carries, Has, Acknowledged

(* The handshake of the two machines.                                      *)
LEMMA HandshakeStep ==
  ASSUME TypeInv, DeliveryInv, NEW txInt \in TxIntLevels, EdgeAt(txInt)
  PROVE  (Handshake /\ EntryHandshake)'
<1>. DEFINE go == mI2C_GO
            reg == mI2C_DATA.register
            val == mI2C_DATA.value
            sdai == Line(SDAO)
<1>0. WriterEdge(go, DeviceAddress, reg, val, sdai) /\ ConfigEdge(txInt)
  BY DEF EdgeAt
<1>. USE <1>0 DEF DeliveryInv, TypeInv, TypeOK, WriterTypeOK, Levels, BIT,
         Handshake, EntryHandshake, Underway, Loading,
         ConfigEdge, Present, AwaitEnd, NextEntry, Loaded
<1>1. CASE Idle(go)
  BY <1>1 DEF Idle
<1>2. CASE StartBit(DeviceAddress)
  BY <1>2 DEF StartBit
<1>3. CASE ClockLow
  BY <1>3 DEF ClockLow
<1>4. CASE ShiftOut
  BY <1>4 DEF ShiftOut
<1>5. CASE ClockHigh
  BY <1>5 DEF ClockHigh
<1>6. CASE BitDone
  BY <1>6 DEF BitDone
<1>7. CASE ByteDone(reg, val, sdai)
  BY <1>7 DEF ByteDone
<1>8. CASE StopBit
  BY <1>8 DEF StopBit
<1>9. CASE Finish
  BY <1>9 DEF Finish
<1>10. CASE AwaitGoLow(go)
  BY <1>10 DEF AwaitGoLow
<1>11. CASE Launch
  BY <1>11 DEF Launch
<1>. QED
  BY <1>1, <1>2, <1>3, <1>4, <1>5, <1>6, <1>7, <1>8, <1>9, <1>10, <1>11
     DEF WriterEdge

(* Levels, counters and the released acknowledge slot: the writer alone.   *)
LEMMA LevelsStep ==
  ASSUME TypeInv, DeliveryInv, NEW txInt \in TxIntLevels, EdgeAt(txInt)
  PROVE  Levels' /\ AckReleased'
<1>. DEFINE go == mI2C_GO
            reg == mI2C_DATA.register
            val == mI2C_DATA.value
            sdai == Line(SDAO)
<1>0. WriterEdge(go, DeviceAddress, reg, val, sdai)
  BY DEF EdgeAt
<1>. USE <1>0, ConstantFacts DEF DeliveryInv, TypeInv, TypeOK, WriterTypeOK, PulseBound,
         Levels, AckReleased, Slots, Drive, BIT, ByteNum
<1>1. CASE Idle(go)
  BY <1>1 DEF Idle
<1>2. CASE StartBit(DeviceAddress)
  BY <1>2 DEF StartBit, Framed
<1>3. CASE ClockLow
  BY <1>3 DEF ClockLow
<1>4. CASE ShiftOut
  BY <1>4 DEF ShiftOut, Shifted
<1>5. CASE ClockHigh
  BY <1>5 DEF ClockHigh
<1>6. CASE BitDone
  BY <1>6 DEF BitDone
<1>7. CASE ByteDone(reg, val, sdai)
  BY <1>7 DEF ByteDone, Framed
<1>8. CASE StopBit
  BY <1>8 DEF StopBit
<1>9. CASE Finish
  BY <1>9 DEF Finish
<1>10. CASE AwaitGoLow(go)
  BY <1>10 DEF AwaitGoLow
<1>11. CASE Launch
  BY <1>11 DEF Launch
<1>. QED
  BY <1>1, <1>2, <1>3, <1>4, <1>5, <1>6, <1>7, <1>8, <1>9, <1>10, <1>11
     DEF WriterEdge

(* What the target does, by the way the two lines move.                    *)
LEMMA LinesHeld ==
  ASSUME TypeInv, TargetStep, SCLO' = SCLO, SCLO = 0 \/ SDAO' = SDAO
  PROVE  UNCHANGED targetVars /\ ~StartSeen
<1>1. SCLO \in BIT /\ SCLO' = SCLO
  BY DEF TypeInv, TypeOK, WriterTypeOK
<1>2. CASE SCLO = 0
  BY <1>1, <1>2 DEF TargetStep, StartSeen, StopSeen
<1>3. CASE SCLO = 1 /\ SDAO' = SDAO
  <2>1. Line(SDAO') = Line(SDAO)
    BY <1>3
  <2>. QED
    BY <1>1, <1>3, <2>1 DEF TargetStep, StartSeen, StopSeen
<1>. QED
  BY <1>1, <1>2, <1>3 DEF BIT

LEMMA ClockRises ==
  ASSUME TypeInv, TargetStep, SCLO = 0, SCLO' = 1, SDAO' = SDAO
  PROVE  Sample(Line(SDAO)) /\ ~StartSeen
BY DEF TypeInv, TypeOK, WriterTypeOK, TargetStep, StartSeen, StopSeen, Line, BIT

LEMMA ClockFalls ==
  ASSUME TypeInv, TargetStep, SCLO = 1, SCLO' = 0
  PROVE  SclFalls /\ ~StartSeen
BY DEF TypeInv, TypeOK, WriterTypeOK, TargetStep, StartSeen, StopSeen, Line, BIT

(* The two sides count the same slots.                                     *)
LEMMA FramingStep ==
  ASSUME TypeInv, DeliveryInv, NEW txInt \in TxIntLevels, EdgeAt(txInt)
  PROVE  Framing'
<1>. DEFINE go == mI2C_GO
            reg == mI2C_DATA.register
            val == mI2C_DATA.value
            sdai == Line(SDAO)
<1>0. /\ WriterEdge(go, DeviceAddress, reg, val, sdai)
      /\ TargetStep
      /\ masked' = (masked /\ ~StartSeen)
  BY DEF EdgeAt, RecordHistory
<1>. SUFFICES ASSUME ~masked' PROVE Framing'
  BY DEF Framing
<1>b. ~masked \/ StartSeen
  BY <1>0
<1>c. pull \in BOOLEAN
  BY DEF TypeInv, TypeOK, TargetTypeOK
<1>a. Levels /\ Framing /\ PulseBound /\ AckReleased /\ WriterTypeOK /\ TargetTypeOK
  BY DEF DeliveryInv, TypeInv, TypeOK
<1>1. CASE Idle(go)
  <2>1. SCLO' = 1 /\ SDAO' = 1 /\ ST = 0 /\ ST' \in {0, 30}
    BY <1>1 DEF Idle, Drive
  <2>2. ~masked /\ ~pull
    <3>1. ~StartSeen
      BY <2>1, <1>c DEF StartSeen, Line
    <3>. QED
      BY <1>a, <1>b, <2>1, <3>1 DEF Framing, InByte
  <2>3. ~pull'
    BY <1>0, <2>1, <2>2 DEF TargetStep, SeeStart, SeeStop, Sample, targetVars
  <2>. QED
    BY <2>1, <2>3 DEF Framing, InByte
<1>2. CASE StartBit(DeviceAddress)
  <2>1. ST = 1 /\ SDAO = 1 /\ SCLO = 1 /\ SDAO' = 0 /\ SCLO' = 1
    BY <1>2, <1>a DEF StartBit, Drive, Levels
  <2>2. ~pull
    <3>1. pull => ~StartSeen
      BY DEF StartSeen, Line
    <3>. QED
      BY <1>a, <1>b, <2>1, <3>1 DEF Framing, InByte
  <2>3. SeeStart
    BY <1>0, <2>1, <2>2 DEF TargetStep, StopSeen, Line
  <2>4. ST' = 2 /\ CNT' = 0 /\ BYTE' = 0
    BY <1>2, <1>a DEF StartBit, Levels
  <2>. QED
    BY <2>3, <2>4, NoBits, ConstantFacts
       DEF Framing, InByte, SeeStart, Receiving, AckSlot, PhaseOfByte
<1>3. CASE ClockLow
  <2>1. ST = 2 /\ ST' = 3 /\ CNT' = CNT /\ BYTE' = BYTE /\ ACK_OK' = ACK_OK
    BY <1>3 DEF ClockLow
  <2>2. SDAO' = 0 /\ SCLO' = 0
    BY <1>3 DEF ClockLow, Drive
  <2>3. UNCHANGED targetVars /\ ~masked
    <3>1. CASE SCLO = 0
      BY <1>0, <2>2, <3>1, LinesHeld
    <3>2. CASE SCLO = 1
      <4>1. CNT = 0 /\ SclFalls /\ ~masked
        BY <1>0, <1>a, <2>1, <2>2, <3>2, ClockFalls DEF Levels
      <4>. QED
        BY <1>a, <2>1, <4>1, ConstantFacts
           DEF SclFalls, Framing, InByte, Accept, Refuse, Release
    <3>. QED
      BY <1>a, <3>1, <3>2 DEF WriterTypeOK, BIT
  <2>. QED
    BY <1>a, <2>1, <2>3 DEF Framing, InByte, Receiving, AckSlot, PhaseOfByte, targetVars
<1>4. CASE ShiftOut
  <2>1. /\ ST = 3 /\ ST' = 4 /\ CNT' = CNT /\ BYTE' = BYTE /\ ACK_OK' = ACK_OK
        /\ SCLO' = SCLO /\ SCLO = 0
    BY <1>4, <1>a DEF ShiftOut, Drive, Levels
  <2>2. UNCHANGED targetVars /\ ~masked
    BY <1>0, <2>1, LinesHeld
  <2>. QED
    BY <1>a, <2>1, <2>2 DEF Framing, InByte, Receiving, AckSlot, PhaseOfByte, targetVars
<1>5. CASE ClockHigh
  <2>1. /\ ST = 4 /\ ST' = 5 /\ CNT' = CNT + 1 /\ BYTE' = BYTE /\ ACK_OK' = ACK_OK
        /\ SCLO = 0 /\ SCLO' = 1 /\ SDAO' = SDAO
    BY <1>5, <1>a DEF ClockHigh, Drive, Levels
  <2>2. Sample(Line(SDAO)) /\ ~masked
    BY <1>0, <2>1, ClockRises
  <2>3. Receiving => Len(bits') = Len(bits) + 1
    BY <1>a, <2>2 DEF Sample, TargetTypeOK
  <2>. QED
    BY <1>a, <2>1, <2>2, <2>3, ConstantFacts
       DEF Framing, InByte, Receiving, AckSlot, PhaseOfByte, Sample, WriterTypeOK, Slots
<1>6. CASE BitDone
  <2>1. /\ ST = 5 /\ ST' = 2 /\ CNT' = CNT /\ BYTE' = BYTE /\ ACK_OK' = ACK_OK
        /\ SCLO = 1 /\ SCLO' = 0 /\ CNT # Slots
    BY <1>6, <1>a DEF BitDone, Drive, Levels
  <2>2. SclFalls /\ ~masked
    BY <1>0, <2>1, ClockFalls
  <2>3. CASE Receiving /\ Len(bits) = ByteBits /\ Accept
    BY <1>a, <2>1, <2>2, <2>3
       DEF Framing, InByte, Receiving, AckSlot, PhaseOfByte, Accept
  <2>4. CASE Receiving /\ Len(bits) = ByteBits /\ Refuse
    BY <1>a, <2>1, <2>2, <2>4
       DEF Framing, InByte, Receiving, AckSlot, PhaseOfByte, Refuse
  <2>5. CASE Receiving /\ Len(bits) = Slots /\ Release
    BY <1>a, <2>1, <2>2, <2>5 DEF Framing, InByte
  <2>6. CASE /\ Receiving => Len(bits) \notin {ByteBits, Slots}
             /\ UNCHANGED targetVars
    BY <1>a, <2>1, <2>2, <2>6
       DEF Framing, InByte, Receiving, AckSlot, PhaseOfByte, targetVars
  <2>. QED
    BY <2>2, <2>3, <2>4, <2>5, <2>6 DEF SclFalls
<1>7. CASE ByteDone(reg, val, sdai)
  <2>1. /\ ST = 5 /\ ST' \in {2, 6} /\ SCLO = 1 /\ SCLO' = 0 /\ CNT = Slots
        /\ SDAO = 1 /\ ACK_OK' = IF sdai = 1 THEN 1 ELSE ACK_OK
    BY <1>7, <1>a DEF ByteDone, Drive, Levels, AckReleased
  <2>2. SclFalls /\ ~masked
    BY <1>0, <2>1, ClockFalls
  <2>3. CASE Receiving
    <3>1. /\ Len(bits) = Slots /\ phase = PhaseOfByte
      BY <1>a, <2>1, <2>2, <2>3 DEF Framing, InByte
    <3>2. Release
      BY <2>2, <2>3, <3>1, ConstantFacts DEF SclFalls
    <3>3. CASE BYTE = ByteNum
      <4>1. ST' = 6
        BY <1>7, <3>3 DEF ByteDone
      <4>. QED
        BY <3>1, <3>2, <3>3, <4>1 DEF Framing, InByte, Release, PhaseOfByte, ByteNum
    <3>4. CASE BYTE # ByteNum
      <4>1. ST' = 2 /\ CNT' = 0 /\ BYTE' = BYTE + 1 /\ BYTE \in {0, 1}
        BY <1>7, <1>a, <3>4 DEF ByteDone, WriterTypeOK, ByteNum
      <4>2. bits' = <<>> /\ ~pull' /\ phase' = IF BYTE = 0 THEN "register" ELSE "value"
        BY <3>1, <3>2, <4>1 DEF Release, PhaseOfByte
      <4>. QED
        BY <4>1, <4>2, NoBits, ConstantFacts
           DEF Framing, InByte, AckSlot, PhaseOfByte, Receiving
    <3>. QED
      BY <3>3, <3>4
  <2>4. CASE ~Receiving
    <3>1. UNCHANGED targetVars
      BY <2>2, <2>4 DEF SclFalls
    <3>2. phase = "ignore" /\ ~pull
      BY <1>a, <2>1, <2>2, <2>4 DEF Framing, InByte
    <3>3. ACK_OK' = 1
      BY <2>1, <3>2 DEF Line
    <3>. QED
      BY <2>1, <3>1, <3>2, <3>3 DEF Framing, InByte, Receiving, targetVars
  <2>. QED
    BY <2>3, <2>4
<1>8. CASE StopBit
  <2>1. /\ ST \in 6 .. 8 /\ ST' = ST + 1
        /\ SDAO' = IF ST = 8 THEN 1 ELSE 0
        /\ SCLO' = IF ST = 6 THEN 0 ELSE 1
    BY <1>8 DEF StopBit, Drive
  <2>2. CASE ST = 6
    <3>1. UNCHANGED targetVars /\ ~masked
      BY <1>0, <1>a, <2>1, <2>2, LinesHeld DEF Levels
    <3>. QED
      BY <1>a, <2>1, <2>2, <3>1 DEF Framing, InByte, targetVars
  <2>3. CASE ST = 7
    <3>1. Sample(Line(SDAO)) /\ ~masked
      BY <1>0, <1>a, <2>1, <2>3, ClockRises DEF Levels
    <3>. QED
      BY <1>a, <2>1, <2>3, <3>1 DEF Framing, InByte, Sample
  <2>4. CASE ST = 8
    <3>1. SCLO = 1 /\ SCLO' = 1 /\ SDAO = 0 /\ SDAO' = 1 /\ ST' = 9
      BY <1>a, <2>1, <2>4 DEF Levels
    <3>2. ~StartSeen /\ ~masked
      <4>1. ~StartSeen
        BY <3>1, <1>c DEF StartSeen, Line
      <4>. QED
        BY <1>b, <4>1
    <3>3. ~pull
      BY <1>a, <2>4, <3>2 DEF Framing, InByte
    <3>4. SeeStop
      BY <1>0, <3>1, <3>2, <3>3 DEF TargetStep, Line
    <3>. QED
      BY <3>1, <3>4 DEF Framing, InByte, SeeStop
  <2>. QED
    BY <2>1, <2>2, <2>3, <2>4
<1>9. CASE Finish
  <2>1. ST = 9 /\ ST' = 30 /\ SCLO' = SCLO /\ SDAO' = SDAO
    BY <1>9, <1>a DEF Finish, Drive, Levels
  <2>2. UNCHANGED targetVars /\ ~masked
    BY <1>0, <2>1, LinesHeld
  <2>. QED
    BY <1>a, <2>1, <2>2 DEF Framing, InByte, targetVars
<1>10. CASE AwaitGoLow(go) \/ Launch
  <2>1. /\ ST \in {30, 31} /\ ST' \in {30, 31, 1}
        /\ SCLO' = SCLO /\ SDAO' = SDAO
    BY <1>10 DEF AwaitGoLow, Launch
  <2>2. UNCHANGED targetVars /\ ~masked
    BY <1>0, <2>1, LinesHeld
  <2>. QED
    BY <1>a, <2>1, <2>2 DEF Framing, InByte, targetVars
<1>. QED
  BY <1>0, <1>1, <1>2, <1>3, <1>4, <1>5, <1>6, <1>7, <1>8, <1>9, <1>10 DEF WriterEdge

(* The data presented do not change under a byte that is made from them.   *)
LEMMA SameEntry ==
  ASSUME TypeInv, DeliveryInv, NEW txInt \in TxIntLevels, EdgeAt(txInt),
         Steady', BYTE' # 0
  PROVE  Steady /\ mI2C_DATA' = mI2C_DATA
<1>0. /\ WriterEdge(mI2C_GO, DeviceAddress, mI2C_DATA.register, mI2C_DATA.value,
                    Line(SDAO))
      /\ ConfigEdge(txInt)
  BY DEF EdgeAt
<1>a. ST \in {1, 30, 31} \/ (ST = 2 /\ BYTE = 0) => BYTE' = 0
  BY <1>0 DEF WriterEdge, Idle, StartBit, ClockLow, ShiftOut, ClockHigh,
     BitDone, ByteDone, StopBit, Finish, AwaitGoLow, Launch, DeliveryInv, Levels
<1>1. CASE NextEntry
  BY <1>1, <1>a DEF NextEntry, DeliveryInv, Handshake
<1>2. CASE Present
  <2>1. Underway
    BY <1>2 DEF Present, Steady, Underway, Loading
  <2>2. ST \in {1, 2, 30, 31} /\ (ST = 2 => BYTE = 0)
    BY <1>2, <2>1 DEF Present, DeliveryInv, EntryHandshake
  <2>. QED
    BY <1>a, <2>2
<1>3. CASE AwaitEnd
  BY <1>3 DEF AwaitEnd, Steady, Underway, Loading
<1>4. CASE Loaded(txInt)
  BY <1>4 DEF Loaded, Steady
<1>. QED
  BY <1>0, <1>1, <1>2, <1>3, <1>4 DEF ConfigEdge

(* In the middle of a transfer the entry is still presented.               *)
LEMMA Presented ==
  ASSUME TypeInv, DeliveryInv, Underway, ST \in 3 .. 9
  PROVE  mSetup_ST = 1 /\ mI2C_DATA = LUT_DATA[LUT_INDEX] /\ END_OK = 0
BY DEF TypeInv, TypeOK, DeliveryInv, Handshake, EntryHandshake

(* A slot of a byte under way, whatever entry the byte was made from: it   *)
(* is shifted out and arrives as it was loaded.                            *)
LEMMA SlotSent ==
  ASSUME TypeInv, DeliveryInv, NEW txInt \in TxIntLevels, EdgeAt(txInt),
         BYTE # 0, BYTE' = BYTE, NEW byte \in Byte, Carries(byte)
  PROVE  Carries(byte)'
<1>. DEFINE go == mI2C_GO
            reg == mI2C_DATA.register
            val == mI2C_DATA.value
            sdai == Line(SDAO)
<1>0. WriterEdge(go, DeviceAddress, reg, val, sdai)
  BY DEF EdgeAt
<1>b. Levels /\ PulseBound /\ WriterTypeOK
  BY DEF DeliveryInv, TypeInv, TypeOK
<1>c. CNT \in Nat /\ (ST \in {2, 3, 4} => CNT <= ByteBits)
  BY <1>b, ConstantFacts DEF WriterTypeOK, PulseBound, Slots
<1>1. CASE StartBit(DeviceAddress)
  BY <1>1, <1>b DEF StartBit, Levels
<1>2. CASE ClockLow \/ BitDone
  BY <1>2 DEF ClockLow, BitDone, Carries
<1>3. CASE ShiftOut
  <2>1. ST = 3 /\ ST' = 4 /\ CNT' = CNT /\ SDAO' = A[1] /\ A' = Shifted(A)
    BY <1>3 DEF ShiftOut, Drive
  <2>2. \A i \in 1 .. ByteBits : i > CNT => A[i - CNT] = byte[i]
    BY <2>1 DEF Carries
  <2>3. ASSUME CNT < ByteBits PROVE SDAO' = byte[CNT + 1]
    <3>1. CNT + 1 \in 1 .. ByteBits /\ CNT + 1 > CNT /\ CNT + 1 - CNT = 1
      BY <1>c, <2>3, ConstantFacts
    <3>2. A[CNT + 1 - CNT] = byte[CNT + 1]
      BY <1>c, <2>2, <3>1
    <3>. QED
      BY <2>1, <3>1, <3>2
  <2>4. ASSUME NEW i \in 1 .. ByteBits, i > CNT + 1
        PROVE  A'[i - CNT - 1] = byte[i]
    <3>1. i - CNT - 1 \in 1 .. Slots /\ i - CNT - 1 # Slots /\ i - CNT - 1 + 1 = i - CNT
      BY <1>c, <2>4, ConstantFacts
    <3>2. A'[i - CNT - 1] = A[i - CNT]
      BY <2>1, <3>1 DEF Shifted
    <3>. QED
      BY <1>c, <2>2, <2>4, <3>2
  <2>. QED
    BY <2>1, <2>3, <2>4 DEF Carries
<1>4. CASE ClockHigh
  <2>1. ST = 4 /\ ST' = 5 /\ CNT' = CNT + 1 /\ A' = A
    BY <1>4 DEF ClockHigh
  <2>2. ASSUME NEW i \in 1 .. ByteBits, i > CNT + 1
        PROVE  A[i - (CNT + 1)] = byte[i]
    <3>1. i - (CNT + 1) = i - CNT - 1
      BY <1>c
    <3>. QED
      BY <2>1, <2>2, <3>1 DEF Carries
  <2>. QED
    BY <2>1, <2>2 DEF Carries
<1>5. CASE ByteDone(reg, val, sdai)
  <2>1. ST' = 6
    BY <1>5, <1>b DEF ByteDone, WriterTypeOK, ByteNum
  <2>. QED
    BY <2>1 DEF Carries
<1>6. CASE Idle(go) \/ StopBit \/ Finish \/ AwaitGoLow(go) \/ Launch
  <2>1. ST' \notin 2 .. 5
    BY <1>6 DEF Idle, StopBit, Finish, AwaitGoLow, Launch
  <2>. QED
    BY <2>1 DEF Carries
<1>. QED
  BY <1>0, <1>1, <1>2, <1>3, <1>4, <1>5, <1>6 DEF WriterEdge

(* The next byte is that of the data presented.                            *)
LEMMA ByteLoaded ==
  ASSUME TypeInv, DeliveryInv, NEW txInt \in TxIntLevels, EdgeAt(txInt),
         BYTE' # 0, BYTE' # BYTE
  PROVE  /\ ST = 5 /\ CNT = Slots /\ CNT' = 0 /\ BYTE' = BYTE + 1 /\ BYTE \in {0, 1}
         /\ SCLO = 1 /\ SCLO' = 0
         /\ \A entry \in [register : Byte, value : Byte] :
              entry = mI2C_DATA => Carries(ByteOf(entry))' /\ Has(ByteOf(entry))'
<1>. DEFINE reg == mI2C_DATA.register
            val == mI2C_DATA.value
<1>0. WriterEdge(mI2C_GO, DeviceAddress, reg, val, Line(SDAO))
  BY DEF EdgeAt
<1>b. Levels /\ WriterTypeOK
  BY DEF DeliveryInv, TypeInv, TypeOK
<1>1. ByteDone(reg, val, Line(SDAO))
  BY <1>0 DEF WriterEdge, Idle, StartBit, ClockLow, ShiftOut, ClockHigh, BitDone,
     StopBit, Finish, AwaitGoLow, Launch
<1>2. /\ ST' = 2 /\ CNT' = 0 /\ BYTE' = BYTE + 1 /\ ST = 5 /\ CNT = Slots
      /\ A' = Framed(IF BYTE = 0 THEN reg ELSE val) /\ BYTE \in {0, 1}
  BY <1>1, <1>b DEF ByteDone, WriterTypeOK, ByteNum
<1>3. SCLO = 1 /\ SCLO' = 0
  BY <1>1, <1>2, <1>b DEF ByteDone, Drive, Levels
<1>4. ASSUME NEW entry \in [register : Byte, value : Byte], entry = mI2C_DATA
      PROVE  Carries(ByteOf(entry))' /\ Has(ByteOf(entry))'
  <2>1. A' = Framed(ByteOf(entry)')
    BY <1>2, <1>4 DEF ByteOf
  <2>2. \A i \in 1 .. ByteBits : A'[i - 0] = ByteOf(entry)'[i]
    BY <2>1, ConstantFacts DEF Framed
  <2>3. \A i \in 1 .. ByteBits : ~(i <= 0)
    OBVIOUS
  <2>. QED
    BY <1>2, <2>2, <2>3 DEF Carries, Has
<1>. QED
  BY <1>2, <1>3, <1>4

LEMMA BytesOfEntries ==
  ASSUME TypeInv, NEW entry \in [register : Byte, value : Byte]
  PROVE  ByteOf(entry) \in Byte
BY DEF ByteOf

LEMMA ToSendStep ==
  ASSUME TypeInv, DeliveryInv, NEW txInt \in TxIntLevels, EdgeAt(txInt)
  PROVE  ToSend'
<1>. SUFFICES ASSUME Steady', BYTE' # 0 PROVE Carries(ByteOf(mI2C_DATA))'
  BY DEF ToSend
<1>. DEFINE entry == mI2C_DATA
<1>1. Steady /\ mI2C_DATA' = mI2C_DATA
  BY SameEntry
<1>2. mI2C_DATA \in [register : Byte, value : Byte]
  BY DEF TypeInv, TypeOK
<1>3. ASSUME NEW d \in [register : Byte, value : Byte], d = mI2C_DATA
      PROVE  Carries(ByteOf(d))'
  <2>1. CASE BYTE' = BYTE
    <3>1. Carries(ByteOf(d))
      BY <1>1, <1>3, <2>1 DEF DeliveryInv, ToSend
    <3>2. ByteOf(d) \in Byte
      BY BytesOfEntries
    <3>3. ASSUME NEW b \in Byte, b = ByteOf(d)
          PROVE  Carries(b)' /\ ByteOf(d)' = b
      <4>1. Carries(b)'
        BY <2>1, <3>1, <3>3, SlotSent
      <4>. QED
        BY <2>1, <3>3, <4>1 DEF ByteOf
    <3>. QED
      BY <3>2, <3>3 DEF Carries
  <2>2. CASE BYTE' # BYTE
    BY <1>3, <2>2, ByteLoaded
  <2>. QED
    BY <2>1, <2>2
<1>. QED
  BY <1>1, <1>2, <1>3 DEF Carries, ByteOf

(* No START is seen in a byte, so none begins to be received.              *)
LEMMA NoStartInByte ==
  ASSUME TypeInv, DeliveryInv, NEW txInt \in TxIntLevels, EdgeAt(txInt),
         BYTE' # 0, InByte'
  PROVE  ~StartSeen /\ InByte /\ (Receiving' => Receiving)
<1>. DEFINE reg == mI2C_DATA.register
            val == mI2C_DATA.value
<1>0. WriterEdge(mI2C_GO, DeviceAddress, reg, val, Line(SDAO)) /\ TargetStep
  BY DEF EdgeAt
<1>b. Levels /\ WriterTypeOK
  BY DEF DeliveryInv, TypeInv, TypeOK
<1>1. ClockLow \/ ShiftOut \/ ClockHigh \/ BitDone \/ ByteDone(reg, val, Line(SDAO))
  BY <1>0, <1>b DEF WriterEdge, Idle, StartBit, StopBit, Finish, AwaitGoLow, Launch,
     Levels, InByte
<1>2. ST \in 2 .. 5 /\ (SCLO' = 0 \/ SCLO = 0)
  BY <1>1, <1>b DEF ClockLow, ShiftOut, ClockHigh, BitDone, ByteDone, Drive, Levels,
     WriterTypeOK, BIT
<1>3. ~StartSeen /\ InByte
  BY <1>2 DEF StartSeen, InByte
<1>4. Receiving' => Receiving
  BY <1>0, <1>3 DEF TargetStep, SeeStop, Sample, SclFalls, Accept, Refuse, Release,
     targetVars, Receiving
<1>. QED
  BY <1>3, <1>4

(* The target's half of a slot: a bit arrives, or the whole byte is taken. *)
LEMMA SlotReceived ==
  ASSUME TypeInv, DeliveryInv, ~masked, NEW txInt \in TxIntLevels, EdgeAt(txInt),
         BYTE # 0, BYTE' = BYTE, InByte', Receiving',
         NEW byte \in Byte, Carries(byte), Has(byte)
  PROVE  /\ Has(byte)' /\ phase' = phase /\ phase = PhaseOfByte
         /\ \/ UNCHANGED <<register, regs, pull>>
            \/ /\ ~pull /\ pull' /\ bits = byte
               /\ register' = IF phase = "register" THEN byte ELSE register
               /\ regs' = IF phase = "value" THEN [regs EXCEPT ![register] = byte]
                          ELSE regs
<1>. DEFINE reg == mI2C_DATA.register
            val == mI2C_DATA.value
            sdai == Line(SDAO)
<1>0. WriterEdge(mI2C_GO, DeviceAddress, reg, val, sdai) /\ TargetStep
  BY DEF EdgeAt
<1>b. Levels /\ Framing /\ PulseBound /\ WriterTypeOK /\ TargetTypeOK
  BY DEF DeliveryInv, TypeInv, TypeOK
<1>c. InByte /\ ST' \in 2 .. 5 /\ Receiving
  BY NoStartInByte DEF InByte
<1>1. CASE ClockLow \/ ShiftOut
  <2>1. CNT' = CNT /\ SCLO' = SCLO /\ SCLO = 0
    BY <1>1, <1>b DEF ClockLow, ShiftOut, Drive, Levels, WriterTypeOK, BIT
  <2>2. UNCHANGED targetVars
    BY <1>0, <2>1, LinesHeld
  <2>3. Receiving
    BY <2>2 DEF targetVars, Receiving
  <2>. QED
    BY <1>b, <1>c, <2>1, <2>2, <2>3 DEF Has, targetVars, Framing
<1>2. CASE ClockHigh
  <2>1. /\ ST = 4 /\ ST' = 5 /\ CNT' = CNT + 1
        /\ SCLO = 0 /\ SCLO' = 1 /\ SDAO' = SDAO
    BY <1>2, <1>b DEF ClockHigh, Drive, Levels
  <2>2. Sample(Line(SDAO))
    BY <1>0, <2>1, ClockRises
  <2>3. Receiving /\ Len(bits) = CNT /\ (pull <=> CNT = ByteBits) /\ phase = PhaseOfByte
    BY <1>b, <1>c, <2>1, <2>2 DEF Sample, Receiving, Framing, AckSlot
  <2>4. bits' = Append(bits, Line(SDAO)) /\ bits \in Seq(BIT)
    BY <1>b, <2>2, <2>3 DEF Sample, TargetTypeOK
  <2>5. ASSUME NEW i \in 1 .. ByteBits, i <= CNT'
        PROVE  bits'[i] = byte[i]
    <3>1. CASE i <= CNT
      BY <2>3, <2>4, <3>1 DEF Has
    <3>2. CASE i = CNT + 1
      <4>1. bits'[i] = Line(SDAO)
        BY <2>3, <2>4, <3>2
      <4>2. CNT < ByteBits /\ Line(SDAO) = SDAO
        BY <1>b, <2>3, <3>2, ConstantFacts DEF Line, WriterTypeOK
      <4>. QED
        BY <2>1, <3>2, <4>1, <4>2 DEF Carries
    <3>. QED
      BY <1>b, <2>1, <2>5, <3>1, <3>2, ConstantFacts DEF WriterTypeOK
  <2>. QED
    BY <2>2, <2>3, <2>5 DEF Has, Sample
<1>3. CASE BitDone
  <2>1. ST = 5 /\ CNT' = CNT /\ SCLO = 1 /\ SCLO' = 0 /\ CNT # Slots
    BY <1>3, <1>b DEF BitDone, Drive, Levels
  <2>2. SclFalls
    BY <1>0, <2>1, ClockFalls
  <2>3. CASE Receiving /\ Len(bits) = ByteBits /\ Accept
    <3>1. CNT = ByteBits /\ ~pull /\ phase = PhaseOfByte
      BY <1>b, <1>c, <2>1, <2>3, ConstantFacts DEF Framing, AckSlot
    <3>2. \A i \in 1 .. ByteBits : bits[i] = byte[i]
      BY <2>3, <3>1, ConstantFacts DEF Has
    <3>3. bits \in [1 .. ByteBits -> BIT] /\ byte \in [1 .. ByteBits -> BIT]
      BY <1>b, <2>3, BitsAreAByte DEF Byte, TargetTypeOK
    <3>4. bits = byte
      BY <3>2, <3>3
    <3>. QED
      BY <2>1, <2>3, <3>1, <3>4 DEF Accept, Has
  <2>4. CASE Receiving /\ Len(bits) = ByteBits /\ Refuse
    BY <2>4 DEF Refuse, Receiving
  <2>5. CASE Receiving /\ Len(bits) = Slots /\ Release
    BY <1>b, <1>c, <2>1, <2>5 DEF Framing
  <2>6. CASE UNCHANGED targetVars
    <3>1. Receiving
      BY <2>6 DEF targetVars, Receiving
    <3>. QED
      BY <1>b, <1>c, <2>1, <2>6, <3>1 DEF Has, targetVars, Framing
  <2>. QED
    BY <2>2, <2>3, <2>4, <2>5, <2>6 DEF SclFalls
<1>. QED
  BY <1>0, <1>1, <1>2, <1>3, <1>b, <1>c DEF WriterEdge, Idle, StartBit, ByteDone, StopBit,
     Finish, AwaitGoLow, Launch, InByte, WriterTypeOK, ByteNum

(* Between two bytes the target releases SDA and keeps what it took.       *)
LEMMA ByteTaken ==
  ASSUME TypeInv, DeliveryInv, ~masked, NEW txInt \in TxIntLevels, EdgeAt(txInt),
         BYTE' # 0, BYTE' # BYTE, Receiving'
  PROVE  /\ phase = PhaseOfByte /\ pull /\ ~pull'
         /\ phase' = (IF BYTE = 0 THEN "register" ELSE "value")
         /\ register' = register /\ regs' = regs
<1>1. ST = 5 /\ CNT = Slots /\ BYTE \in {0, 1} /\ SCLO = 1 /\ SCLO' = 0
  BY ByteLoaded
<1>2. SclFalls
  BY <1>1, ClockFalls DEF EdgeAt
<1>3. Receiving
  BY <1>2 DEF SclFalls, targetVars, Receiving
<1>4. Len(bits) = Slots /\ phase = PhaseOfByte /\ pull
  BY <1>1, <1>3 DEF DeliveryInv, Framing, InByte, AckSlot
<1>5. Release
  BY <1>2, <1>3, <1>4, ConstantFacts DEF SclFalls
<1>. QED
  BY <1>1, <1>3, <1>4, <1>5 DEF Release, PhaseOfByte, InByte

LEMMA ReceivedStep ==
  ASSUME TypeInv, DeliveryInv, NEW txInt \in TxIntLevels, EdgeAt(txInt)
  PROVE  Received'
<1>. SUFFICES ASSUME ~masked', Steady', BYTE' # 0, InByte', Receiving'
              PROVE  /\ Has(ByteOf(mI2C_DATA))'
                     /\ phase' = "value" \/ pull' => register' = mI2C_DATA'.register
  BY DEF Received
<1>1. Steady /\ mI2C_DATA' = mI2C_DATA /\ ~masked /\ InByte /\ Receiving
  BY SameEntry, NoStartInByte DEF EdgeAt, RecordHistory
<1>2. mI2C_DATA \in [register : Byte, value : Byte]
  BY DEF TypeInv, TypeOK
<1>3. ASSUME NEW d \in [register : Byte, value : Byte], d = mI2C_DATA
      PROVE  /\ Has(ByteOf(d))'
             /\ phase' = "value" \/ pull' => register' = d.register
  <2>1. CASE BYTE' = BYTE
    <3>1. /\ Carries(ByteOf(d)) /\ Has(ByteOf(d))
          /\ phase = "value" \/ pull => register = d.register
      BY <1>1, <1>3, <2>1 DEF DeliveryInv, ToSend, Received
    <3>3. ASSUME NEW b \in Byte, b = ByteOf(d)
          PROVE  /\ Has(b)' /\ ByteOf(d)' = b
                 /\ phase' = "value" \/ pull' => register' = d.register
      <4>1. /\ Has(b)' /\ phase' = phase /\ phase = PhaseOfByte
            /\ \/ UNCHANGED <<register, regs, pull>>
               \/ /\ ~pull /\ pull' /\ bits = b
                  /\ register' = IF phase = "register" THEN b ELSE register
        BY <1>1, <2>1, <3>1, <3>3, SlotReceived
      <4>2. ByteOf(d)' = b
        BY <2>1, <3>3 DEF ByteOf
      <4>3. phase = "register" => b = d.register
        BY <2>1, <3>3, <4>1 DEF PhaseOfByte, ByteOf
      <4>4. phase = "register" \/ phase = "value"
        BY <2>1, <4>1 DEF PhaseOfByte
      <4>. QED
        BY <3>1, <4>1, <4>2, <4>3, <4>4
    <3>2. ByteOf(d) \in Byte
      BY BytesOfEntries
    <3>. QED
      BY <3>2, <3>3 DEF Has
  <2>2. CASE BYTE' # BYTE
    <3>1. Has(ByteOf(d))' /\ BYTE \in {0, 1}
      BY <1>3, <2>2, ByteLoaded
    <3>2. /\ phase = PhaseOfByte /\ pull /\ ~pull'
          /\ phase' = (IF BYTE = 0 THEN "register" ELSE "value")
          /\ register' = register
      BY <1>1, <2>2, ByteTaken
    <3>3. BYTE = 1 => register = d.register
      BY <1>1, <1>3, <3>2 DEF DeliveryInv, Received
    <3>. QED
      BY <3>1, <3>2, <3>3
  <2>. QED
    BY <2>1, <2>2
<1>. QED
  BY <1>1, <1>2, <1>3 DEF Has, ByteOf

(* The value byte is taken as the entry's value.                           *)
LEMMA ValueTaken ==
  ASSUME TypeInv, DeliveryInv, Underway, Received', Framing', ~masked',
         Accept, phase = "value", Underway', mI2C_DATA' = LUT_DATA[LUT_INDEX],
         ST' = 2, CNT' = ByteBits, BYTE' = 2, ~pull, Len(bits) = ByteBits
  PROVE  Taken(LUT_DATA[LUT_INDEX])
<1>1. pull' /\ register' = register /\ bits' = bits /\ phase' = "value"
  BY DEF Accept
<1>2. ByteOf(mI2C_DATA)' = LUT_DATA[LUT_INDEX].value
  BY DEF ByteOf
<1>3. /\ \A i \in 1 .. ByteBits : bits[i] = LUT_DATA[LUT_INDEX].value[i]
      /\ register = LUT_DATA[LUT_INDEX].register
  <2>1. Steady' /\ BYTE' # 0 /\ InByte' /\ Receiving'
    BY <1>1 DEF Steady, InByte, Receiving
  <2>2. /\ \A i \in 1 .. ByteBits : i <= CNT' => bits'[i] = ByteOf(mI2C_DATA)'[i]
        /\ register' = mI2C_DATA'.register
    BY <1>1, <2>1 DEF Received, Has
  <2>. QED
    BY <1>1, <1>2, <2>2, ConstantFacts
<1>4. bits = LUT_DATA[LUT_INDEX].value
  <2>1. bits \in [1 .. ByteBits -> BIT]
    BY BitsAreAByte DEF Byte, TypeInv, TypeOK, TargetTypeOK
  <2>2. LUT_DATA[LUT_INDEX].value \in [1 .. ByteBits -> BIT]
    BY DEF Underway, Loading, TypeInv, TypeOK, Byte
  <2>. QED
    BY <1>3, <2>1, <2>2
<1>. QED
  BY <1>1, <1>3, <1>4 DEF Taken

LEMMA AcknowledgedStep ==
  ASSUME TypeInv, DeliveryInv, NEW txInt \in TxIntLevels, EdgeAt(txInt)
  PROVE  Acknowledged'
<1>. DEFINE go == mI2C_GO
            reg == mI2C_DATA.register
            val == mI2C_DATA.value
            sdai == Line(SDAO)
<1>0. /\ WriterEdge(go, DeviceAddress, reg, val, sdai)
      /\ ConfigEdge(txInt)
      /\ TargetStep
      /\ RecordHistory
  BY DEF EdgeAt
<1>. SUFFICES ASSUME ~masked', Underway' PROVE Acknowledged'
  BY DEF Acknowledged
<1>a. /\ Levels /\ Framing /\ AckReleased /\ PulseBound /\ WriterTypeOK /\ TargetTypeOK
      /\ Handshake /\ EntryHandshake /\ Acknowledged
  BY DEF DeliveryInv, TypeInv, TypeOK
<1>b. Framing' /\ Received' /\ Handshake' /\ EntryHandshake'
  BY FramingStep, ReceivedStep, HandshakeStep
<1>c. BYTE' \in 0 .. 2
  BY NextTypeInv DEF Next, Edge, TypeInv, TypeOK, WriterTypeOK, ByteNum
<1>1. CASE NextEntry
  <2>1. ST \in {1, 30, 31} /\ BYTE = 0 /\ mSetup_ST' = 0
    BY <1>1, <1>a DEF NextEntry, Handshake, Levels
  <2>2. ST' \in {1, 2, 30, 31} /\ BYTE' = 0
    BY <1>0, <2>1 DEF WriterEdge, Idle, StartBit, ClockLow, ShiftOut, ClockHigh,
       BitDone, ByteDone, StopBit, Finish, AwaitGoLow, Launch
  <2>3. ~(phase' = "value" /\ pull')
    BY <1>b, <2>2 DEF Framing, InByte, Receiving, PhaseOfByte
  <2>. QED
    BY <2>1, <2>2, <2>3 DEF Acknowledged
<1>2. CASE ~NextEntry
  <2>1. LUT_INDEX' = LUT_INDEX /\ Underway
    BY <1>0, <1>2 DEF ConfigEdge, Present, AwaitEnd, Loaded, Underway, Loading
  <2>2. Present \/ AwaitEnd
    BY <1>0, <1>2, <2>1 DEF ConfigEdge, Loaded, Underway, Loading
  <2>3. delivered \/ Taken(LUT_DATA[LUT_INDEX]) => delivered'
    BY <1>0, <2>1 DEF RecordHistory, Underway
  <2>4. ~masked \/ StartSeen
    BY <1>0 DEF RecordHistory
  <2>5. ASSUME phase' = "value", pull' PROVE delivered'
    <3>1. InByte' /\ BYTE' = 2
      BY <1>b, <1>c, <2>5 DEF Framing, Receiving, PhaseOfByte
    <3>2. CASE StartBit(DeviceAddress) \/ Idle(go)
      BY <1>a, <3>1, <3>2 DEF StartBit, Idle, Levels
    <3>3. CASE StopBit \/ Finish \/ AwaitGoLow(go) \/ Launch
      BY <3>1, <3>3 DEF StopBit, Finish, AwaitGoLow, Launch, InByte
    <3>4. CASE ClockLow \/ ShiftOut
      <4>1. SCLO' = SCLO /\ SCLO = 0
        BY <1>a, <3>1, <3>4
           DEF ClockLow, ShiftOut, Drive, Levels, WriterTypeOK, BIT
      <4>2. UNCHANGED targetVars /\ ~masked
        BY <1>0, <2>4, <4>1, LinesHeld
      <4>. QED
        BY <1>a, <2>1, <2>3, <2>5, <4>2 DEF targetVars, Acknowledged
    <3>5. CASE ClockHigh
      <4>1. SCLO = 0 /\ SCLO' = 1 /\ SDAO' = SDAO
        BY <1>a, <3>5 DEF ClockHigh, Drive, Levels
      <4>2. Sample(Line(SDAO)) /\ ~masked
        BY <1>0, <2>4, <4>1, ClockRises
      <4>. QED
        BY <1>a, <2>1, <2>3, <2>5, <4>2 DEF Sample, Acknowledged
    <3>6. CASE BitDone \/ ByteDone(reg, val, sdai)
      <4>1. ST = 5 /\ SCLO = 1 /\ SCLO' = 0
        BY <1>a, <3>6 DEF BitDone, ByteDone, Drive, Levels
      <4>2. SclFalls /\ ~masked
        BY <1>0, <2>4, <4>1, ClockFalls
      <4>3. CASE Receiving /\ Len(bits) = ByteBits /\ Accept
        <5>1. phase = "value" /\ CNT = ByteBits /\ ~pull
          BY <1>a, <2>5, <4>1, <4>2, <4>3, ConstantFacts
             DEF Accept, Framing, InByte, AckSlot
        <5>2. BitDone
          BY <3>6, <5>1, ConstantFacts DEF ByteDone
        <5>3. ST' = 2 /\ CNT' = ByteBits
          BY <5>1, <5>2 DEF BitDone
        <5>4. mI2C_DATA' = LUT_DATA[LUT_INDEX]
          BY <2>1, <2>2, <4>1, Presented DEF Present, AwaitEnd
        <5>5. Taken(LUT_DATA[LUT_INDEX])
          BY <1>b, <2>1, <3>1, <4>3, <5>1, <5>3, <5>4, ValueTaken
        <5>. QED
          BY <2>3, <5>5
      <4>4. CASE Receiving /\ Len(bits) = ByteBits /\ Refuse
        BY <2>5, <4>4 DEF Refuse
      <4>5. CASE Receiving /\ Len(bits) = Slots /\ Release
        BY <2>5, <4>5 DEF Release
      <4>6. CASE UNCHANGED targetVars
        BY <1>a, <2>1, <2>3, <2>5, <4>2, <4>6 DEF targetVars, Acknowledged
      <4>. QED
        BY <4>2, <4>3, <4>4, <4>5, <4>6 DEF SclFalls
    <3>. QED
      BY <1>0, <3>2, <3>3, <3>4, <3>5, <3>6 DEF WriterEdge
  <2>6. ASSUME ST' \in 6 .. 9, ACK_OK' = 0 PROVE delivered'
    <3>1. CASE StopBit
      <4>1. SCLO = 1 => SDAO = 0 /\ SDAO' = 1
        BY <1>a, <3>1 DEF StopBit, Drive, Levels
      <4>2. ~StartSeen
        BY <1>a, <4>1 DEF StartSeen, Line, TargetTypeOK
      <4>. QED
        BY <1>a, <2>1, <2>3, <2>4, <2>6, <3>1, <4>2 DEF StopBit, Acknowledged
    <3>2. CASE ByteDone(reg, val, sdai)
      <4>1. /\ ST = 5 /\ CNT = Slots /\ BYTE = 2 /\ SCLO = 1 /\ SCLO' = 0 /\ SDAO = 1
            /\ sdai # 1
        BY <1>a, <2>6, <3>2 DEF ByteDone, Levels, AckReleased, Drive, ByteNum
      <4>2. pull /\ ~masked
        BY <1>0, <1>a, <2>4, <4>1, ClockFalls DEF Line
      <4>3. phase = "value"
        BY <1>a, <4>1, <4>2 DEF Framing, InByte, PhaseOfByte
      <4>. QED
        BY <1>a, <2>1, <2>3, <4>2, <4>3 DEF Acknowledged
    <3>. QED
      BY <1>0, <2>6, <3>1, <3>2 DEF WriterEdge, Idle, StartBit, ClockLow, ShiftOut,
         ClockHigh, BitDone, Finish, AwaitGoLow, Launch
  <2>7. ASSUME ST' = 30, mSetup_ST' = 1, ACK_OK' = 0 PROVE delivered'
    <3>1. ST \in {0, 9, 30}
      BY <1>0, <2>7 DEF WriterEdge, Idle, StartBit, ClockLow, ShiftOut, ClockHigh,
         BitDone, ByteDone, StopBit, Finish, AwaitGoLow, Launch
    <3>2. ST # 0
      BY <1>a, <2>1 DEF Handshake, Underway
    <3>3. ST # 30
      <4>1. CASE ST = 30 /\ Present
        BY <1>0, <1>a, <2>7, <4>1 DEF WriterEdge, Present, Handshake, Idle, StartBit,
           ClockLow, ShiftOut, ClockHigh, BitDone, ByteDone, StopBit, Finish,
           AwaitGoLow, Launch, TypeInv, TypeOK, BIT
      <4>2. CASE ST = 30 /\ AwaitEnd
        BY <1>a, <2>7, <4>2 DEF AwaitEnd, Handshake
      <4>. QED
        BY <2>2, <4>1, <4>2
    <3>4. Finish
      BY <1>0, <3>1, <3>2, <3>3 DEF WriterEdge, Idle, StartBit, ClockLow, ShiftOut,
         ClockHigh, BitDone, ByteDone, StopBit, AwaitGoLow, Launch
    <3>5. ACK_OK = 0 /\ ST = 9 /\ SCLO' = SCLO /\ SDAO' = SDAO
      BY <1>a, <2>7, <3>4 DEF Finish, Drive, Levels
    <3>6. ~masked
      BY <1>0, <2>4, <3>5, LinesHeld
    <3>. QED
      BY <1>a, <2>1, <2>3, <3>5, <3>6 DEF Acknowledged
  <2>8. ASSUME mSetup_ST' = 2 PROVE delivered'
    <3>1. mSetup_ST = 1 /\ END_OK = 1 /\ ACK_OK = 0
      BY <1>a, <2>2, <2>8 DEF Present, AwaitEnd, WriterTypeOK, BIT
    <3>2. ST = 30
      BY <1>a, <2>1, <3>1 DEF Handshake, EntryHandshake, WriterTypeOK, Underway
    <3>3. SCLO' = SCLO /\ SDAO' = SDAO
      BY <1>0, <3>2 DEF WriterEdge, Idle, StartBit, ClockLow, ShiftOut, ClockHigh,
         BitDone, ByteDone, StopBit, Finish, AwaitGoLow, Launch
    <3>4. ~masked
      BY <1>0, <2>4, <3>3, LinesHeld
    <3>. QED
      BY <1>a, <2>1, <2>3, <3>1, <3>2, <3>4 DEF Acknowledged
  <2>. QED
    BY <2>5, <2>6, <2>7, <2>8 DEF Acknowledged
<1>. QED
  BY <1>1, <1>2

LEMMA NextDelivery == TypeInv /\ DeliveryInv /\ [Next]_vars => DeliveryInv'
<1>. SUFFICES ASSUME TypeInv, DeliveryInv, [Next]_vars PROVE DeliveryInv'
  OBVIOUS
<1>1. ASSUME NEW txInt \in TxIntLevels, EdgeAt(txInt)
      PROVE  DeliveryInv'
  BY <1>1, HandshakeStep, LevelsStep, FramingStep, ToSendStep, ReceivedStep,
     AcknowledgedStep DEF DeliveryInv
<1>2. CASE Reset
  BY <1>2, ResetDelivery
<1>3. CASE UNCHANGED vars
  BY <1>3 DEF vars, writerVars, targetVars, configVars, DeliveryInv, Handshake,
     EntryHandshake, Levels, AckReleased, Framing, ToSend, Received, Acknowledged,
     Steady, Underway, Loading, InByte, AckSlot, PhaseOfByte, ByteOf, Carries, Has,
     Receiving
<1>. QED
  BY <1>1, <1>2, <1>3 DEF Next, Edge

(* The invariant that ties the two machines, the wires and the target      *)
(* together holds of every behaviour.                                      *)
THEOREM DeliveryInvariant == Spec => []DeliveryInv
<1>. QED
  BY InitTypeInv, NextTypeInv, InitDelivery, NextDelivery, PTL DEF Spec

(* An entry other than the first is left only when the target has taken    *)
(* its register and its value, for every table and every byte width, with  *)
(* refusals, reload requests and resets at any time.                       *)
THEOREM EntriesAreDelivered == Spec => EntryDelivered
<1>1. ASSUME TypeInv, DeliveryInv, [Next]_vars,
             LUT_INDEX' = LUT_INDEX + 1, LUT_INDEX # 0, ~masked
      PROVE  delivered
  <2>1. NextEntry
    BY <1>1 DEF Next, Edge, EdgeAt, Reset, ConfigEdge, Present, AwaitEnd, Loaded,
       vars, configVars, TypeInv, TypeOK
  <2>2. Underway /\ mSetup_ST = 2
    BY <1>1, <2>1 DEF NextEntry, Underway
  <2>. QED
    BY <1>1, <2>2 DEF DeliveryInv, Acknowledged
<1>2. TypeInv /\ DeliveryInv /\ [Next]_vars =>
        [LUT_INDEX' = LUT_INDEX + 1 /\ LUT_INDEX # 0 /\ ~masked => delivered]_vars
  BY <1>1
<1>. QED
  BY <1>2, InitTypeInv, NextTypeInv, InitDelivery, NextDelivery, PTL
     DEF Spec, EntryDelivered
-----------------------------------------------------------------------------
(* READY and the table.                                                    *)

LEMMA InitLoad == Init => LoadInv
<1>. SUFFICES ASSUME Init PROVE LoadInv
  OBVIOUS
<1>1. /\ ST = 0 /\ BYTE = 0 /\ LUT_INDEX = 0 /\ mSetup_ST = 0 /\ READY = 0
      /\ delivered = FALSE /\ mI2C_DATA = LUT_DATA[0]
      /\ phase = "idle" /\ bits = <<>> /\ masked = FALSE
  BY DEF Init, TargetInit
<1>2. Astray
  BY <1>1 DEF Astray, StrayByte, Straying, Loading
<1>. QED
  BY <1>1, <1>2 DEF LoadInv, Announced, StillPresented, SettledKept, Settled, Whole,
     Underway, Loading

(* A reset withdraws READY, and what the invariant promises without one.   *)
LEMMA ResetLoad == TypeInv /\ LoadInv /\ Reset => LoadInv'
<1>. SUFFICES ASSUME TypeInv, Reset PROVE LoadInv'
  OBVIOUS
<1>1. /\ LUT_INDEX' = 0 /\ READY' = 0 /\ mSetup_ST' = 0
      /\ resets' = resets + 1 /\ resets \in Nat
  BY DEF Reset, TypeInv, TypeOK
<1>. QED
  BY <1>1 DEF LoadInv, Announced, StillPresented, Underway, Loading

LEMMA PresentedStep ==
  ASSUME TypeInv, DeliveryInv, LoadInv, NEW txInt \in TxIntLevels, EdgeAt(txInt)
  PROVE  (Announced /\ StillPresented)'
<1>0. ConfigEdge(txInt)
  BY DEF EdgeAt
<1>. USE DEF LoadInv, Announced, StillPresented, Underway, Loading,
         DeliveryInv, Handshake, EntryHandshake, TypeInv, TypeOK
<1>1. CASE Present
  BY <1>1 DEF Present
<1>2. CASE AwaitEnd
  BY <1>2 DEF AwaitEnd
<1>3. CASE NextEntry
  BY <1>3 DEF NextEntry
<1>4. CASE Loaded(txInt)
  BY <1>4 DEF Loaded
<1>. QED
  BY <1>0, <1>1, <1>2, <1>3, <1>4 DEF ConfigEdge

(* START and STOP come where the target expects them.                      *)
Uncut ==
  /\ StartSeen => phase = "idle"
  /\ StopSeen => phase \in {"idle", "ignore"} \/ (phase = "more" /\ bits = <<0>>)

(* Outside a transaction the target keeps no bits.                         *)
LEMMA NothingKept ==
  ASSUME TargetStep, ~Receiving => bits = <<>>
  PROVE  (~Receiving => bits = <<>>)'
BY DEF TargetStep, SeeStart, SeeStop, Sample, SclFalls, Accept, Refuse, Release,
   Receiving, targetVars

LEMMA WholeStep ==
  ASSUME TypeInv, DeliveryInv, Whole, ~masked, NEW txInt \in TxIntLevels, EdgeAt(txInt)
  PROVE  Whole' /\ Uncut
<1>. DEFINE go == mI2C_GO
            reg == mI2C_DATA.register
            val == mI2C_DATA.value
            sdai == Line(SDAO)
<1>0. WriterEdge(go, DeviceAddress, reg, val, sdai) /\ TargetStep
  BY DEF EdgeAt
<1>a. Levels /\ Framing /\ WriterTypeOK /\ TargetTypeOK /\ Whole
  BY DEF DeliveryInv, TypeInv, TypeOK
<1>b. (~Receiving => bits = <<>>)'
  BY <1>0, NothingKept DEF Whole
<1>1. CASE Idle(go)
  <2>1. SCLO' = 1 /\ SDAO' = 1 /\ ST = 0 /\ ST' \in {0, 30} /\ ~pull /\ phase = "idle"
    BY <1>1, <1>a DEF Idle, Drive, Framing, InByte, Whole
  <2>2. phase' = "idle" /\ ~StartSeen
    BY <1>0, <2>1 DEF TargetStep, StartSeen, SeeStop, Sample, Line, targetVars
  <2>. QED
    BY <1>b, <2>1, <2>2 DEF Whole, Uncut
<1>2. CASE StartBit(DeviceAddress)
  <2>1. /\ ST = 1 /\ ST' = 2 /\ SDAO = 1 /\ SCLO = 1 /\ SDAO' = 0 /\ SCLO' = 1
        /\ ~pull /\ phase = "idle"
    BY <1>2, <1>a DEF StartBit, Drive, Levels, Framing, InByte, Whole
  <2>2. ~StopSeen
    BY <2>1 DEF StopSeen, Line
  <2>. QED
    BY <1>b, <2>1, <2>2 DEF Whole, Uncut
<1>3. CASE ClockLow \/ ShiftOut \/ BitDone
  <2>1. ST' \in 2 .. 4 /\ SCLO' = 0
    BY <1>3, <1>a DEF ClockLow, ShiftOut, BitDone, Drive, Levels
  <2>2. ~StartSeen /\ ~StopSeen
    BY <2>1 DEF StartSeen, StopSeen
  <2>. QED
    BY <1>b, <2>1, <2>2 DEF Whole, Uncut
<1>4. CASE ClockHigh
  <2>1. ST' = 5 /\ SCLO = 0 /\ SCLO' = 1 /\ SDAO' = SDAO
    BY <1>4, <1>a DEF ClockHigh, Drive, Levels
  <2>2. ~StartSeen /\ ~StopSeen
    BY <2>1 DEF StartSeen, StopSeen, Line
  <2>. QED
    BY <1>b, <2>1, <2>2 DEF Whole, Uncut
<1>5. CASE ByteDone(reg, val, sdai)
  <2>1. ST = 5 /\ ST' \in {2, 6} /\ SCLO = 1 /\ SCLO' = 0 /\ CNT = Slots
    BY <1>5, <1>a DEF ByteDone, Drive, Levels
  <2>2. ~StartSeen /\ ~StopSeen
    BY <2>1 DEF StartSeen, StopSeen
  <2>3. SclFalls
    BY <1>0, <2>1, ClockFalls
  <2>4. bits' = <<>>
    <3>1. CASE Receiving
      <4>1. Len(bits) = Slots
        BY <1>a, <2>1, <3>1 DEF Framing, InByte
      <4>. QED
        BY <2>3, <3>1, <4>1, ConstantFacts DEF SclFalls, Release
    <3>2. CASE ~Receiving
      BY <1>a, <2>3, <3>2 DEF SclFalls, targetVars, Whole
    <3>. QED
      BY <3>1, <3>2
  <2>. QED
    BY <1>b, <2>1, <2>2, <2>4 DEF Whole, Uncut
<1>6. CASE StopBit
  <2>1. /\ ST \in 6 .. 8 /\ ST' = ST + 1
        /\ SDAO' = IF ST = 8 THEN 1 ELSE 0
        /\ SCLO' = IF ST = 6 THEN 0 ELSE 1
    BY <1>6 DEF StopBit, Drive
  <2>2. CASE ST = 6
    <3>1. SCLO = 0 /\ SCLO' = 0 /\ bits = <<>> /\ ST' = 7
      BY <1>a, <2>1, <2>2 DEF Levels, Whole
    <3>2. UNCHANGED targetVars
      BY <1>0, <3>1, LinesHeld
    <3>3. ~StartSeen /\ ~StopSeen
      BY <3>1 DEF StartSeen, StopSeen
    <3>. QED
      BY <1>b, <3>1, <3>2, <3>3 DEF Whole, Uncut, targetVars
  <2>3. CASE ST = 7
    <3>1. /\ SCLO = 0 /\ SCLO' = 1 /\ SDAO = 0 /\ SDAO' = 0
          /\ bits = <<>> /\ ST' = 8
      BY <1>a, <2>1, <2>3 DEF Levels, Whole
    <3>2. Sample(Line(SDAO)) /\ Line(SDAO) = 0
      BY <1>0, <3>1, ClockRises DEF Line
    <3>3. ~StartSeen /\ ~StopSeen
      BY <3>1 DEF StartSeen, StopSeen, Line
    <3>4. phase' = "more" => bits' = <<0>>
      <4>1. phase' = "more" => bits' = Append(<<>>, 0)
        BY <3>1, <3>2 DEF Sample, Receiving
      <4>. QED
        BY <4>1
    <3>. QED
      BY <1>b, <3>1, <3>3, <3>4 DEF Whole, Uncut
  <2>4. CASE ST = 8
    <3>1. /\ SCLO = 1 /\ SCLO' = 1 /\ SDAO = 0 /\ SDAO' = 1 /\ ST' = 9 /\ ~pull
      BY <1>a, <2>1, <2>4 DEF Levels, Framing, InByte
    <3>2. SeeStop /\ ~StartSeen
      BY <1>0, <3>1 DEF TargetStep, Line, StartSeen
    <3>3. phase = "ignore" \/ (phase = "more" /\ bits = <<0>>)
      BY <1>a, <2>4 DEF Framing, Whole
    <3>. QED
      BY <1>b, <3>1, <3>2, <3>3 DEF Whole, Uncut, SeeStop
  <2>. QED
    BY <2>1, <2>2, <2>3, <2>4
<1>7. CASE Finish \/ AwaitGoLow(go) \/ Launch
  <2>1. /\ ST \in {9, 30, 31} /\ ST' \in {1, 30, 31}
        /\ SCLO' = SCLO /\ SDAO' = SDAO /\ SCLO = 1 /\ phase = "idle"
    BY <1>7, <1>a DEF Finish, AwaitGoLow, Launch, Drive, Levels, Whole
  <2>2. UNCHANGED targetVars
    BY <1>0, <2>1, LinesHeld
  <2>. QED
    BY <1>b, <2>1, <2>2 DEF Whole, Uncut, targetVars
<1>. QED
  BY <1>0, <1>1, <1>2, <1>3, <1>4, <1>5, <1>6, <1>7 DEF WriterEdge

(* A register changes only when the target takes a value byte.             *)
LEMMA RegsKept ==
  ASSUME TypeInv, TargetStep
  PROVE  \/ regs' = regs /\ (pull' => pull \/ phase # "value")
         \/ /\ SCLO = 1 /\ SCLO' = 0 /\ Receiving /\ Len(bits) = ByteBits
            /\ Accept /\ phase = "value"
BY DEF TargetStep, SeeStart, SeeStop, Sample, SclFalls, Accept, Refuse, Release,
   targetVars, TypeInv, TypeOK, TargetTypeOK

(* What has been settled stays so, and nothing else is, unless the entry   *)
(* being loaded is taken; when a load begins nothing is settled.           *)
LEMMA SettledStep ==
  ASSUME TypeInv, DeliveryInv, LoadInv, ~masked,
         NEW txInt \in TxIntLevels, EdgeAt(txInt)
  PROVE  \/ \A i \in 1 .. LUT_SIZE - 1 : Settled(i)' <=> Settled(i)
         \/ \A i \in 1 .. LUT_SIZE - 1 : ~Settled(i)'
         \/ /\ Underway /\ READY = 0 /\ Taken(LUT_DATA[LUT_INDEX])
            /\ LUT_INDEX' = LUT_INDEX /\ READY' = 0
            /\ \A i \in 1 .. LUT_SIZE - 1 : Settled(i)' <=> i <= LUT_INDEX
<1>0. ConfigEdge(txInt) /\ RecordHistory
  BY DEF EdgeAt
<1>a. LUT_INDEX \in 0 .. LUT_SIZE /\ READY \in BIT /\ Announced /\ Acknowledged
      /\ delivered \in BOOLEAN
  BY DEF TypeInv, TypeOK, LoadInv, DeliveryInv
<1>1. CASE Present \/ AwaitEnd
  <2>1. Loading /\ LUT_INDEX' = LUT_INDEX /\ READY' = 0
    BY <1>1 DEF Present, AwaitEnd
  <2>2. CASE LUT_INDEX = 0
    BY <2>1, <2>2 DEF Settled
  <2>3. CASE LUT_INDEX # 0
    <3>1. READY = 0 /\ Underway
      BY <1>a, <2>1, <2>3 DEF Announced, Underway, BIT
    <3>2. delivered' = (delivered \/ Taken(LUT_DATA[LUT_INDEX]))
      BY <1>0, <2>1 DEF RecordHistory
    <3>3. CASE Taken(LUT_DATA[LUT_INDEX])
      <4>1. delivered'
        BY <3>2, <3>3
      <4>2. \A i \in 1 .. LUT_SIZE - 1 : Settled(i)' <=> i <= LUT_INDEX
        BY <1>a, <2>1, <4>1 DEF Settled
      <4>. QED
        BY <2>1, <3>1, <3>3, <4>2
    <3>4. CASE ~Taken(LUT_DATA[LUT_INDEX])
      <4>1. delivered' = delivered
        BY <1>a, <3>2, <3>4
      <4>. QED
        BY <2>1, <3>1, <4>1 DEF Settled
    <3>. QED
      BY <3>3, <3>4
  <2>. QED
    BY <2>2, <2>3
<1>2. CASE NextEntry
  <2>1. Loading /\ mSetup_ST = 2 /\ LUT_INDEX' = LUT_INDEX + 1 /\ READY' = 0
    BY <1>2 DEF NextEntry
  <2>2. ~delivered' /\ READY = 0
    BY <1>0, <1>a, <2>1 DEF RecordHistory, Announced, BIT
  <2>3. CASE LUT_INDEX = 0
    BY <2>1, <2>2, <2>3 DEF Settled
  <2>4. CASE LUT_INDEX # 0
    <3>1. delivered
      BY <1>a, <2>1, <2>4 DEF Acknowledged, Underway
    <3>. QED
      BY <1>a, <2>1, <2>2, <3>1 DEF Settled
  <2>. QED
    BY <2>3, <2>4
<1>3. CASE Loaded(txInt)
  <2>1. LUT_INDEX = LUT_SIZE /\ READY' = 1
    BY <1>3, <1>a DEF Loaded, Loading
  <2>2. \A i \in 1 .. LUT_SIZE - 1 : Settled(i) /\ Settled(i)'
    BY <2>1 DEF Settled
  <2>. QED
    BY <2>2
<1>. QED
  BY <1>0, <1>1, <1>2, <1>3 DEF ConfigEdge

(* When the target takes a value it is the writer's last slot of it.       *)
LEMMA StoreSlot ==
  ASSUME TypeInv, DeliveryInv, ~masked, NEW txInt \in TxIntLevels, EdgeAt(txInt),
         SCLO = 1, SCLO' = 0, Receiving, Len(bits) = ByteBits, Accept, phase = "value"
  PROVE  /\ ST = 5 /\ CNT = ByteBits /\ BYTE = 2 /\ ~pull /\ pull'
         /\ regs' = [regs EXCEPT ![register] = bits]
<1>0. WriterEdge(mI2C_GO, DeviceAddress, mI2C_DATA.register, mI2C_DATA.value, Line(SDAO))
  BY DEF EdgeAt
<1>a. Levels /\ Framing /\ WriterTypeOK
  BY DEF DeliveryInv, TypeInv, TypeOK
<1>1. ST = 2 \/ ST = 5
  BY <1>0, <1>a DEF WriterEdge, Idle, StartBit, ClockLow, ShiftOut, ClockHigh, BitDone,
     ByteDone, StopBit, Finish, AwaitGoLow, Launch, Drive, Levels
<1>2. phase = PhaseOfByte /\ Len(bits) = CNT /\ (pull <=> AckSlot)
  BY <1>a, <1>1 DEF Framing, InByte
<1>3. ST = 5 /\ CNT = ByteBits /\ ~pull
  BY <1>a, <1>1, <1>2, ConstantFacts DEF Levels, AckSlot
<1>4. BYTE = 2
  BY <1>a, <1>2 DEF PhaseOfByte, WriterTypeOK, ByteNum
<1>. QED
  BY <1>3, <1>4 DEF Accept

(* A whole byte received is the byte. *)
LEMMA HasAll ==
  ASSUME TypeInv, NEW byte \in Byte, Has(byte), Len(bits) = ByteBits, CNT = ByteBits
  PROVE  bits = byte
<1>1. bits \in [1 .. ByteBits -> BIT] /\ byte \in [1 .. ByteBits -> BIT]
  BY ConstantFacts DEF TypeInv, TypeOK, TargetTypeOK, Byte
<1>2. \A i \in 1 .. ByteBits : bits[i] = byte[i]
  BY DEF Has
<1>. QED
  BY <1>1, <1>2

(* What the target stores is what is presented.                            *)
LEMMA StoredValue ==
  ASSUME TypeInv, DeliveryInv, ~masked, Steady, NEW txInt \in TxIntLevels,
         EdgeAt(txInt), SCLO = 1, SCLO' = 0, Receiving, Len(bits) = ByteBits,
         Accept, phase = "value"
  PROVE  /\ ST = 5 /\ ~pull /\ pull'
         /\ register = mI2C_DATA.register /\ bits = mI2C_DATA.value
         /\ regs' = [regs EXCEPT ![mI2C_DATA.register] = mI2C_DATA.value]
<1>1. /\ ST = 5 /\ CNT = ByteBits /\ BYTE = 2 /\ ~pull /\ pull'
      /\ regs' = [regs EXCEPT ![register] = bits]
  BY StoreSlot
<1>2. Has(mI2C_DATA.value) /\ register = mI2C_DATA.register
  BY <1>1 DEF DeliveryInv, Received, InByte, ByteOf
<1>3. mI2C_DATA.value \in Byte
  BY DEF TypeInv, TypeOK
<1>4. bits = mI2C_DATA.value
  BY <1>1, <1>2, <1>3, HasAll
<1>. QED
  BY <1>1, <1>2, <1>4

LEMMA SettledKeptStep ==
  ASSUME TypeInv, DeliveryInv, LoadInv, ~masked, SettledKept,
         NEW txInt \in TxIntLevels, EdgeAt(txInt)
  PROVE  SettledKept'
<1>0. ConfigEdge(txInt) /\ RecordHistory /\ TargetStep
  BY DEF EdgeAt
<1>a. /\ LUT_INDEX \in 0 .. LUT_SIZE /\ READY \in BIT
      /\ regs \in [Byte -> Byte \cup {Unwritten}]
      /\ Announced /\ StillPresented
      /\ \A i \in 0 .. LUT_SIZE - 1 : LUT_DATA[i].register \in Byte /\ LUT_DATA[i].value \in Byte
  BY DEF TypeInv, TypeOK, TargetTypeOK, LoadInv
<1>1. CASE \A i \in 1 .. LUT_SIZE - 1 : ~Settled(i)'
  BY <1>1 DEF SettledKept
<1>2. CASE regs' = regs /\ (pull' => pull \/ phase # "value")
  <2>1. ~Taken(LUT_DATA[LUT_INDEX])
    BY <1>2 DEF Taken
  <2>2. CASE \A i \in 1 .. LUT_SIZE - 1 : Settled(i)' <=> Settled(i)
    BY <1>2, <2>2 DEF SettledKept
  <2>. QED
    BY <1>1, <2>1, <2>2, SettledStep
<1>3. CASE /\ SCLO = 1 /\ SCLO' = 0 /\ Receiving /\ Len(bits) = ByteBits
           /\ Accept /\ phase = "value"
  <2>1. CASE Underway
    <3>1. /\ ST = 5 /\ ~pull /\ pull'
          /\ register = mI2C_DATA.register /\ bits = mI2C_DATA.value
          /\ regs' = [regs EXCEPT ![mI2C_DATA.register] = mI2C_DATA.value]
      BY <1>3, <2>1, StoredValue DEF Steady
    <3>2. mSetup_ST = 1 /\ mI2C_DATA = LUT_DATA[LUT_INDEX]
      BY <2>1, <3>1, Presented
    <3>3. Taken(LUT_DATA[LUT_INDEX])
      BY <1>3, <3>1, <3>2 DEF Taken
    <3>4. AwaitEnd
      BY <1>0, <2>1, <3>2 DEF ConfigEdge, Present, NextEntry, Loaded, Underway
    <3>5. LUT_INDEX' = LUT_INDEX /\ READY' = 0 /\ READY = 0 /\ delivered'
          /\ LUT_INDEX \in 1 .. LUT_SIZE - 1
      BY <1>0, <1>a, <2>1, <3>3, <3>4
         DEF AwaitEnd, Announced, Underway, Loading, BIT, RecordHistory
    <3>6. \A i \in 1 .. LUT_SIZE - 1 : Settled(i)' <=> i <= LUT_INDEX
      BY <3>5 DEF Settled
    <3>7. ASSUME NEW i \in 1 .. LUT_SIZE - 1, Settled(i)'
          PROVE  \/ regs'[LUT_DATA[i].register] = LUT_DATA[i].value
                 \/ \E j \in 1 .. LUT_SIZE - 1 :
                      /\ j > i /\ Settled(j)'
                      /\ LUT_DATA[j].register = LUT_DATA[i].register
      <4>1. i <= LUT_INDEX
        BY <3>6, <3>7
      <4>2. CASE LUT_DATA[i].register = LUT_DATA[LUT_INDEX].register
        <5>1. CASE i = LUT_INDEX
          BY <1>a, <3>1, <3>2, <5>1
        <5>2. CASE i < LUT_INDEX
          BY <3>5, <3>6, <4>2, <5>2
        <5>. QED
          BY <3>5, <4>1, <5>1, <5>2
      <4>3. CASE LUT_DATA[i].register # LUT_DATA[LUT_INDEX].register
        <5>1. i # LUT_INDEX /\ i < LUT_INDEX
          BY <3>5, <4>1, <4>3
        <5>2. Settled(i)
          BY <5>1 DEF Settled
        <5>3. regs'[LUT_DATA[i].register] = regs[LUT_DATA[i].register]
          BY <1>a, <3>1, <3>2, <4>3
        <5>4. ASSUME NEW j \in 1 .. LUT_SIZE - 1, Settled(j)
              PROVE  Settled(j)'
          BY <3>5, <5>4 DEF Settled
        <5>. QED
          BY <5>2, <5>3, <5>4 DEF SettledKept
      <4>. QED
        BY <4>2, <4>3
    <3>. QED
      BY <3>7 DEF SettledKept
  <2>2. CASE ~Loading \/ READY = 1
    <3>1. SUFFICES ASSUME LUT_SIZE > 1 PROVE SettledKept'
      BY DEF SettledKept
    <3>2. mI2C_DATA = LUT_DATA[LUT_SIZE - 1]
      BY <1>a, <2>2, <3>1 DEF StillPresented
    <3>3. regs' = [regs EXCEPT ![mI2C_DATA.register] = mI2C_DATA.value]
      BY <1>3, <2>2, StoredValue DEF Steady
    <3>4. CASE Loaded(txInt)
      <4>1. \A i \in 1 .. LUT_SIZE - 1 : Settled(i) /\ Settled(i)'
        BY <1>a, <3>4 DEF Loaded, Loading, Settled
      <4>2. ASSUME NEW i \in 1 .. LUT_SIZE - 1
            PROVE  \/ regs'[LUT_DATA[i].register] = LUT_DATA[i].value
                   \/ \E j \in 1 .. LUT_SIZE - 1 :
                        /\ j > i /\ Settled(j)'
                        /\ LUT_DATA[j].register = LUT_DATA[i].register
        <5>1. CASE LUT_DATA[i].register = LUT_DATA[LUT_SIZE - 1].register
          <6>1. CASE i = LUT_SIZE - 1
            BY <1>a, <3>2, <3>3, <6>1
          <6>2. CASE i # LUT_SIZE - 1
            <7>1. LUT_SIZE - 1 > i /\ LUT_SIZE - 1 \in 1 .. LUT_SIZE - 1
              BY <3>1, <6>2
            <7>. QED
              BY <4>1, <5>1, <7>1
          <6>. QED
            BY <6>1, <6>2
        <5>2. CASE LUT_DATA[i].register # LUT_DATA[LUT_SIZE - 1].register
          <6>1. regs'[LUT_DATA[i].register] = regs[LUT_DATA[i].register]
            BY <1>a, <3>2, <3>3, <5>2
          <6>. QED
            BY <4>1, <6>1 DEF SettledKept
        <5>. QED
          BY <5>1, <5>2
      <4>. QED
        BY <4>2 DEF SettledKept
    <3>5. CASE ~Loaded(txInt)
      <4>1. Loading /\ READY = 1 /\ LUT_INDEX = 0 /\ mSetup_ST = 0
        BY <1>0, <1>a, <2>2, <3>5
           DEF ConfigEdge, Present, AwaitEnd, NextEntry, Announced
      <4>2. LUT_INDEX' = 0 /\ READY' = 0
        BY <1>0, <3>5, <4>1 DEF ConfigEdge, Present, AwaitEnd, NextEntry
      <4>. QED
        BY <1>1, <4>2 DEF Settled
    <3>. QED
      BY <3>4, <3>5
  <2>3. CASE Loading /\ READY = 0 /\ LUT_INDEX = 0
    <3>1. READY' = 0 /\ (LUT_INDEX' = 0 \/ (LUT_INDEX' = 1 /\ ~delivered'))
      BY <1>0, <2>3 DEF ConfigEdge, Present, AwaitEnd, NextEntry, Loaded, RecordHistory
    <3>2. \A i \in 1 .. LUT_SIZE - 1 : ~Settled(i)'
      BY <3>1 DEF Settled
    <3>. QED
      BY <1>1, <3>2
  <2>. QED
    BY <1>a, <2>1, <2>2, <2>3 DEF Underway, BIT
<1>. QED
  BY <1>0, <1>2, <1>3, RegsKept

(* The withdrawn announcement. *)
LEMMA StrayStep ==
  ASSUME TypeInv, DeliveryInv, LoadInv, ~masked, SettledKept, Astray,
         NEW txInt \in TxIntLevels, EdgeAt(txInt)
  PROVE  Astray'
<1>. DEFINE First == LUT_DATA[0]
            Last == LUT_DATA[LUT_SIZE - 1]
            Data == [register : Byte, value : Byte]
<1>0. ConfigEdge(txInt) /\ RecordHistory
  BY DEF EdgeAt
<1>a. /\ LUT_INDEX \in 0 .. LUT_SIZE /\ READY \in BIT
      /\ BYTE \in 0 .. 2 /\ Announced /\ StillPresented
      /\ regs \in [Byte -> Byte \cup {Unwritten}]
  BY DEF TypeInv, TypeOK, TargetTypeOK, WriterTypeOK, ByteNum, LoadInv
<1>b. First \in Data /\ Last \in Data /\ Ends = {First, Last}
  BY DEF Ends
<1>1. (Straying => mI2C_DATA = First)' /\ (~Loading => ~delivered)'
  <2>1. CASE Present
    BY <1>0, <1>a, <2>1 DEF Present, Straying, Loading, Astray
  <2>2. CASE AwaitEnd
    BY <1>0, <1>a, <2>2 DEF AwaitEnd, Straying, Loading, Astray, Announced, BIT
  <2>3. CASE NextEntry
    BY <1>0, <1>a, <2>3 DEF NextEntry, Straying, Loading, RecordHistory
  <2>4. CASE Loaded(txInt)
    BY <1>0, <1>a, <2>4 DEF Loaded, Straying, Loading, RecordHistory, Astray
  <2>. QED
    BY <1>0, <2>1, <2>2, <2>3, <2>4 DEF ConfigEdge
<1>. SUFFICES ASSUME Straying', BYTE' # 0, InByte', Receiving' PROVE StrayByte'
  BY <1>1 DEF Astray, StrayByte
<1>2. LUT_SIZE > 1 /\ LUT_INDEX = 0 /\ InByte /\ Receiving
  <2>1. LUT_SIZE > 1 /\ LUT_INDEX' = 0 /\ READY' = 0 /\ InByte /\ Receiving
    BY NoStartInByte DEF Straying
  <2>. QED
    BY <1>0, <1>a, <2>1 DEF ConfigEdge, Present, AwaitEnd, NextEntry, Loaded
<1>3. READY = 1 =>
        mI2C_DATA = Last /\ Steady /\ regs[Last.register] = Last.value
  BY <1>a, <1>2 DEF StillPresented, Steady, SettledKept, Settled
(* The entry the byte under way was made from. *)
<1>4. BYTE # 0 =>
        \E entry \in Ends :
          /\ Carries(ByteOf(entry)) /\ Has(ByteOf(entry))
          /\ phase = "value" \/ pull => \E end \in Ends : register = end.register
          /\ BYTE = 2 /\ entry # First =>
               register = entry.register /\ regs[register] = entry.value
  <2>1. CASE READY = 0
    BY <1>2, <2>1 DEF Astray, StrayByte, Straying
  <2>2. CASE READY = 1 /\ BYTE # 0
    <3>1. /\ Carries(ByteOf(Last)) /\ Has(ByteOf(Last))
          /\ phase = "value" \/ pull => register = Last.register
      BY <1>2, <1>3, <2>2 DEF DeliveryInv, ToSend, Received
    <3>2. BYTE = 2 => phase = "value"
      BY <1>2 DEF DeliveryInv, Framing, PhaseOfByte
    <3>. QED
      BY <1>b, <1>3, <2>2, <3>1, <3>2
  <2>. QED
    BY <1>a, <2>1, <2>2 DEF BIT
<1>5. CASE BYTE' = BYTE
  <2>1. BYTE # 0
    BY <1>5
  <2>2. PICK entry \in Ends :
          /\ Carries(ByteOf(entry)) /\ Has(ByteOf(entry))
          /\ phase = "value" \/ pull => \E end \in Ends : register = end.register
          /\ BYTE = 2 /\ entry # First =>
               register = entry.register /\ regs[register] = entry.value
    BY <1>4, <2>1
  <2>3. ByteOf(entry) \in Byte
    BY <1>b, BytesOfEntries
  <2>4. ASSUME NEW b \in Byte, b = ByteOf(entry)
        PROVE  /\ Carries(b)' /\ Has(b)' /\ b = ByteOf(entry)'
               /\ phase' = phase /\ phase = PhaseOfByte
               /\ \/ UNCHANGED <<register, regs, pull>>
                  \/ /\ ~pull /\ pull' /\ bits = b
                     /\ register' = IF phase = "register" THEN b ELSE register
                     /\ regs' = IF phase = "value" THEN [regs EXCEPT ![register] = b]
                                ELSE regs
    <3>1. Carries(b) /\ Has(b)
      BY <2>2, <2>4
    <3>. QED
      BY <2>1, <1>5, <2>4, <3>1, SlotSent, SlotReceived DEF ByteOf
  <2>5. /\ Carries(ByteOf(entry))' /\ Has(ByteOf(entry))'
        /\ phase' = phase /\ phase = PhaseOfByte
        /\ \/ UNCHANGED <<register, regs, pull>>
           \/ /\ ~pull /\ pull'
              /\ register' = IF phase = "register" THEN ByteOf(entry) ELSE register
              /\ regs' = IF phase = "value"
                         THEN [regs EXCEPT ![register] = ByteOf(entry)] ELSE regs
    BY <2>3, <2>4 DEF Carries, Has
  <2>6. phase \in {"register", "value"} /\ (phase = "value" <=> BYTE = 2)
    BY <1>a, <2>1, <2>5 DEF PhaseOfByte
  <2>7. phase' = "value" \/ pull' => \E end \in Ends : register' = end.register
    BY <1>a, <2>1, <2>2, <2>5, <2>6 DEF ByteOf
  <2>8. BYTE' = 2 /\ entry # First =>
          register' = entry.register /\ regs'[register'] = entry.value
    BY <1>a, <1>b, <2>2, <1>5, <2>5, <2>6 DEF ByteOf
  <2>. QED
    BY <2>5, <2>7, <2>8 DEF StrayByte
<1>6. CASE BYTE' # BYTE
  <2>1. BYTE' = BYTE + 1 /\ BYTE \in {0, 1}
    BY <1>6, ByteLoaded
  <2>2. /\ pull /\ ~pull' /\ register' = register /\ regs' = regs
        /\ phase' = (IF BYTE = 0 THEN "register" ELSE "value")
    BY <1>6, ByteTaken
  <2>3. BYTE = 1 => \E end \in Ends : register = end.register
    BY <1>4, <2>2
  <2>4. mI2C_DATA \in Ends /\ (mI2C_DATA # First => READY = 1)
    <3>1. READY = 0 => mI2C_DATA = First
      BY <1>2 DEF Astray, Straying
    <3>. QED
      BY <1>a, <1>b, <1>3, <3>1 DEF BIT
  <2>5. BYTE = 1 /\ READY = 1 =>
          register = Last.register /\ regs[register] = Last.value
    BY <1>2, <1>3, <2>2 DEF DeliveryInv, Received
  <2>6. ASSUME NEW entry \in Ends, entry = mI2C_DATA
        PROVE  /\ Carries(ByteOf(entry))' /\ Has(ByteOf(entry))'
               /\ phase' = "value" \/ pull' => \E end \in Ends : register' = end.register
               /\ BYTE' = 2 /\ entry # First =>
                    register' = entry.register /\ regs'[register'] = entry.value
    <3>1. Carries(ByteOf(entry))' /\ Has(ByteOf(entry))'
      BY <1>b, <1>6, <2>6, ByteLoaded
    <3>2. phase' = "value" \/ pull' => \E end \in Ends : register' = end.register
      BY <2>1, <2>2, <2>3
    <3>3. BYTE' = 2 /\ entry # First =>
            register' = entry.register /\ regs'[register'] = entry.value
      BY <1>3, <2>1, <2>2, <2>4, <2>5, <2>6
    <3>. QED
      BY <3>1, <3>2, <3>3
  <2>. QED
    BY <2>4, <2>6 DEF StrayByte
<1>. QED
  BY <1>5, <1>6

LEMMA NextLoad == TypeInv /\ DeliveryInv /\ LoadInv /\ [Next]_vars => LoadInv'
<1>. SUFFICES ASSUME TypeInv, DeliveryInv, LoadInv, [Next]_vars PROVE LoadInv'
  OBVIOUS
<1>1. ASSUME NEW txInt \in TxIntLevels, EdgeAt(txInt)
      PROVE  LoadInv'
  <2>1. resets' = resets /\ masked' = (masked /\ ~StartSeen)
    BY <1>1 DEF EdgeAt, RecordHistory
  <2>2. resets = 0 => (~masked /\ SettledKept /\ Whole /\ Astray)'
    BY <1>1, <2>1, SettledKeptStep, WholeStep, StrayStep DEF LoadInv
  <2>. QED
    BY <1>1, <2>1, <2>2, PresentedStep DEF LoadInv
<1>2. CASE Reset
  BY <1>2, ResetLoad
<1>3. CASE UNCHANGED vars
  BY <1>3 DEF vars, writerVars, targetVars, configVars, LoadInv, Announced,
     StillPresented, SettledKept, Settled, Whole, Underway, Loading, Receiving,
     Astray, StrayByte, Straying, InByte, ByteOf, Carries, Has
<1>. QED
  BY <1>1, <1>2, <1>3 DEF Next, Edge

(* The invariant that ties the table, the registers and READY together     *)
(* holds of every behaviour.                                               *)
THEOREM LoadInvariant == Spec => []LoadInv
<1>. QED
  BY InitTypeInv, NextTypeInv, InitDelivery, NextDelivery, InitLoad, NextLoad, PTL
     DEF Spec

(* The two invariants, together.                                           *)
THEOREM ConfigInvariant == Spec => []ConfigInv
<1>. QED
  BY DeliveryInvariant, LoadInvariant, PTL DEF ConfigInv

(* READY means a configured transmitter, for every table, with refusals    *)
(* and reload requests at any time, until the first reset.                 *)
THEOREM ReadyIsConfigured == Spec => []ReadyMeansConfigured
<1>1. TypeInv /\ LoadInv => ReadyMeansConfigured
  <2>. SUFFICES ASSUME LoadInv, READY = 1, resets = 0, NEW i \in 1 .. LUT_SIZE - 1
                PROVE  Configured(i)
    BY DEF ReadyMeansConfigured
  <2>1. Settled(i) /\ SettledKept
    BY DEF Settled, LoadInv
  <2>2. ASSUME NEW j \in 1 .. LUT_SIZE - 1, j > i PROVE j \in i + 1 .. LUT_SIZE - 1
    BY <2>2
  <2>. QED
    BY <2>1, <2>2 DEF SettledKept, Configured
<1>. QED
  BY <1>1, InitTypeInv, NextTypeInv, InitDelivery, NextDelivery, InitLoad, NextLoad, PTL
     DEF Spec

(* START and STOP reach the target only between transfers and at their     *)
(* end, until the first reset.                                             *)
THEOREM TransfersAreWhole == Spec => NeverCut
<1>1. ASSUME TypeInv, DeliveryInv, LoadInv, Next, resets = 0
      PROVE  /\ StartSeen => phase = "idle"
             /\ StopSeen => \/ phase \in {"idle", "ignore"}
                            \/ phase = "more" /\ bits = <<0>>
  <2>1. ASSUME NEW txInt \in TxIntLevels, EdgeAt(txInt) PROVE Uncut
    BY <1>1, <2>1, WholeStep DEF LoadInv
  <2>2. CASE Reset
    BY <2>2 DEF Reset, WriterReset, StartSeen, StopSeen, Line
  <2>. QED
    BY <1>1, <2>1, <2>2 DEF Next, Edge, Uncut
<1>2. TypeInv /\ DeliveryInv /\ LoadInv /\ [Next]_vars =>
        [resets = 0 =>
           /\ StartSeen => phase = "idle"
           /\ StopSeen => \/ phase \in {"idle", "ignore"}
                          \/ phase = "more" /\ bits = <<0>>]_vars
  BY <1>1
<1>. QED
  BY <1>2, InitTypeInv, NextTypeInv, InitDelivery, NextDelivery, InitLoad, NextLoad, PTL
     DEF Spec, NeverCut

-----------------------------------------------------------------------------
(* The abstract loader.                                                    *)

(* After the last entry, what is sent once more is already there.          *)
LEMMA SentOnceMore ==
  ASSUME TypeInv, DeliveryInv, LoadInv, resets = 0, LUT_SIZE > 1,
         ~Loading \/ READY = 1, NEW txInt \in TxIntLevels, EdgeAt(txInt)
  PROVE  regs' = regs
<1>1. ~masked /\ SettledKept /\ mI2C_DATA = LUT_DATA[LUT_SIZE - 1] /\ Steady
  BY DEF LoadInv, StillPresented, Steady
<1>2. regs[mI2C_DATA.register] = mI2C_DATA.value
  <2>1. Settled(LUT_SIZE - 1)
    BY DEF Settled, Loading, TypeInv, TypeOK
  <2>. QED
    BY <1>1, <2>1 DEF SettledKept
<1>3. regs \in [Byte -> Byte \cup {Unwritten}]
  BY DEF TypeInv, TypeOK, TargetTypeOK
<1>4. ASSUME SCLO = 1, SCLO' = 0, Receiving, Len(bits) = ByteBits, Accept, phase = "value"
      PROVE  regs' = regs
  <2>1. regs' = [regs EXCEPT ![mI2C_DATA.register] = mI2C_DATA.value]
    BY <1>1, <1>4, StoredValue
  <2>. QED
    BY <1>2, <1>3, <2>1
<1>. QED
  BY <1>4, RegsKept DEF EdgeAt

(* While entry 0 is presented, the byte under way may still be stored.     *)
StrayStore ==
  \E i \in {0, LUT_SIZE - 1} :
    regs' = [regs EXCEPT ![LUT_DATA[i].register] = LUT_DATA[0].value]

LEMMA StoredAstray ==
  ASSUME TypeInv, DeliveryInv, LoadInv, resets = 0, Straying,
         NEW txInt \in TxIntLevels, EdgeAt(txInt)
  PROVE  regs' = regs \/ (StrayStore /\ ST = 5)
<1>1. ~masked /\ StrayByte
  BY DEF LoadInv, Astray
<1>2. regs \in [Byte -> Byte \cup {Unwritten}]
  BY DEF TypeInv, TypeOK, TargetTypeOK
<1>3. ASSUME SCLO = 1, SCLO' = 0, Receiving, Len(bits) = ByteBits, Accept, phase = "value"
      PROVE  regs' = regs \/ (StrayStore /\ ST = 5)
  <2>1. /\ ST = 5 /\ CNT = ByteBits /\ BYTE = 2
        /\ regs' = [regs EXCEPT ![register] = bits]
    BY <1>1, <1>3, StoreSlot
  <2>2. PICK entry \in Ends :
          /\ Has(ByteOf(entry))
          /\ \E end \in Ends : register = end.register
          /\ entry # LUT_DATA[0] =>
               register = entry.register /\ regs[register] = entry.value
    BY <1>1, <1>3, <2>1 DEF StrayByte, InByte
  <2>3. bits = entry.value
    <3>1. Has(entry.value) /\ entry.value \in Byte
      BY <2>1, <2>2 DEF ByteOf, Ends
    <3>. QED
      BY <1>3, <2>1, <3>1, HasAll
  <2>4. CASE entry = LUT_DATA[0]
    <3>1. PICK i \in {0, LUT_SIZE - 1} : register = LUT_DATA[i].register
      BY <2>2 DEF Ends
    <3>. QED
      BY <2>1, <2>3, <2>4, <3>1 DEF StrayStore
  <2>5. CASE entry # LUT_DATA[0]
    BY <1>2, <2>1, <2>2, <2>3, <2>5
  <2>. QED
    BY <2>4, <2>5
<1>. QED
  BY <1>3, RegsKept DEF EdgeAt

(* A value taken is stored.                                                *)
LEMMA TakenIsStored ==
  ASSUME TypeInv, DeliveryInv, ~masked, NEW txInt \in TxIntLevels, EdgeAt(txInt),
         NEW entry \in [register : Byte, value : Byte], Taken(entry)
  PROVE  regs' = [regs EXCEPT ![entry.register] = entry.value] /\ ST = 5
<1>1. /\ SCLO = 1 /\ SCLO' = 0 /\ Receiving /\ Len(bits) = ByteBits
      /\ Accept /\ phase = "value"
  BY RegsKept DEF EdgeAt, Taken
<1>. QED
  BY <1>1, StoreSlot DEF Taken

(* An edge is a step of the abstract loader or none: while an entry but    *)
(* the first is loaded,                                                    *)
LEMMA UnderwayLoads ==
  ASSUME TypeInv, DeliveryInv, LoadInv, resets = 0, Underway,
         NEW txInt \in TxIntLevels, EdgeAt(txInt)
  PROVE  \/ Loader!Store
         \/ Loader!Advance
         \/ UNCHANGED <<LUT_INDEX, regs>> /\ READY = 0 /\ READY' = 0
            /\ (delivered' <=> delivered)
<1>0. ConfigEdge(txInt) /\ RecordHistory /\ TargetStep
  BY DEF EdgeAt
<1>a. /\ LUT_INDEX \in 1 .. LUT_SIZE - 1 /\ READY = 0 /\ ~masked /\ SettledKept /\ Steady
      /\ delivered \in BOOLEAN
      /\ regs \in [Byte -> Byte \cup {Unwritten}]
      /\ LUT_DATA[LUT_INDEX] \in [register : Byte, value : Byte]
  BY DEF TypeInv, TypeOK, TargetTypeOK, LoadInv, Announced, Underway, Loading, Steady, BIT
<1>. DEFINE entry == LUT_DATA[LUT_INDEX]
<1>1. ~Loaded(txInt)
  BY DEF Loaded, Underway
<1>2. CASE SCLO = 1 /\ SCLO' = 0 /\ Receiving /\ Len(bits) = ByteBits
           /\ Accept /\ phase = "value"
  <2>1. /\ ST = 5 /\ ~pull /\ pull'
        /\ register = mI2C_DATA.register /\ bits = mI2C_DATA.value
        /\ regs' = [regs EXCEPT ![mI2C_DATA.register] = mI2C_DATA.value]
    BY <1>2, <1>a, StoredValue
  <2>2. mSetup_ST = 1 /\ mI2C_DATA = entry
    BY <2>1, Presented
  <2>3. Taken(entry) /\ AwaitEnd
    BY <1>0, <1>1, <1>2, <2>1, <2>2 DEF Taken, ConfigEdge, Present, NextEntry
  <2>4. LUT_INDEX' = LUT_INDEX /\ READY' = 0 /\ delivered'
    BY <1>0, <2>3 DEF AwaitEnd, RecordHistory
  <2>5. CASE delivered
    <3>1. Settled(LUT_INDEX) /\ \A j \in 1 .. LUT_SIZE - 1 : j > LUT_INDEX => ~Settled(j)
      BY <1>a, <2>5 DEF Settled
    <3>2. regs[entry.register] = entry.value
      BY <1>a, <3>1 DEF SettledKept
    <3>. QED
      BY <1>a, <2>1, <2>2, <2>4, <2>5, <3>2
  <2>6. CASE ~delivered
    <3>1. READY' = READY
      BY <1>a, <2>4
    <3>. QED
      BY <1>a, <2>1, <2>2, <2>4, <2>6, <3>1 DEF Loader!Store
  <2>. QED
    BY <2>5, <2>6
<1>3. CASE regs' = regs /\ (pull' => pull \/ phase # "value")
  <2>1. CASE NextEntry
    <3>1. LUT_INDEX' = LUT_INDEX + 1 /\ READY' = READY /\ ~delivered' /\ delivered
      BY <1>0, <1>a, <2>1 DEF NextEntry, RecordHistory, DeliveryInv, Acknowledged
    <3>. QED
      BY <1>a, <1>3, <3>1 DEF Loader!Advance
  <2>2. CASE Present \/ AwaitEnd
    <3>1. LUT_INDEX' = LUT_INDEX /\ READY' = 0
      BY <2>2 DEF Present, AwaitEnd
    <3>2. delivered' <=> delivered
      BY <1>0, <1>3, <3>1 DEF RecordHistory, Taken
    <3>. QED
      BY <1>a, <1>3, <3>1, <3>2
  <2>. QED
    BY <1>0, <1>1, <2>1, <2>2 DEF ConfigEdge
<1>. QED
  BY <1>0, <1>2, <1>3, RegsKept

(* while the first is,                                                     *)
LEMMA FirstLoads ==
  ASSUME TypeInv, DeliveryInv, LoadInv, resets = 0, LUT_SIZE > 1, LUT_INDEX = 0,
         NEW txInt \in TxIntLevels, EdgeAt(txInt)
  PROVE  Loader!Advance \/ Loader!Withdraw \/ Loader!Stray
<1>0. ConfigEdge(txInt) /\ RecordHistory
  BY DEF EdgeAt
<1>a. READY \in BIT /\ ~masked /\ Announced /\ delivered \in BOOLEAN
      /\ LUT_DATA[0] \in [register : Byte, value : Byte]
  BY ConstantFacts DEF TypeInv, TypeOK, LoadInv
<1>1. regs' = regs \/ (StrayStore /\ ST = 5)
  <2>1. CASE READY = 1
    BY <2>1, SentOnceMore
  <2>2. CASE READY = 0
    BY <2>2, StoredAstray DEF Straying
  <2>. QED
    BY <1>a, <2>1, <2>2 DEF BIT
<1>2. CASE NextEntry
  <2>1. LUT_INDEX' = LUT_INDEX + 1 /\ READY' = READY /\ ~delivered' /\ ST # 5
    BY <1>0, <1>a, <1>2
       DEF NextEntry, RecordHistory, Announced, Loading, BIT, DeliveryInv, Handshake
  <2>. QED
    BY <1>1, <2>1 DEF Loader!Advance
<1>3. CASE Present \/ AwaitEnd
  <2>1. LUT_INDEX' = LUT_INDEX /\ READY' = 0 /\ delivered' \in BOOLEAN
    BY <1>0, <1>3 DEF Present, AwaitEnd, RecordHistory
  <2>2. Taken(LUT_DATA[0]) => StrayStore
    BY <1>a, TakenIsStored DEF StrayStore
  <2>3. CASE StrayStore
    <3>1. (READY = 1)' \in {READY = 1, FALSE}
      <4>1. ~(READY' = 1)
        BY <2>1
      <4>2. (READY = 1)' = FALSE
        BY <4>1, Zenon
      <4>. QED
        BY <4>2, Zenon
    <3>. QED
      BY <2>1, <2>3, <3>1 DEF Loader!Stray, StrayStore
  <2>4. CASE ~StrayStore
    <3>1. regs' = regs /\ (delivered' <=> delivered)
      BY <1>0, <1>1, <2>1, <2>2, <2>4 DEF RecordHistory
    <3>2. delivered' = delivered
      BY <1>a, <2>1, <3>1
    <3>. QED
      BY <2>1, <3>1, <3>2 DEF Loader!Withdraw
  <2>. QED
    BY <2>3, <2>4
<1>. QED
  BY <1>0, <1>2, <1>3 DEF ConfigEdge, Loaded, Loading

(* and after the last.                                                     *)
LEMMA LastLoads ==
  ASSUME TypeInv, DeliveryInv, LoadInv, resets = 0, LUT_SIZE > 1, ~Loading,
         NEW txInt \in TxIntLevels, EdgeAt(txInt)
  PROVE  Loader!Announce \/ Loader!Reload
<1>0. Loaded(txInt) /\ RecordHistory
  BY DEF EdgeAt, ConfigEdge, Present, AwaitEnd, NextEntry
<1>1. LUT_INDEX = LUT_SIZE /\ LUT_INDEX' \in {0, LUT_SIZE} /\ READY' = 1
  BY <1>0 DEF Loaded, Loading, TypeInv, TypeOK
<1>2. regs' = regs
  BY SentOnceMore
<1>3. delivered' = delivered
  BY <1>0 DEF RecordHistory, LoadInv, Astray, TypeInv, TypeOK
<1>. QED
  BY <1>1, <1>2, <1>3 DEF Loader!Announce, Loader!Reload

(* With refusals and reload requests at any time, the design goes through  *)
(* the table as the abstract loader says: every entry but the first is     *)
(* stored once before the next, in order, nothing else is stored, and      *)
(* READY announces the end.  This is the safety half of LoadsRegisters.    *)
(* With a table of one entry the transfer sent once more would store       *)
(* entry 0 after the announcement; the table of the RTL has 31.            *)
THEOREM LoadsInOrder ==
  ASSUME LUT_SIZE > 1
  PROVE  Spec => Loader!Spec
<1>1. Init => Loader!Init
  BY DEF Init, TargetInit, Loader!Init
<1>2. ASSUME TypeInv, DeliveryInv, LoadInv, [Next]_vars
      PROVE  [Loader!Next]_<<LUT_INDEX, delivered, regs, READY = 1, resets = 0>>
  <2>1. ASSUME resets = 0, NEW txInt \in TxIntLevels, EdgeAt(txInt)
        PROVE  [Loader!Next]_<<LUT_INDEX, delivered, regs, READY = 1, resets = 0>>
    <3>1. resets' = resets
      BY <2>1 DEF EdgeAt, RecordHistory
    <3>2. CASE Underway
      <4>1. CASE Loader!Store \/ Loader!Advance
        BY <2>1, <3>1, <4>1 DEF Loader!Next, Loader!Work
      <4>2. CASE UNCHANGED <<LUT_INDEX, regs>> /\ READY = 0 /\ READY' = 0
                 /\ (delivered' <=> delivered)
        <5>1. delivered' = delivered
          BY <1>2, <2>1, <4>2 DEF TypeInv, TypeOK, EdgeAt, RecordHistory
        <5>. QED
          BY <3>1, <4>2, <5>1
      <4>. QED
        BY <1>2, <2>1, <3>2, <4>1, <4>2, UnderwayLoads
    <3>3. CASE LUT_INDEX = 0
      <4>1. Loader!Advance \/ Loader!Withdraw \/ Loader!Stray
        BY <1>2, <2>1, <3>3, FirstLoads
      <4>. QED
        BY <2>1, <3>1, <4>1 DEF Loader!Next, Loader!Work, Loader!Disturbed
    <3>4. CASE ~Loading
      <4>1. Loader!Announce \/ Loader!Reload
        BY <1>2, <2>1, <3>4, LastLoads
      <4>. QED
        BY <2>1, <3>1, <4>1 DEF Loader!Next, Loader!Work, Loader!Disturbed
    <3>. QED
      BY <3>2, <3>3, <3>4 DEF Underway
  <2>2. CASE resets # 0 \/ Reset
    <3>1. resets' = resets \/ resets' = resets + 1
      <4>1. CASE Next
        BY <4>1 DEF Next, Edge, EdgeAt, RecordHistory, Reset
      <4>2. CASE UNCHANGED vars
        BY <4>2 DEF vars
      <4>. QED
        BY <1>2, <4>1, <4>2
    <3>3. resets \in Nat
      BY <1>2 DEF TypeInv, TypeOK
    <3>2. resets' # 0
      BY <2>2, <3>1, <3>3 DEF Reset
    <3>. QED
      BY <3>2 DEF Loader!Next
  <2>3. CASE UNCHANGED vars
    BY <2>3 DEF vars, targetVars, configVars
  <2>. QED
    BY <1>2, <2>1, <2>2, <2>3 DEF Next, Edge
<1>. QED
  BY <1>1, <1>2, InitTypeInv, NextTypeInv, InitDelivery, NextDelivery, InitLoad, NextLoad,
     PTL DEF Spec, Loader!Spec, Loader!loaderVars
=============================================================================
