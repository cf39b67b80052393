----------------------- MODULE AvalonI2cDriverProofs -----------------------
(***************************************************************************)
(* Proofs about AvalonI2cDriver on a bus of its own, for every chip, every *)
(* depth of the FIFOs and any number of refusals and tries: a polling call *)
(* that reports success did what it says, overruns no buffer and leaves    *)
(* nothing behind.                                                         *)
(*                                                                         *)
(* A call is the list of commands its two functions write, and the         *)
(* invariant counts along that list: w commands are written, the last of   *)
(* them are queued, the machine is at the one popped last, and the chip    *)
(* has acted on that one or on the one before it.  Once a byte is refused  *)
(* all that is known is that nothing is queued and the machine stops.      *)
(***************************************************************************)
EXTENDS AvalonI2cDriver, Integers, TLAPS

USE ChipAssumption, CoreAssumption

(* The commands of a call: those of the bytes it sends, then those of the  *)
(* bytes it asks for.  STOP goes with the last of all.                     *)
Sends == IF request.tx = <<>> THEN 0 ELSE Len(request.tx) + 1
Asks  == IF request.rx = 0 THEN 0 ELSE request.rx + 1
Total == Sends + Asks

Entry(j) ==
  Command(IF j = Sends + 1 THEN ReadAddress
          ELSE IF j > Sends THEN 0
          ELSE IF j = 1 THEN WriteAddress ELSE request.tx[j - 1],
          j = Sends + 1 /\ Sends > 0,
          j = Total)

(* The commands of this function, and of the call before it. *)
Length == IF fn = "transmit" THEN Sends ELSE Asks
Base   == IF fn = "transmit" THEN 0 ELSE Sends

CallType == [tx : Seq(Nat), rx : 0 .. Depth]

(* A call the FIFO and the chip can serve: what it asks for fits in the    *)
(* receive FIFO, and it writes no register twice.                          *)
Fits(r) ==
  /\ r \in CallType
  /\ r.tx # <<>> \/ r.rx > 0
  /\ Len(r.tx) <= Registers + 1

LEMMA Sizes ==
  ASSUME Fits(request)
  PROVE  /\ Sends \in Nat /\ Asks \in Nat /\ Total \in Nat \ {0}
         /\ Total = Sends + Asks
         /\ request.tx = <<>> => Sends = 0
         /\ request.tx # <<>> => Sends = Len(request.tx) + 1 /\ Sends > 1
         /\ request.rx = 0 => Asks = 0
         /\ request.rx > 0 => Asks = request.rx + 1 /\ Asks > 1
         /\ request.rx \in 0 .. Depth /\ request.tx \in Seq(Nat)
         /\ Len(request.tx) \in Nat
<1>1. request.tx \in Seq(Nat) /\ request.rx \in 0 .. Depth
  BY DEF Fits, CallType
<1>2. Len(request.tx) \in Nat /\ (request.tx # <<>> => Len(request.tx) > 0)
  BY <1>1
<1>3. /\ request.tx = <<>> => Sends = 0
      /\ request.tx # <<>> => Sends = Len(request.tx) + 1 /\ Sends > 1
      /\ Sends \in Nat
  BY <1>2 DEF Sends
<1>4. /\ request.rx = 0 => Asks = 0
      /\ request.rx > 0 => Asks = request.rx + 1 /\ Asks > 1
      /\ Asks \in Nat
  BY <1>1 DEF Asks
<1>5. request.tx # <<>> \/ request.rx > 0
  BY DEF Fits
<1> QED BY <1>1, <1>2, <1>3, <1>4, <1>5 DEF Total

-----------------------------------------------------------------------------
(* Registers in sequence, modulo their number.                             *)
LEMMA Division ==
  ASSUME NEW x \in Nat
  PROVE  /\ x \div Registers \in Int /\ x % Registers \in 0 .. Registers - 1
         /\ x = (x \div Registers) * Registers + (x % Registers)
  OBVIOUS

LEMMA Remainder ==
  ASSUME NEW x \in Nat, NEW q \in Int, NEW r \in Register,
         x = q * Registers + r
  PROVE  x % Registers = r
<1> DEFINE p == x \div Registers
           m == x % Registers
<1>1. p \in Int /\ m \in 0 .. Registers - 1 /\ x = p * Registers + m
  BY Division
<1>2. r \in 0 .. Registers - 1
  BY DEF Register
<1> HIDE DEF p, m
<1>3. ASSUME p + 1 <= q PROVE FALSE
  <2>1. (p + 1) * Registers <= q * Registers
    BY <1>1, <1>3
  <2>2. (p + 1) * Registers = p * Registers + Registers
    BY <1>1
  <2> QED BY <1>1, <1>2, <2>1, <2>2
<1>4. ASSUME q + 1 <= p PROVE FALSE
  <2>1. (q + 1) * Registers <= p * Registers
    BY <1>1, <1>4
  <2>2. (q + 1) * Registers = q * Registers + Registers
    OBVIOUS
  <2> QED BY <1>1, <1>2, <2>1, <2>2
<1>5. p = q
  BY <1>1, <1>3, <1>4
<1>6. m = r
  BY <1>1, <1>2, <1>5
<1> QED BY <1>6 DEF m

LEMMA Successor ==
  ASSUME NEW x \in Nat
  PROVE  /\ x % Registers \in Register
         /\ ((x % Registers) + 1) % Registers = (x + 1) % Registers
<1> DEFINE q == x \div Registers
           m == x % Registers
<1>1. q \in Int /\ m \in 0 .. Registers - 1 /\ x = q * Registers + m
  BY Division
<1>2. m \in Register /\ Registers \in Nat \ {0}
  BY <1>1 DEF Register
<1> HIDE DEF q, m
<1>3. CASE m + 1 < Registers
  <2>1. m + 1 \in Register /\ m + 1 \in Nat
    BY <1>1, <1>3 DEF Register
  <2>2. x + 1 = q * Registers + (m + 1) /\ m + 1 = 0 * Registers + (m + 1)
    BY <1>1
  <2>3. (x + 1) % Registers = m + 1
    BY <1>1, <2>1, <2>2, Remainder
  <2>4. (m + 1) % Registers = m + 1
    BY <2>1 DEF Register
  <2> QED BY <1>2, <2>3, <2>4 DEF m
<1>4. CASE m + 1 = Registers
  <2>1. x + 1 = (q + 1) * Registers + 0 /\ m + 1 = 1 * Registers + 0
    <3>1. (q + 1) * Registers = q * Registers + Registers
      BY <1>1
    <3> QED BY <1>1, <1>4, <3>1
  <2>2. 0 \in Register /\ x + 1 \in Nat /\ m + 1 \in Nat /\ q + 1 \in Int
    BY <1>1 DEF Register
  <2>3. (x + 1) % Registers = 0
    BY <2>1, <2>2, Remainder
  <2>4. (m + 1) % Registers = 0
    BY <2>1, <2>2, Remainder
  <2> QED BY <1>2, <2>3, <2>4 DEF m
<1> QED BY <1>1, <1>3, <1>4

LEMMA ApartRegisters ==
  ASSUME NEW x \in Nat, NEW d \in 1 .. Registers - 1
  PROVE  x % Registers # (x + d) % Registers
<1> SUFFICES ASSUME x % Registers = (x + d) % Registers PROVE FALSE
  OBVIOUS
<1> DEFINE m == x % Registers
           p == x \div Registers
           q == (x + d) \div Registers
<1>0. x + d \in Nat
  OBVIOUS
<1>1. /\ p \in Int /\ m \in 0 .. Registers - 1 /\ x = p * Registers + m
      /\ q \in Int /\ x + d = q * Registers + m
  <2>1. p \in Int /\ m \in 0 .. Registers - 1 /\ x = p * Registers + m
    BY Division
  <2>2. q \in Int /\ x + d = q * Registers + m
    BY <1>0, Division, Zenon
  <2> QED BY <2>1, <2>2
<1> HIDE DEF m, p, q
<1>2. CASE p + 1 <= q
  <2>1. (p + 1) * Registers <= q * Registers
    BY <1>1, <1>2
  <2>2. (p + 1) * Registers = p * Registers + Registers
    BY <1>1
  <2> QED BY <1>1, <2>1, <2>2
<1>3. CASE q <= p
  <2>1. q * Registers <= p * Registers
    BY <1>1, <1>3
  <2> QED BY <1>1, <2>1
<1> QED BY <1>1, <1>2, <1>3

-----------------------------------------------------------------------------
(* The list of commands. *)
LEMMA Prefixed ==
  ASSUME NEW S, NEW e \in S, NEW n \in Nat, NEW f \in [1 .. n -> S]
  PROVE  /\ Len(<<e>> \o f) = n + 1
         /\ (<<e>> \o f)[1] = e
         /\ \A i \in 2 .. n + 1 : (<<e>> \o f)[i] = f[i - 1]
<1>1. f \in Seq(S) /\ Len(f) = n
  OBVIOUS
<1>2. <<e>> \in Seq(S) /\ Len(<<e>>) = 1 /\ <<e>>[1] = e
  OBVIOUS
<1> QED BY <1>1, <1>2

(* What the two functions write is the list. *)
LEMMA CommandsListed ==
  ASSUME Fits(request), fn \in {"transmit", "receive"}, Length > 0
  PROVE  /\ Len(Commands) = Length
         /\ \A i \in 1 .. Length : Commands[i] = Entry(Base + i)
<1>1. CASE fn = "transmit"
  <2> DEFINE bytes == [i \in 1 .. Len(request.tx) |->
        Command(request.tx[i], FALSE, request.rx = 0 /\ i = Len(request.tx))]
      address == Command(WriteAddress, FALSE, FALSE)
  <2>1. request.tx # <<>> /\ Length = Sends /\ Base = 0
    BY <1>1, Sizes DEF Length, Base
  <2>2. bytes \in [1 .. Len(request.tx) -> CommandType] /\ address \in CommandType
    BY Sizes DEF CommandType, Byte, Command, WriteAddress
  <2>3. /\ Len(TransmitCommands) = Sends
        /\ TransmitCommands[1] = address
        /\ \A i \in 2 .. Sends : TransmitCommands[i] = bytes[i - 1]
    <3> HIDE DEF bytes, address
    <3>1. TransmitCommands = <<address>> \o bytes
      BY DEF TransmitCommands, bytes, address
    <3> QED BY <2>1, <2>2, <3>1, Sizes, Prefixed
  <2>4. ASSUME NEW i \in 1 .. Sends PROVE TransmitCommands[i] = Entry(i)
    <3>1. CASE i = 1
      <4>1. ~(i = Sends + 1) /\ ~(i > Sends) /\ (i = Total) = FALSE
        BY <2>1, <3>1, Sizes
      <4>2. Entry(i) = Command(WriteAddress, FALSE, FALSE)
        BY <3>1, <4>1, Zenon DEF Entry
      <4> QED BY <2>3, <3>1, <4>2
    <3>2. CASE i > 1
      <4>1. i - 1 \in 1 .. Len(request.tx)
        BY <2>1, <3>2, Sizes
      <4>2. (request.rx = 0 /\ i - 1 = Len(request.tx)) = (i = Total)
        BY <2>1, Sizes
      <4>3. ~(i = Sends + 1) /\ ~(i > Sends) /\ ~(i = 1)
        BY <3>2, Sizes
      <4>4. Entry(i) = Command(request.tx[i - 1], FALSE, i = Total)
        BY <4>3, Zenon DEF Entry
      <4>5. bytes[i - 1] = Command(request.tx[i - 1], FALSE, i = Total)
        BY <4>1, <4>2, Zenon
      <4>6. i \in 2 .. Sends
        BY <3>2, Sizes
      <4>7. TransmitCommands[i] = bytes[i - 1]
        BY <2>3, <4>6, Zenon
      <4> QED BY <4>4, <4>5, <4>7, Zenon
    <3> QED BY <3>1, <3>2
  <2> QED BY <1>1, <2>1, <2>3, <2>4, Sizes DEF Commands
<1>2. CASE fn = "receive"
  <2> DEFINE bytes == [i \in 1 .. request.rx |->
                         Command(0, FALSE, i = request.rx)]
      address == Command(ReadAddress, request.tx # <<>>, FALSE)
  <2>1. request.rx > 0 /\ Length = Asks /\ Base = Sends
    BY <1>2, Sizes DEF Length, Base
  <2>2. bytes \in [1 .. request.rx -> CommandType] /\ address \in CommandType
    BY Sizes DEF CommandType, Byte, Command, ReadAddress
  <2>3. /\ Len(ReceiveCommands) = Asks
        /\ ReceiveCommands[1] = address
        /\ \A i \in 2 .. Asks : ReceiveCommands[i] = bytes[i - 1]
    <3> HIDE DEF bytes, address
    <3>1. ReceiveCommands = <<address>> \o bytes
      BY DEF ReceiveCommands, bytes, address
    <3> QED BY <2>1, <2>2, <3>1, Sizes, Prefixed
  <2>4. ASSUME NEW i \in 1 .. Asks PROVE ReceiveCommands[i] = Entry(Sends + i)
    <3>1. CASE i = 1
      <4>1. (request.tx # <<>>) = (Sends > 0)
        BY Sizes
      <4>2. (Sends + 1 = Total) = FALSE
        BY <2>1, Sizes
      <4> QED BY <2>3, <3>1, <4>1, <4>2, Sizes DEF Entry
    <3>2. CASE i > 1
      <4>1. i - 1 \in 1 .. request.rx
        BY <2>1, <3>2, Sizes
      <4>2. (i - 1 = request.rx) = (Sends + i = Total)
        BY <2>1, Sizes
      <4>3. ~(Sends + i = Sends + 1) /\ Sends + i > Sends
        BY <3>2, Sizes
      <4>4. Entry(Sends + i) = Command(0, FALSE, Sends + i = Total)
        BY <4>3, Zenon DEF Entry
      <4>5. bytes[i - 1] = Command(0, FALSE, Sends + i = Total)
        BY <4>1, <4>2, Zenon
      <4>6. i \in 2 .. Asks
        BY <3>2, Sizes
      <4>7. ReceiveCommands[i] = bytes[i - 1]
        BY <2>3, <4>6, Zenon
      <4> QED BY <4>4, <4>5, <4>7, Zenon
    <3> QED BY <3>1, <3>2
  <2> QED BY <1>2, <2>1, <2>3, <2>4, Sizes DEF Commands
<1> QED BY <1>1, <1>2

LEMMA EntryTyped ==
  ASSUME Fits(request), NEW j \in 1 .. Total
  PROVE  /\ Entry(j) \in CommandType
         /\ Entry(j).sta <=> (j = Sends + 1 /\ Sends > 0)
         /\ Entry(j).sto <=> j = Total
         /\ j = 1 /\ Sends > 0 => Entry(j).byte = WriteAddress
         /\ j = Sends + 1 => Entry(j).byte = ReadAddress
         /\ j \in 2 .. Sends => Entry(j).byte = request.tx[j - 1]
<1>1. /\ Entry(j).sta <=> (j = Sends + 1 /\ Sends > 0)
      /\ Entry(j).sto <=> j = Total
  BY Zenon DEF Entry, Command
<1>2. j \in Nat /\ j >= 1 /\ j <= Total /\ Total = Sends + Asks /\ Sends \in Nat
  BY Sizes
<1>3. Entry(j).byte = IF j = Sends + 1 THEN ReadAddress
                      ELSE IF j > Sends THEN 0
                      ELSE IF j = 1 THEN WriteAddress ELSE request.tx[j - 1]
  BY Zenon DEF Entry, Command
<1>4. /\ j = 1 /\ Sends > 0 => Entry(j).byte = WriteAddress
      /\ j = Sends + 1 => Entry(j).byte = ReadAddress
      /\ j \in 2 .. Sends => Entry(j).byte = request.tx[j - 1]
  BY <1>2, <1>3
<1>5. Entry(j).byte \in Nat
  <2>1. CASE j \in 2 .. Sends
    <3>1. request.tx \in Seq(Nat) /\ j - 1 \in 1 .. Len(request.tx)
      BY <1>2, <2>1, Sizes
    <3>2. request.tx[j - 1] \in Nat
      BY <3>1
    <3> QED BY <1>4, <2>1, <3>2
  <2>2. CASE j \notin 2 .. Sends
    BY <1>2, <1>3, <2>2 DEF ReadAddress, WriteAddress
  <2> QED BY <2>1, <2>2
<1>6. Entry(j) \in CommandType
  BY <1>5, Zenon DEF Entry, Command, CommandType, Byte
<1> QED BY <1>1, <1>4, <1>6

-----------------------------------------------------------------------------
(* Where a transaction is.                                                 *)

(* Registers in sequence from the first byte sent. *)
From(i) == (request.tx[1] + i) % Registers

(* Bytes that have come when the chip has acted on n commands. *)
Came(n) == IF n > Sends + 1 THEN n - Sends - 1 ELSE 0

SampleOf(i) == [register |-> From(Len(request.tx) + i - 2), attempt |-> attempt]

(* What the chip and the way back hold when it has acted on n commands.    *)
Carried(n) ==
  /\ n \in 1 .. Sends => (pointing <=> n = 1)
  /\ n > 1 /\ Sends > 0 =>
       pointer = From(IF n > Sends THEN n - 3 ELSE n - 2)
  /\ \A i \in 2 .. Len(request.tx) : i < n => written[From(i - 2)] = request.tx[i]
  /\ Len(buffer) + Len(rxfifo) = Came(n)
  /\ Sends > 0 =>
       /\ \A i \in 1 .. Len(buffer) : buffer[i] = SampleOf(i)
       /\ \A i \in 1 .. Len(rxfifo) : rxfifo[i] = SampleOf(Len(buffer) + i)

(* The machine is done with the command popped last, the n-th. *)
Between(n) ==
  \/ core \in {"PRE_START", "GEN_START", "POP_TX_FIFO"} /\ n = 0
     /\ ~sent_7bit_addr
  \/ /\ core \in {"POP_TX_FIFO", "BUS_HOLD"} /\ n \in 1 .. Total - 1
     /\ sent_7bit_addr /\ (rw_cmd <=> n > Sends)
  \/ core \in {"GEN_STOP", "PRE_IDLE"} /\ n = Total
     /\ (core = "PRE_IDLE" => ~sent_7bit_addr)
  \/ /\ core = "RX_ACK" /\ n \in Sends + 2 .. Total
     /\ cmd = Entry(n) /\ sent_7bit_addr /\ rw_cmd

(* It is at work on it. *)
Within(n) ==
  /\ cmd = Entry(n)
  /\ \/ core = "GEN_RESTART_7BIT" /\ ~sent_7bit_addr /\ n = Sends + 1
        /\ n < Total
     \/ core = "GEN_7BIT_ADDR" /\ ~sent_7bit_addr /\ n \in {1, Sends + 1}
        /\ n < Total
     \/ core = "TX_BYTE" /\ n \in 2 .. Sends /\ sent_7bit_addr /\ ~rw_cmd
     \/ core = "RX_BYTE" /\ n \in Sends + 2 .. Total /\ sent_7bit_addr /\ rw_cmd

(* The transaction goes as written: of the w commands written, n were      *)
(* popped and the others are queued.                                       *)
Clean(n, w) ==
  /\ ~nack_det
  /\ w \in 0 .. Total /\ n + Len(txfifo) = w
  /\ \A i \in 1 .. Len(txfifo) : txfifo[i] = Entry(n + i)
  /\ core \in {"GEN_START", "POP_TX_FIFO"} => txfifo # <<>>
  /\ \/ Between(n) /\ Carried(n)
     \/ Within(n) /\ Carried(n - 1)

Underway(w) == \E n \in 0 .. Total : Clean(n, w)

(* It was refused: nothing is queued and the machine stops. *)
Refusal ==
  /\ nack_det
  /\ txfifo = <<>> /\ rxfifo = <<>>
  /\ core \in {"GEN_STOP", "PRE_IDLE"}
  /\ core = "PRE_IDLE" => ~sent_7bit_addr

(* What was asked for is in the buffer, what was sent is in the chip.      *)
Delivered ==
  /\ Len(buffer) = request.rx
  /\ request.tx # <<>> => \A i \in 1 .. request.rx : buffer[i] = SampleOf(i)
  /\ \A i \in 2 .. Len(request.tx) : written[From(i - 2)] = request.tx[i]

(* Nothing is under way. *)
AtRest ==
  /\ txfifo = <<>> /\ rxfifo = <<>> /\ ~ctrl_en
  /\ core \in {"IDLE", "PRE_IDLE"} /\ ~sent_7bit_addr

OnBus == {"GEN_START", "POP_TX_FIFO", "GEN_7BIT_ADDR", "GEN_RESTART_7BIT",
          "TX_BYTE", "RX_BYTE", "RX_ACK", "BUS_HOLD", "GEN_STOP"}

(* No other master. *)
Alone ==
  /\ contentions = 0 /\ ~arblost_det
  /\ bus = IF core \in OnBus THEN "ours" ELSE "idle"

SampleType == [register : Nat, attempt : Nat]

CallTypeOK ==
  /\ pointer \in Register /\ pointing \in BOOLEAN
  /\ written \in [Register -> Nat] /\ nacks \in 0 .. MaxNacks
  /\ ctrl_en \in BOOLEAN /\ nack_det \in BOOLEAN /\ arblost_det \in BOOLEAN
  /\ sent_7bit_addr \in BOOLEAN /\ rw_cmd \in BOOLEAN
  /\ tfr_cmd_fifo_thd \in 0 .. Depth - 1
  /\ cmd \in CommandType
  /\ txfifo \in Seq(CommandType) /\ Len(txfifo) <= Depth
  /\ rxfifo \in Seq(SampleType)
  /\ buffer \in Seq(SampleType)
  /\ attempt \in Nat /\ retry \in 0 .. Tries - 1
  /\ fn \in {"transmit", "receive"}
  /\ request \in CallType

LEMMA SameRequest ==
  ASSUME request' = request
  PROVE  /\ Sends' = Sends /\ Asks' = Asks /\ Total' = Total
         /\ \A j : Entry(j)' = Entry(j)
         /\ \A j : From(j)' = From(j)
         /\ \A j : Came(j)' = Came(j)
         /\ Fits(request) => Fits(request)'
  BY DEF Sends, Asks, Total, Entry, From, Came, Fits

LEMMA CarriedKept ==
  ASSUME NEW n, Carried(n),
         UNCHANGED <<pointer, pointing, written, buffer, rxfifo, request, attempt>>
  PROVE  Carried(n)'
  BY SameRequest DEF Carried, SampleOf

(* The steps between the bytes. *)
LEMMA PopClean ==
  ASSUME CallTypeOK, Fits(request), NEW w, NEW n \in 0 .. Total, Clean(n, w),
         Pop, UNCHANGED driverVars
  PROVE  n + 1 \in 0 .. Total /\ Clean(n + 1, w)'
<1>0. /\ Sends \in Nat /\ Asks \in Nat /\ Total \in Nat
      /\ Total = Sends + Asks /\ Asks # 1
  BY Sizes
<1>1. /\ core = "POP_TX_FIFO" /\ txfifo # <<>> /\ txfifo \in Seq(CommandType)
      /\ Between(n) /\ Carried(n) /\ w \in 0 .. Total
      /\ n + Len(txfifo) = w /\ ~nack_det
      /\ \A i \in 1 .. Len(txfifo) : txfifo[i] = Entry(n + i)
  BY DEF Pop, Clean, Within, CallTypeOK
<1>2. /\ UNCHANGED <<pointer, pointing, written, buffer, rxfifo, request, attempt>>
      /\ nack_det' = nack_det /\ rw_cmd' = rw_cmd
  BY DEF Pop, driverVars, chipVars, isrVars
<1>3. /\ Len(txfifo) > 0 /\ n + 1 \in 1 .. Total
      /\ Head(txfifo) = Entry(n + 1) /\ Len(Tail(txfifo)) = Len(txfifo) - 1
      /\ \A i \in 1 .. Len(Tail(txfifo)) : Tail(txfifo)[i] = Entry(n + 1 + i)
  <2>1. Len(txfifo) \in Nat /\ Len(txfifo) > 0 /\ Total \in Nat
    BY <1>1, <1>0
  <2>2. Head(txfifo) = txfifo[1] /\ Len(Tail(txfifo)) = Len(txfifo) - 1
    BY <1>1, <2>1
  <2>3. ASSUME NEW i \in 1 .. Len(Tail(txfifo))
        PROVE  Tail(txfifo)[i] = Entry(n + 1 + i)
    <3>1. Tail(txfifo)[i] = txfifo[i + 1] /\ i + 1 \in 1 .. Len(txfifo)
      BY <1>1, <2>1, <2>2
    <3>2. n + (i + 1) = n + 1 + i
      BY <2>1, <2>2
    <3> QED BY <1>1, <3>1, <3>2
  <2> QED BY <1>1, <2>1, <2>2, <2>3
<1>4. cmd' = Entry(n + 1) /\ txfifo' = Tail(txfifo)
  BY <1>3 DEF Pop
<1>5. Carried(n)' /\ n + 1 - 1 = n
  BY <1>1, <1>2, CarriedKept
<1>6. cmd'.sta <=> (n + 1 = Sends + 1 /\ Sends > 0)
  BY <1>3, <1>4, EntryTyped
<1>7. /\ sent_7bit_addr /\ ~cmd'.sta => sent_7bit_addr'
      /\ ~sent_7bit_addr \/ cmd'.sta => ~sent_7bit_addr'
      /\ rw_cmd => rw_cmd'
      /\ ~rw_cmd => ~rw_cmd'
  <2>1. sent_7bit_addr' = (sent_7bit_addr /\ ~cmd'.sta)
    BY Zenon DEF Pop
  <2>2. sent_7bit_addr /\ ~cmd'.sta => sent_7bit_addr'
    BY <2>1, Zenon
  <2>3. ~sent_7bit_addr \/ cmd'.sta => ~sent_7bit_addr'
    BY <2>1, Zenon
  <2> QED BY <1>2, <2>2, <2>3, Zenon
<1>8. /\ ~sent_7bit_addr => core' = "GEN_7BIT_ADDR"
      /\ sent_7bit_addr /\ cmd'.sta => core' = "GEN_RESTART_7BIT"
      /\ sent_7bit_addr /\ ~cmd'.sta /\ rw_cmd => core' = "RX_BYTE"
      /\ sent_7bit_addr /\ ~cmd'.sta /\ ~rw_cmd => core' = "TX_BYTE"
  BY Zenon DEF Pop, Goto
<1>9. core' \notin {"GEN_START", "POP_TX_FIFO"}
  BY <1>8
<1>10. cmd' = Entry(n + 1)' /\ Sends' = Sends /\ Asks' = Asks /\ Total' = Total
  BY <1>2, <1>4, SameRequest
<1>11. Within(n + 1)'
  <2>1. CASE n = 0
    <3>1. ~sent_7bit_addr /\ 1 < Total
      BY <1>1, <2>1, Sizes DEF Between, Fits
    <3> QED BY <1>7, <1>8, <1>10, <2>1, <3>1 DEF Within
  <2>2. CASE n > 0
    <3>1. sent_7bit_addr /\ (rw_cmd <=> n > Sends) /\ n \in 1 .. Total - 1
      BY <1>1, <2>2, <1>0 DEF Between
    <3>2. CASE n < Sends
      <4>1. ~cmd'.sta /\ ~rw_cmd
        BY <1>6, <3>1, <3>2, <1>0
      <4> QED BY <1>7, <1>8, <1>10, <3>1, <3>2, <4>1, <1>0 DEF Within
    <3>3. CASE n = Sends
      <4>1. cmd'.sta
        BY <1>6, <3>1, <3>3, <1>0
      <4> QED BY <1>7, <1>8, <1>10, <3>1, <3>3, <4>1, <1>0 DEF Within
    <3>4. CASE n > Sends
      <4>1. ~cmd'.sta /\ rw_cmd /\ n + 1 \in Sends + 2 .. Total
        BY <1>6, <3>1, <3>4, <1>0
      <4> QED BY <1>7, <1>8, <1>10, <3>1, <3>4, <4>1, <1>0 DEF Within
    <3> QED BY <3>1, <3>2, <3>3, <3>4, <1>0
  <2> QED BY <2>1, <2>2
<1>12. /\ n + 1 + Len(txfifo') = w
       /\ \A i \in 1 .. Len(txfifo') : txfifo'[i] = Entry(n + 1 + i)'
  <2>1. \A j : Entry(j)' = Entry(j)
    BY <1>2, SameRequest
  <2>2. txfifo' = Tail(txfifo) /\ Len(txfifo) \in Nat
    BY <1>1, <1>4
  <2> QED BY <1>1, <1>3, <2>1, <2>2
<1> QED BY <1>1, <1>2, <1>3, <1>5, <1>9, <1>10, <1>11, <1>12 DEF Clean

LEMMA CleanGoesOn ==
  ASSUME Fits(request), NEW w, NEW n \in 0 .. Total, Clean(n, w),
         UNCHANGED <<request, txfifo>>, ~nack_det',
         core' \in {"GEN_START", "POP_TX_FIFO"} => txfifo # <<>>,
         \/ Between(n)' /\ Carried(n)'
         \/ Within(n)' /\ Carried(n - 1)'
  PROVE  Clean(n, w)'
  BY SameRequest DEF Clean

LEMMA QuietClean ==
  ASSUME CallTypeOK, Fits(request), NEW w, NEW n \in 0 .. Total, Clean(n, w),
         Start \/ StartDone \/ RestartDone \/ ByteAnswered \/ Resume \/ StopDone,
         UNCHANGED driverVars
  PROVE  Clean(n, w)'
<1>0. /\ Sends \in Nat /\ Asks \in Nat /\ Total \in Nat
      /\ Total = Sends + Asks /\ Asks # 1
  BY Sizes
<1>1. /\ UNCHANGED <<pointer, pointing, written, buffer, rxfifo, request, attempt>>
      /\ UNCHANGED <<txfifo, cmd>>
      /\ nack_det' = nack_det /\ rw_cmd' = rw_cmd
      /\ core # "GEN_STOP" => sent_7bit_addr' = sent_7bit_addr
  BY DEF Start, StartDone, RestartDone, ByteAnswered, Resume, StopDone,
         driverVars, chipVars, isrVars, fifoVars
<1>2. /\ ~nack_det /\ n + Len(txfifo) = w /\ w \in 0 .. Total
      /\ core \in {"GEN_START", "POP_TX_FIFO"} => txfifo # <<>>
      /\ \/ Between(n) /\ Carried(n)
         \/ Within(n) /\ Carried(n - 1)
  BY DEF Clean
<1>3. /\ Carried(n) => Carried(n)'
      /\ Carried(n - 1) => Carried(n - 1)'
  BY <1>1, CarriedKept
<1>4. /\ Sends' = Sends /\ Asks' = Asks /\ Total' = Total
      /\ Entry(n)' = Entry(n)
  BY <1>1, SameRequest
<1>5. ASSUME Start \/ StartDone
      PROVE  Between(n)' /\ Carried(n)' /\ txfifo # <<>>
  <2>1. core \in {"PRE_START", "GEN_START"} /\ core' \in {"GEN_START", "POP_TX_FIFO"}
        /\ (core = "PRE_START" => txfifo # <<>>)
    BY <1>5 DEF Start, StartDone, Goto
  <2> QED BY <1>1, <1>2, <1>3, <2>1 DEF Between, Within
<1>6. ASSUME RestartDone
      PROVE  Within(n)' /\ Carried(n - 1)' /\ core' = "GEN_7BIT_ADDR"
  <2>1. core = "GEN_RESTART_7BIT" /\ core' = "GEN_7BIT_ADDR"
    BY <1>6 DEF RestartDone, Goto
  <2> QED BY <1>0, <1>1, <1>2, <1>3, <1>4, <2>1 DEF Between, Within
<1>7. ASSUME ByteAnswered
      PROVE  /\ Between(n)' /\ Carried(n)'
             /\ core' = "POP_TX_FIFO" => txfifo # <<>>
             /\ core' # "GEN_START"
  <2>1. /\ core = "RX_ACK"
        /\ cmd.sto => core' = "GEN_STOP"
        /\ ~cmd.sto => core' = IF txfifo = <<>> THEN "BUS_HOLD" ELSE "POP_TX_FIFO"
    BY <1>7 DEF ByteAnswered, Goto, GoOn
  <2>2. /\ n \in Sends + 2 .. Total /\ cmd = Entry(n) /\ sent_7bit_addr /\ rw_cmd
        /\ Carried(n)
    BY <1>2, <2>1 DEF Between, Within
  <2>3. cmd.sto <=> n = Total
    BY <1>0, <2>2, EntryTyped
  <2> QED BY <1>0, <1>1, <1>3, <1>4, <2>1, <2>2, <2>3 DEF Between
<1>8. ASSUME Resume
      PROVE  Between(n)' /\ Carried(n)' /\ txfifo # <<>>
  <2>1. core = "BUS_HOLD" /\ core' = "POP_TX_FIFO" /\ txfifo # <<>>
    BY <1>8 DEF Resume, Goto
  <2> QED BY <1>0, <1>1, <1>2, <1>3, <1>4, <2>1 DEF Between, Within
<1>9. ASSUME StopDone
      PROVE  Between(n)' /\ Carried(n)' /\ core' = "PRE_IDLE"
  <2>1. core = "GEN_STOP" /\ ~sent_7bit_addr'
    BY <1>9 DEF StopDone
  <2>2. n = Total /\ Carried(n)
    BY <1>2, <2>1 DEF Between, Within
  <2>3. txfifo = <<>>
    BY <1>0, <1>2, <2>2 DEF CallTypeOK
  <2>4. core' = "PRE_IDLE"
    BY <1>9, <2>3 DEF StopDone, Goto
  <2> QED BY <1>3, <1>4, <2>1, <2>2, <2>4 DEF Between
<1> QED BY <1>1, <1>2, <1>5, <1>6, <1>7, <1>8, <1>9, CleanGoesOn

(* The chip acts on a command. *)
LEMMA AddressClean ==
  ASSUME CallTypeOK, Fits(request), NEW w, NEW n \in 0 .. Total, Clean(n, w),
         AddressAcked, UNCHANGED driverVars
  PROVE  Clean(n, w)'
<1>0. /\ Sends \in Nat /\ Asks \in Nat /\ Total \in Nat
      /\ Total = Sends + Asks /\ Asks # 1 /\ Sends # 1
      /\ Len(request.tx) \in Nat
      /\ Sends > 0 => Sends = Len(request.tx) + 1
  BY Sizes
<1>1. /\ UNCHANGED <<pointer, written, buffer, rxfifo, request, attempt, txfifo, cmd>>
      /\ nack_det' = nack_det
      /\ core = "GEN_7BIT_ADDR" /\ sent_7bit_addr' = TRUE
  BY DEF AddressAcked, Addressed, driverVars, isrVars, fifoVars
<1>2. /\ pointing' <=> cmd.byte = WriteAddress
      /\ rw_cmd' <=> cmd.byte = ReadAddress
  <2>1. /\ pointing' = (cmd.byte = WriteAddress)
        /\ rw_cmd' = (cmd.byte = ReadAddress)
    BY Zenon DEF AddressAcked, Addressed
  <2> QED BY <2>1, Zenon
<1>3. /\ ~nack_det /\ n + Len(txfifo) = w /\ w \in 0 .. Total
      /\ cmd = Entry(n) /\ n \in {1, Sends + 1} /\ n < Total /\ Carried(n - 1)
  BY <1>1 DEF Clean, Between, Within
<1>4. core' = IF txfifo = <<>> THEN "BUS_HOLD" ELSE "POP_TX_FIFO"
  BY DEF AddressAcked, GoOn, Goto
<1>5. Sends' = Sends /\ Total' = Total
  BY <1>1, SameRequest
<1>6. /\ n = Sends + 1 => rw_cmd' /\ ~pointing'
      /\ n # Sends + 1 => ~rw_cmd' /\ pointing'
  <2>1. n = Sends + 1 => cmd.byte = ReadAddress
    BY <1>0, <1>3, EntryTyped
  <2>2. n # Sends + 1 => cmd.byte = WriteAddress
    BY <1>0, <1>3, EntryTyped
  <2> QED BY <1>2, <2>1, <2>2 DEF ReadAddress, WriteAddress
<1>7. Between(n)'
  BY <1>0, <1>1, <1>3, <1>4, <1>5, <1>6 DEF Between
<1>8. Carried(n)'
  <2>1. Came(n) = Came(n - 1)
    BY <1>0, <1>3 DEF Came
  <2>2. n \in 1 .. Sends => (pointing' <=> n = 1)
    BY <1>0, <1>3, <1>6
  <2>3. n > 1 /\ Sends > 0 =>
          pointer = From(IF n > Sends THEN n - 3 ELSE n - 2)
    BY <1>0, <1>3 DEF Carried
  <2>4. \A i \in 2 .. Len(request.tx) :
          i < n => written[From(i - 2)] = request.tx[i]
    BY <1>0, <1>3 DEF Carried
  <2>5. /\ Len(buffer) + Len(rxfifo) = Came(n)
        /\ Sends > 0 =>
             /\ \A i \in 1 .. Len(buffer) : buffer[i] = SampleOf(i)
             /\ \A i \in 1 .. Len(rxfifo) : rxfifo[i] = SampleOf(Len(buffer) + i)
    BY <1>3, <2>1 DEF Carried
  <2> QED BY <1>1, <2>2, <2>3, <2>4, <2>5, SameRequest DEF Carried, SampleOf
<1> QED BY <1>1, <1>3, <1>4, <1>7, <1>8, CleanGoesOn

LEMMA Sequence ==
  ASSUME Fits(request), request.tx # <<>>
  PROVE  /\ request.tx[1] \in Nat /\ From(0) = request.tx[1] % Registers
         /\ \A i \in Nat : /\ From(i) \in Register
                           /\ (From(i) + 1) % Registers = From(i + 1)
         /\ \A i, j \in Nat : i < j /\ j - i < Registers => From(i) # From(j)
<1>1. request.tx[1] \in Nat
  BY Sizes
<1>2. ASSUME NEW i \in Nat
      PROVE  From(i) \in Register /\ (From(i) + 1) % Registers = From(i + 1)
  <2>1. request.tx[1] + i \in Nat /\ (request.tx[1] + i) + 1 = request.tx[1] + (i + 1)
    BY <1>1
  <2> QED BY <2>1, Successor DEF From
<1>3. ASSUME NEW i \in Nat, NEW j \in Nat, i < j, j - i < Registers
      PROVE  From(i) # From(j)
  <2>1. /\ request.tx[1] + i \in Nat /\ j - i \in 1 .. Registers - 1
        /\ request.tx[1] + j = (request.tx[1] + i) + (j - i)
    BY <1>1, <1>3
  <2> QED BY <2>1, ApartRegisters DEF From
<1>4. From(0) = request.tx[1] % Registers
  BY <1>1 DEF From
<1> QED BY <1>1, <1>2, <1>3, <1>4

LEMMA ByteClean ==
  ASSUME CallTypeOK, Fits(request), NEW w, NEW n \in 0 .. Total, Clean(n, w),
         ByteAcked, UNCHANGED driverVars
  PROVE  Clean(n, w)'
<1>0. /\ Sends \in Nat /\ Asks \in Nat /\ Total \in Nat
      /\ Total = Sends + Asks /\ Asks # 1 /\ Sends # 1
      /\ Len(request.tx) \in Nat /\ Len(request.tx) <= Registers + 1
      /\ Sends > 0 => request.tx # <<>> /\ Sends = Len(request.tx) + 1
  BY Sizes DEF Fits
<1>1. /\ UNCHANGED <<buffer, rxfifo, request, attempt, txfifo, cmd>>
      /\ nack_det' = nack_det /\ sent_7bit_addr' = sent_7bit_addr
      /\ rw_cmd' = rw_cmd /\ core = "TX_BYTE"
  BY DEF ByteAcked, driverVars, isrVars, fifoVars
<1>2. /\ ~nack_det /\ n + Len(txfifo) = w /\ w \in 0 .. Total
      /\ cmd = Entry(n) /\ n \in 2 .. Sends /\ sent_7bit_addr /\ ~rw_cmd
      /\ Carried(n - 1)
  BY <1>1 DEF Clean, Between, Within
<1>3. /\ cmd.byte = request.tx[n - 1]
      /\ cmd.sto <=> n = Total
  <2>1. n \in 1 .. Total
    BY <1>0, <1>2
  <2>2. /\ n \in 2 .. Sends => Entry(n).byte = request.tx[n - 1]
        /\ Entry(n).sto <=> n = Total
    BY <2>1, EntryTyped, Zenon
  <2> QED BY <1>2, <2>2, Zenon
<1>4. /\ cmd.sto => core' = "GEN_STOP"
      /\ ~cmd.sto => core' = IF txfifo = <<>> THEN "BUS_HOLD" ELSE "POP_TX_FIFO"
  BY DEF ByteAcked, GoOn, Goto
<1>5. Sends' = Sends /\ Total' = Total
  BY <1>1, SameRequest
<1>6. Between(n)' /\ (core' \in {"GEN_START", "POP_TX_FIFO"} => txfifo # <<>>)
  BY <1>0, <1>1, <1>2, <1>3, <1>4, <1>5 DEF Between
<1>7. /\ pointing <=> n = 2
      /\ n > 2 => pointer = From(n - 3)
  BY <1>0, <1>2 DEF Carried
<1>8. ~pointing' /\ pointer' = From(n - 2)
  <2>1. ~pointing'
    BY DEF ByteAcked, Take
  <2>2. CASE n = 2
    <3>1. pointer' = request.tx[1] % Registers
      BY <1>3, <1>7, <2>2 DEF ByteAcked, Take
    <3> QED BY <1>0, <1>2, <2>1, <2>2, <3>1, Sequence
  <2>3. CASE n > 2
    <3>1. pointer' = (pointer + 1) % Registers
      BY <1>7, <2>3 DEF ByteAcked, Take, Onward
    <3>2. n - 3 \in Nat /\ n - 3 + 1 = n - 2
      BY <1>0, <1>2, <2>3
    <3>3. (From(n - 3) + 1) % Registers = From(n - 2)
      BY <1>0, <1>2, <3>2, Sequence
    <3> QED BY <1>7, <2>1, <2>3, <3>1, <3>3
  <2> QED BY <1>0, <1>2, <2>2, <2>3
<1>9. ASSUME NEW i \in 2 .. Len(request.tx), i < n
      PROVE  written'[From(i - 2)] = request.tx[i]
  <2>1. i < n - 1 => written[From(i - 2)] = request.tx[i]
    BY <1>0, <1>2, <1>9 DEF Carried
  <2>2. CASE n = 2
    BY <1>9, <2>2
  <2>3. CASE n > 2
    <3>1. written' = [written EXCEPT ![From(n - 3)] = request.tx[n - 1]]
      BY <1>3, <1>7, <2>3 DEF ByteAcked, Take
    <3>2. /\ n - 3 \in Nat /\ i - 2 \in Nat /\ From(n - 3) \in Register
          /\ From(i - 2) \in Register
      <4>1. n - 3 \in Nat /\ i - 2 \in Nat /\ request.tx # <<>>
        BY <1>0, <1>2, <2>3
      <4> QED BY <4>1, Sequence
    <3>3. CASE i = n - 1
      BY <1>0, <1>2, <3>1, <3>2, <3>3 DEF CallTypeOK
    <3>4. CASE i < n - 1
      <4>1. i - 2 < n - 3 /\ (n - 3) - (i - 2) < Registers
        BY <1>0, <1>2, <3>4
      <4>2. From(i - 2) # From(n - 3)
        BY <1>0, <1>2, <3>2, <4>1, Sequence
      <4> QED BY <2>1, <3>1, <3>2, <3>4, <4>2 DEF CallTypeOK
    <3> QED BY <1>0, <1>2, <1>9, <3>3, <3>4
  <2> QED BY <1>0, <1>2, <2>2, <2>3
<1>10. Carried(n)'
  <2>1. Came(n) = Came(n - 1)
    BY <1>0, <1>2 DEF Came
  <2>2. /\ Len(buffer) + Len(rxfifo) = Came(n)
        /\ Sends > 0 =>
             /\ \A i \in 1 .. Len(buffer) : buffer[i] = SampleOf(i)
             /\ \A i \in 1 .. Len(rxfifo) : rxfifo[i] = SampleOf(Len(buffer) + i)
    BY <1>2, <2>1 DEF Carried
  <2>3. n \in 1 .. Sends => (pointing' <=> n = 1)
    BY <1>0, <1>2, <1>8
  <2>4. n > 1 /\ Sends > 0 =>
          pointer' = From(IF n > Sends THEN n - 3 ELSE n - 2)
    BY <1>0, <1>2, <1>8
  <2> QED BY <1>1, <1>9, <2>2, <2>3, <2>4, SameRequest DEF Carried, SampleOf
<1> QED BY <1>1, <1>2, <1>6, <1>10, CleanGoesOn

LEMMA ReceiveClean ==
  ASSUME CallTypeOK, Alone, Fits(request), NEW w, NEW n \in 0 .. Total,
         Clean(n, w), ByteReceived(attempt), UNCHANGED driverVars
  PROVE  Clean(n, w)' /\ rxfifo' # <<>>
<1>0. /\ Sends \in Nat /\ Asks \in Nat /\ Total \in Nat
      /\ Total = Sends + Asks /\ Asks # 1 /\ Sends # 1
      /\ Len(request.tx) \in Nat
      /\ Sends > 0 => request.tx # <<>> /\ Sends = Len(request.tx) + 1
      /\ Len(request.tx) < Sends \/ Len(request.tx) = 0
      /\ Asks > 0 => Asks = request.rx + 1 /\ request.rx \in 0 .. Depth
  BY Sizes
<1>1. /\ UNCHANGED <<pointing, written, buffer, request, attempt, txfifo, cmd>>
      /\ nack_det' = nack_det /\ sent_7bit_addr' = sent_7bit_addr
      /\ rw_cmd' = rw_cmd
      /\ core = "RX_BYTE" /\ core' = "RX_ACK" /\ pointer' = Onward
  BY DEF ByteReceived, Give, Goto, driverVars, isrVars
<1>2. /\ ~nack_det /\ n + Len(txfifo) = w /\ w \in 0 .. Total
      /\ cmd = Entry(n) /\ n \in Sends + 2 .. Total /\ sent_7bit_addr /\ rw_cmd
      /\ Carried(n - 1)
  BY <1>1 DEF Clean, Between, Within
<1>3. /\ Sends' = Sends /\ Total' = Total /\ Entry(n)' = Entry(n)
  BY <1>1, SameRequest
<1>4. Between(n)'
  BY <1>1, <1>2, <1>3 DEF Between
<1>5. /\ Len(buffer) + Len(rxfifo) = n - Sends - 2
      /\ Sends > 0 =>
           /\ pointer = From(n - 4)
           /\ \A i \in 1 .. Len(buffer) : buffer[i] = SampleOf(i)
           /\ \A i \in 1 .. Len(rxfifo) : rxfifo[i] = SampleOf(Len(buffer) + i)
  <2>1. Came(n - 1) = n - Sends - 2
    <3>1. n \in Sends + 2 .. Total
      BY <1>2, Zenon
    <3>2. Sends \in Nat /\ Total \in Nat
      BY <1>0, Zenon
    <3>3. n - 1 \in Int /\ n - 1 > Sends /\ (n - 1) - Sends - 1 = n - Sends - 2
      BY <3>1, <3>2
    <3>4. CASE n = Sends + 2
      BY <3>2, <3>4 DEF Came
    <3>5. CASE n # Sends + 2
      BY <3>1, <3>2, <3>3, <3>5 DEF Came
    <3> QED BY <3>4, <3>5
  <2>2. n - 1 > Sends /\ n - 1 - 3 = n - 4 /\ (Sends > 0 => n - 1 > 1)
    BY <1>0, <1>2
  <2> QED BY <1>2, <2>1, <2>2 DEF Carried
<1>6. /\ Len(buffer) \in Nat /\ Len(rxfifo) \in Nat /\ Len(rxfifo) < Depth
      /\ rxfifo \in Seq(SampleType)
      /\ n \in Nat /\ n >= Sends + 2 /\ n <= Total
      /\ Len(buffer) + Len(rxfifo) = n - Sends - 2
  <2>1. rxfifo \in Seq(SampleType) /\ buffer \in Seq(SampleType)
    BY DEF CallTypeOK
  <2>2. Len(buffer) \in Nat /\ Len(rxfifo) \in Nat
    BY <2>1
  <2>3. n \in Nat /\ n >= Sends + 2 /\ n <= Total
    <3>1. n \in Sends + 2 .. Total
      BY <1>2, Zenon
    <3> QED BY <3>1, <1>0
  <2>4. Asks > 0 /\ Len(buffer) + Len(rxfifo) = n - Sends - 2
    <3>1. Len(buffer) + Len(rxfifo) = n - Sends - 2
      BY <1>5, Zenon
    <3> QED BY <3>1, <1>0, <2>3
  <2>5. Depth \in Nat
    BY CoreAssumption
  <2> QED BY <1>0, <2>1, <2>2, <2>3, <2>4, <2>5
<1>7. rxfifo' = Append(rxfifo, Sent(attempt))
  BY <1>2, <1>6 DEF ByteReceived, Alone, flush_txfifo
<1>8. Sent(attempt) \in SampleType
  BY DEF Sent, SampleType, CallTypeOK, Register
<1>9. /\ Len(rxfifo') = Len(rxfifo) + 1
      /\ \A i \in 1 .. Len(rxfifo) : rxfifo'[i] = rxfifo[i]
      /\ rxfifo'[Len(rxfifo) + 1] = Sent(attempt)
      /\ rxfifo' # <<>>
  BY <1>6, <1>7, <1>8
<1>10. /\ Len(buffer) + Len(rxfifo') = Came(n)
       /\ Sends > 0 => n - 4 \in Nat /\ pointer' = From(n - 3)
  <2>1. Came(n) = n - Sends - 1
    BY <1>0, <1>2 DEF Came
  <2>2. ASSUME Sends > 0
        PROVE  n - 4 \in Nat /\ pointer' = From(n - 3)
    <3>0. Sends \in Nat /\ Sends > 1 /\ n \in Nat /\ n >= Sends + 2
      BY <1>0, <1>6, <2>2
    <3>1. n - 4 \in Nat /\ n - 4 + 1 = n - 3
      BY <3>0
    <3>2. (From(n - 4) + 1) % Registers = From(n - 4 + 1)
      BY <1>0, <2>2, <3>1, Sequence
    <3> QED BY <1>1, <1>5, <2>2, <3>1, <3>2 DEF Onward
  <2>3. Len(rxfifo') = Len(rxfifo) + 1
    BY <1>9
  <2> QED BY <1>0, <1>6, <2>1, <2>2, <2>3
<1>11. ASSUME Sends > 0, NEW i \in 1 .. Len(rxfifo')
       PROVE  rxfifo'[i] = SampleOf(Len(buffer) + i)
  <2>1. CASE i <= Len(rxfifo)
    BY <1>5, <1>6, <1>9, <1>11, <2>1
  <2>2. CASE i = Len(rxfifo) + 1
    <3>1. Len(request.tx) + (Len(buffer) + i) - 2 = n - 4
      <4> DEFINE sent == Len(request.tx)
                 read == Len(buffer)
                 waiting == Len(rxfifo)
      <4>1. /\ sent \in Nat /\ n \in Nat /\ read \in Nat /\ waiting \in Nat
            /\ read + waiting = n - (sent + 1) - 2
        BY <1>0, <1>6, <1>11
      <4> HIDE DEF sent, read, waiting
      <4>2. sent + (read + (waiting + 1)) - 2 = n - 4
        BY <4>1
      <4> QED BY <2>2, <4>2, Zenon DEF sent, read, waiting
    <3> QED BY <1>5, <1>9, <1>11, <2>2, <3>1 DEF Sent, SampleOf
  <2> QED BY <1>6, <1>9, <1>11, <2>1, <2>2
<1>12. ASSUME NEW i \in 2 .. Len(request.tx)
       PROVE  written[From(i - 2)] = request.tx[i]
  <2>1. i < n - 1
    BY <1>0, <1>6, <1>12
  <2> QED BY <1>2, <2>1 DEF Carried
<1>13. Carried(n)'
  <2>1. n \notin 1 .. Sends /\ n > Sends
    BY <1>0, <1>2
  <2> QED BY <1>1, <1>3, <1>5, <1>10, <1>11, <1>12, <2>1, SameRequest
          DEF Carried, SampleOf
<1> QED BY <1>1, <1>2, <1>4, <1>9, <1>13, CleanGoesOn

(* The chip refuses. *)
LEMMA NackedRefuses ==
  ASSUME CallTypeOK, Fits(request), NEW w, NEW n \in 0 .. Total, Clean(n, w),
         Nacked, UNCHANGED driverVars
  PROVE  Refusal' /\ nacks' = nacks + 1 /\ buffer = <<>> /\ rxfifo = <<>>
<1>0. /\ Sends \in Nat /\ Asks \in Nat /\ Total \in Nat
      /\ Total = Sends + Asks /\ Asks # 1 /\ Sends # 1
  BY Sizes
<1>1. /\ n \in 1 .. Sends + 1 /\ Carried(n - 1) /\ cmd = Entry(n)
      /\ core = "GEN_7BIT_ADDR" => n \in {1, Sends + 1}
      /\ n <= Total
  BY <1>0 DEF Clean, Between, Within, Nacked
<1>2. Len(buffer) + Len(rxfifo) = 0
  BY <1>0, <1>1 DEF Carried, Came
<1>3. buffer = <<>> /\ rxfifo = <<>>
  <2>1. Len(buffer) = 0 /\ Len(rxfifo) = 0
    BY <1>2 DEF CallTypeOK
  <2> QED BY <2>1 DEF CallTypeOK
<1>4. core = "GEN_7BIT_ADDR" => cmd.byte \in {WriteAddress, ReadAddress}
  BY <1>0, <1>1, EntryTyped
<1>5. nacks' = nacks + 1
  BY <1>4 DEF Nacked, Refused
<1>6. Refusal'
  BY DEF Nacked, Flushed, Goto, Refusal
<1> QED BY <1>3, <1>5, <1>6

-----------------------------------------------------------------------------
(* A step of the machine on a bus of its own.                              *)
LEMMA MachineAlone ==
  ASSUME CallTypeOK, Alone, CoreStep(attempt), UNCHANGED driverVars,
         UNCHANGED contentions, core = "POP_TX_FIFO" => txfifo # <<>>
  PROVE  /\ CallTypeOK' /\ Alone'
         /\ ctrl_en' = ctrl_en /\ tfr_cmd_fifo_thd' = tfr_cmd_fifo_thd
<1>1. ~Lose
  BY DEF Lose, Alone
<1>2. ctrl_en' = ctrl_en /\ tfr_cmd_fifo_thd' = tfr_cmd_fifo_thd
  BY <1>1 DEF CoreStep, Start, StartDone, Pop, RestartDone, AddressAcked,
     ByteAcked, Nacked, ByteReceived, ByteAnswered, Resume, StopDone, PreIdle,
     ctrlVars
<1>3. Alone'
  <2>1. arblost_det' = arblost_det
    BY <1>1, Zenon DEF CoreStep, Start, StartDone, Pop, RestartDone, AddressAcked,
       ByteAcked, Nacked, ByteReceived, ByteAnswered, Resume, StopDone, PreIdle,
       isrVars
  <2>2. CASE Start
    BY <2>1, <2>2 DEF Start, Alone, OnBus, Goto
  <2>3. CASE StopDone
    BY <2>1, <2>3 DEF StopDone, Alone, OnBus, Goto
  <2>4. CASE PreIdle
    BY <2>1, <2>4 DEF PreIdle, LeavesPreIdle, Alone, OnBus, Goto
  <2>5. CASE \/ StartDone \/ Pop \/ RestartDone \/ AddressAcked \/ ByteAcked
             \/ Nacked \/ ByteReceived(attempt) \/ ByteAnswered \/ Resume
    <3>1. bus' = bus /\ core \in OnBus /\ core' \in OnBus
      BY <2>5 DEF StartDone, Pop, RestartDone, AddressAcked, ByteAcked, Nacked,
         ByteReceived, ByteAnswered, Resume, Goto, GoOn, OnBus
    <3> QED BY <2>1, <3>1 DEF Alone
  <2> QED BY <1>1, <2>2, <2>3, <2>4, <2>5 DEF CoreStep
<1>4. /\ pointer' \in Register /\ pointing' \in BOOLEAN
      /\ written' \in [Register -> Nat] /\ nacks' \in 0 .. MaxNacks
  <2>1. CASE ByteAcked
    <3>1. cmd.byte \in Nat /\ cmd.byte % Registers \in Register
      BY DEF CallTypeOK, CommandType, Byte, Register
    <3>2. Onward \in Register
      BY DEF CallTypeOK, Onward, Register
    <3> QED BY <2>1, <3>1, <3>2 DEF ByteAcked, Take, CallTypeOK
  <2>2. CASE ByteReceived(attempt)
    <3>1. Onward \in Register
      BY DEF CallTypeOK, Onward, Register
    <3> QED BY <2>2, <3>1 DEF ByteReceived, Give, CallTypeOK
  <2>3. CASE AddressAcked
    BY <2>3 DEF AddressAcked, Addressed, CallTypeOK
  <2>4. CASE Nacked
    BY <2>4 DEF Nacked, Refused, CallTypeOK
  <2>5. CASE \/ Start \/ StartDone \/ Pop \/ RestartDone \/ ByteAnswered
             \/ Resume \/ StopDone \/ PreIdle
    BY <2>5 DEF Start, StartDone, Pop, RestartDone, ByteAnswered, Resume,
       StopDone, PreIdle, chipVars, CallTypeOK
  <2> QED BY <1>1, <2>1, <2>2, <2>3, <2>4, <2>5 DEF CoreStep
<1>5. /\ nack_det' \in BOOLEAN /\ sent_7bit_addr' \in BOOLEAN
      /\ rw_cmd' \in BOOLEAN /\ arblost_det' \in BOOLEAN
  BY <1>1, Zenon DEF CoreStep, Start, StartDone, Pop, RestartDone, AddressAcked,
     ByteAcked, Nacked, ByteReceived, ByteAnswered, Resume, StopDone, PreIdle,
     isrVars, CallTypeOK
<1>6. /\ cmd' \in CommandType
      /\ txfifo' \in Seq(CommandType) /\ Len(txfifo') <= Depth
  <2>1. CASE Pop
    <3>1. core = "POP_TX_FIFO" /\ txfifo # <<>> /\ txfifo \in Seq(CommandType)
          /\ Len(txfifo) <= Depth
      BY <2>1 DEF Pop, CallTypeOK
    <3>2. /\ Head(txfifo) \in CommandType /\ Tail(txfifo) \in Seq(CommandType)
          /\ Len(Tail(txfifo)) <= Depth
      BY <3>1
    <3> QED BY <2>1, <3>2 DEF Pop
  <2>2. CASE Nacked
    BY <2>2 DEF Nacked, Flushed, CallTypeOK
  <2>3. CASE \/ Start \/ StartDone \/ RestartDone \/ AddressAcked \/ ByteAcked
             \/ ByteReceived(attempt) \/ ByteAnswered \/ Resume \/ StopDone
             \/ PreIdle
    BY <2>3 DEF Start, StartDone, RestartDone, AddressAcked, ByteAcked,
       ByteReceived, ByteAnswered, Resume, StopDone, PreIdle, fifoVars, CallTypeOK
  <2> QED BY <1>1, <2>1, <2>2, <2>3 DEF CoreStep
<1>7. rxfifo' \in Seq(SampleType)
  <2>1. CASE ByteReceived(attempt)
    <3>1. Sent(attempt) \in SampleType /\ rxfifo \in Seq(SampleType)
      BY DEF Sent, SampleType, CallTypeOK, Register
    <3>2. Append(rxfifo, Sent(attempt)) \in Seq(SampleType)
      BY <3>1
    <3> QED BY <2>1, <3>1, <3>2 DEF ByteReceived
  <2>2. CASE Nacked
    BY <2>2 DEF Nacked, Flushed
  <2>3. CASE \/ Start \/ StartDone \/ Pop \/ RestartDone \/ AddressAcked
             \/ ByteAcked \/ ByteAnswered \/ Resume \/ StopDone \/ PreIdle
    BY <2>3 DEF Start, StartDone, Pop, RestartDone, AddressAcked, ByteAcked,
       ByteAnswered, Resume, StopDone, PreIdle, fifoVars, CallTypeOK
  <2> QED BY <1>1, <2>1, <2>2, <2>3 DEF CoreStep
<1>8. UNCHANGED <<buffer, attempt, retry, fn, request>>
  BY DEF driverVars
<1> QED BY <1>2, <1>3, <1>4, <1>5, <1>6, <1>7, <1>8 DEF CallTypeOK

LEMMA MachineUnderway ==
  ASSUME CallTypeOK, Alone, Fits(request), NEW w, Underway(w), ctrl_en,
         CoreStep(attempt), UNCHANGED driverVars, UNCHANGED contentions
  PROVE  \/ /\ Underway(w)' /\ nacks' = nacks
            /\ rxfifo # <<>> => rxfifo' # <<>>
            /\ core # "PRE_IDLE"
         \/ /\ Refusal' /\ nacks' = nacks + 1
            /\ buffer = <<>> /\ rxfifo = <<>> /\ core # "PRE_IDLE"
<1>1. PICK n \in 0 .. Total : Clean(n, w)
  BY DEF Underway
<1>2. Total' = Total
  BY SameRequest DEF driverVars
<1>3. ~Lose
  BY DEF Lose, Alone
<1>4. ~PreIdle
  <2>1. core = "PRE_IDLE" => txfifo = <<>>
    <3>1. core = "PRE_IDLE" => n = Total
      BY <1>1 DEF Clean, Between, Within
    <3>2. Total \in Nat /\ n + Len(txfifo) = w /\ w \in 0 .. Total
      BY <1>1, Sizes DEF Clean
    <3> QED BY <3>1, <3>2 DEF CallTypeOK
  <2> QED BY <2>1 DEF PreIdle, LeavesPreIdle
<1>5. CASE Nacked
  BY <1>1, <1>5, NackedRefuses DEF Nacked
<1>6. CASE Pop
  <2>1. n + 1 \in 0 .. Total /\ Clean(n + 1, w)'
    BY <1>1, <1>6, PopClean
  <2>2. rxfifo' = rxfifo /\ nacks' = nacks /\ core # "PRE_IDLE"
    BY <1>6 DEF Pop, chipVars
  <2> QED BY <1>2, <2>1, <2>2 DEF Underway
<1>7. CASE ByteReceived(attempt)
  <2>1. Clean(n, w)' /\ rxfifo' # <<>>
    BY <1>1, <1>7, ReceiveClean
  <2>2. nacks' = nacks /\ core # "PRE_IDLE"
    BY <1>7 DEF ByteReceived, Give
  <2> QED BY <1>2, <2>1, <2>2 DEF Underway
<1>8. CASE AddressAcked
  <2>1. Clean(n, w)'
    BY <1>1, <1>8, AddressClean
  <2>2. rxfifo' = rxfifo /\ nacks' = nacks /\ core # "PRE_IDLE"
    BY <1>8 DEF AddressAcked, Addressed, fifoVars
  <2> QED BY <1>2, <2>1, <2>2 DEF Underway
<1>9. CASE ByteAcked
  <2>1. Clean(n, w)'
    BY <1>1, <1>9, ByteClean
  <2>2. rxfifo' = rxfifo /\ nacks' = nacks /\ core # "PRE_IDLE"
    BY <1>9 DEF ByteAcked, Take, fifoVars
  <2> QED BY <1>2, <2>1, <2>2 DEF Underway
<1>10. CASE Start \/ StartDone \/ RestartDone \/ ByteAnswered \/ Resume \/ StopDone
  <2>1. Clean(n, w)'
    BY <1>1, <1>10, QuietClean
  <2>2. rxfifo' = rxfifo /\ nacks' = nacks /\ core # "PRE_IDLE"
    BY <1>10 DEF Start, StartDone, RestartDone, ByteAnswered, Resume, StopDone,
       chipVars, fifoVars
  <2> QED BY <1>2, <2>1, <2>2 DEF Underway
<1> QED BY <1>3, <1>4, <1>5, <1>6, <1>7, <1>8, <1>9, <1>10 DEF CoreStep

LEMMA MachineRefused ==
  ASSUME Refusal, ctrl_en, CoreStep(attempt), Alone
  PROVE  /\ Refusal' /\ core # "PRE_IDLE" /\ nack_det' = nack_det
         /\ nacks' = nacks /\ rxfifo' = rxfifo
<1>1. StopDone
  BY DEF Refusal, CoreStep, Start, StartDone, Pop, RestartDone, AddressAcked,
     ByteAcked, Nacked, ByteReceived, ByteAnswered, Lose, Resume, PreIdle,
     LeavesPreIdle
<1>2. nack_det' = nack_det
  BY <1>1, Zenon DEF StopDone, isrVars
<1> QED BY <1>1, <1>2 DEF StopDone, Refusal, Goto, fifoVars, chipVars

LEMMA MachineAtRest ==
  ASSUME AtRest, CoreStep(attempt)
  PROVE  /\ AtRest' /\ UNCHANGED chipVars
<1>1. PreIdle
  BY DEF AtRest, CoreStep, Start, StartDone, Pop, RestartDone, AddressAcked,
     ByteAcked, Nacked, ByteReceived, ByteAnswered, Lose, Resume, StopDone
<1>2. ~ctrl_en'
  BY <1>1, Zenon DEF PreIdle, AtRest, ctrlVars
<1>3. ~sent_7bit_addr'
  BY <1>1, Zenon DEF PreIdle, AtRest
<1>4. core' = "IDLE" /\ txfifo' = <<>> /\ rxfifo' = <<>>
  BY <1>1 DEF PreIdle, AtRest, Goto, fifoVars
<1> QED BY <1>1, <1>2, <1>3, <1>4 DEF AtRest, PreIdle

-----------------------------------------------------------------------------
(* The driver beside it.                                                   *)
Idle   == {"idle", "enable"}
Before == {"idle", "enable", "clear", "write"}

(* Commands written so far. *)
Written == IF pc = "write" THEN Base + k - 1 ELSE Base + k

OnCourse == \E w \in 0 .. Total : w = Written /\ Underway(w)

PlaceInv ==
  /\ pc # "idle" => Fits(request) /\ k \in 1 .. Length
  /\ pc \in {"enable", "clear"} => fn = Begins(request) /\ k = 1 /\ buffer = <<>>
  /\ pc \in {"drain", "take"} => fn = "receive" /\ k > 1 /\ k < Length
  /\ pc \in {"collect", "fetch"} => fn = "receive" /\ k = Length
  /\ pc = "take" => rxfifo # <<>>
  /\ pc = "fetch" => /\ Len(buffer) < request.rx
                     /\ rxfifo # <<>> \/ (nack_det /\ status # Success)

IpInv ==
  /\ pc \in Idle => AtRest
  /\ pc = "clear" => /\ ctrl_en /\ core = "PRE_START" /\ ~sent_7bit_addr
                     /\ txfifo = <<>> /\ rxfifo = <<>>
  /\ pc \notin Idle \cup {"clear"} => ctrl_en /\ (OnCourse \/ Refusal)

(* What the refusals leave in status and buffer, and what a success means. *)
StatusInv ==
  /\ pc \notin Before => status = Success \/ nack_det
  /\ pc \in {"drain", "take"} => status = Success
  /\ pc \in {"settle", "lastnack", "disable"} /\ ~nack_det =>
       Written = Total /\ Len(buffer) = request.rx
  /\ pc \in {"lastnack", "disable"} => core = "PRE_IDLE"
  /\ pc = "disable" => status = IF nack_det THEN "NACK_ERR" ELSE Success
  /\ pc \notin Idle \cup {"clear"} /\ nack_det /\ buffer # <<>> =>
       /\ Len(buffer) = 1 /\ request.rx > 0 /\ status # Success
       /\ pc \in {"collect", "settle", "lastnack", "disable"}
  /\ pc = "idle" => /\ status \in {Success, "NACK_ERR"}
                    /\ Len(buffer) <= request.rx
                    /\ ReadSound /\ WriteSound

(* Every attempt that ended was refused. *)
CountInv ==
  /\ pc # "idle" =>
       Tries - 1 - retry
         + (IF nack_det /\ pc \notin {"enable", "clear"} THEN 1 ELSE 0) <= nacks
  /\ pc = "idle" /\ status # Success => nacks >= Tries

SoundInv == CallTypeOK /\ Alone /\ PlaceInv /\ IpInv /\ StatusInv /\ CountInv

(* A transaction at its ends. *)
LEMMA UnderwayFacts ==
  ASSUME CallTypeOK, Fits(request), NEW w, Underway(w)
  PROVE  /\ ~nack_det /\ w \in 0 .. Total
         /\ Len(buffer) + Len(rxfifo) <= request.rx
         /\ w <= Sends => Len(buffer) = 0
         /\ core = "PRE_IDLE" => /\ w = Total /\ txfifo = <<>> /\ ~sent_7bit_addr
                                 /\ Len(buffer) + Len(rxfifo) = request.rx
         /\ core = "GEN_STOP" => w = Total
         /\ core # "IDLE"
         /\ core \in {"PRE_START", "BUS_HOLD"} /\ w = Total => txfifo # <<>>
<1>1. PICK n \in 0 .. Total : Clean(n, w)
  BY DEF Underway
<1>2. /\ Sends \in Nat /\ Asks \in Nat /\ Total \in Nat \ {0}
      /\ Total = Sends + Asks
      /\ request.rx \in Nat
      /\ request.rx = 0 => Asks = 0
      /\ request.rx > 0 => Asks = request.rx + 1
  BY Sizes
<1>3. /\ ~nack_det /\ w \in 0 .. Total /\ n + Len(txfifo) = w
      /\ \/ Between(n) /\ Carried(n)
         \/ Within(n) /\ Carried(n - 1)
  BY <1>1 DEF Clean
<1>4. /\ Len(txfifo) \in Nat /\ Len(rxfifo) \in Nat /\ Len(buffer) \in Nat
      /\ Len(txfifo) = 0 <=> txfifo = <<>>
  BY DEF CallTypeOK
<1>5. \/ Len(buffer) + Len(rxfifo) = Came(n) /\ Between(n)
      \/ Len(buffer) + Len(rxfifo) = Came(n - 1) /\ Within(n)
  BY <1>3 DEF Carried
<1>6. /\ Came(n) <= request.rx /\ Came(n - 1) <= request.rx
      /\ n <= Sends => Came(n) = 0 /\ Came(n - 1) = 0
      /\ n = Total => Came(n) = request.rx
  BY <1>2 DEF Came
<1>7. /\ core = "PRE_IDLE" => n = Total /\ ~sent_7bit_addr /\ Between(n)
      /\ core = "GEN_STOP" => n = Total
      /\ core # "IDLE"
      /\ core \in {"PRE_START", "BUS_HOLD"} => n # Total
  BY <1>2, <1>3 DEF Between, Within
<1>8. core = "PRE_IDLE" => Len(buffer) + Len(rxfifo) = Came(n)
  BY <1>3, <1>7 DEF Within, Carried
<1> QED BY <1>2, <1>3, <1>4, <1>5, <1>6, <1>7, <1>8

(* A step that is no part of a transaction leaves it where it is.          *)
LEMMA Untouched ==
  ASSUME UNCHANGED <<pointer, pointing, written, core, cmd, txfifo, rxfifo,
                     request, buffer, attempt>>,
         sent_7bit_addr' = sent_7bit_addr, rw_cmd' = rw_cmd, nack_det' = nack_det
  PROVE  /\ \A w : Underway(w) => Underway(w)'
         /\ Refusal => Refusal'
<1>2. /\ Sends' = Sends /\ Asks' = Asks /\ Total' = Total
      /\ \A j : Entry(j)' = Entry(j)
  BY SameRequest
<1>3. \A n : /\ Carried(n) => Carried(n)'
             /\ Between(n) => Between(n)'
             /\ Within(n) => Within(n)'
  <2> TAKE n
  <2>1. Carried(n) => Carried(n)'
    BY CarriedKept
  <2>2. Between(n) => Between(n)'
    BY <1>2, Zenon DEF Between
  <2>3. Within(n) => Within(n)'
    BY <1>2, Zenon DEF Within
  <2> QED BY <2>1, <2>2, <2>3
<1>4. ASSUME NEW w, Underway(w) PROVE Underway(w)'
  <2>1. PICK n \in 0 .. Total : Clean(n, w)
    BY <1>4 DEF Underway
  <2>2. Clean(n, w)'
    BY <1>2, <1>3, <2>1, Zenon DEF Clean
  <2> QED BY <1>2, <2>1, <2>2 DEF Underway
<1>5. Refusal => Refusal'
  BY Zenon DEF Refusal
<1> QED BY <1>4, <1>5

(* What an access that leaves the IP and the bytes alone does not change. *)
LEMMA Kept ==
  ASSUME UNCHANGED <<coreVars, chipVars>>, UNCHANGED <<request, buffer, attempt>>
  PROVE  /\ \A w : Underway(w) => Underway(w)'
         /\ Refusal => Refusal'
         /\ AtRest => AtRest'
         /\ Alone => Alone'
         /\ CallTypeOK /\ fn' \in {"transmit", "receive"} /\ retry' \in 0 .. Tries - 1
              => CallTypeOK'
         /\ Sends' = Sends /\ Asks' = Asks /\ Total' = Total
         /\ Fits(request) => Fits(request)'
<1>1. /\ UNCHANGED <<pointer, pointing, written, nacks, core, cmd, txfifo, rxfifo,
                     bus, contentions, tfr_cmd_fifo_thd>>
      /\ ctrl_en' = ctrl_en /\ sent_7bit_addr' = sent_7bit_addr
      /\ rw_cmd' = rw_cmd /\ nack_det' = nack_det /\ arblost_det' = arblost_det
  BY Zenon DEF coreVars, chipVars, ctrlVars, fifoVars, isrVars
<1>2. /\ Sends' = Sends /\ Asks' = Asks /\ Total' = Total
      /\ Fits(request) => Fits(request)'
  BY SameRequest
<1>4. /\ \A w : Underway(w) => Underway(w)'
      /\ Refusal => Refusal'
  BY <1>1, Untouched
<1>5. AtRest => AtRest'
  BY <1>1, Zenon DEF AtRest
<1>6. Alone => Alone'
  BY <1>1, Zenon DEF Alone
<1>7. CallTypeOK /\ fn' \in {"transmit", "receive"} /\ retry' \in 0 .. Tries - 1
        => CallTypeOK'
  BY <1>1 DEF CallTypeOK
<1> QED BY <1>2, <1>4, <1>5, <1>6, <1>7

USE DriverAssumption

(* Each access keeps the invariant.                                        *)
LEMMA LightSizes ==
  ASSUME Fits(request)
  PROVE  /\ Sends \in Nat /\ Asks \in Nat /\ Total \in Nat \ {0}
         /\ Total = Sends + Asks
         /\ request.rx \in 0 .. Depth /\ request.rx \in Nat
         /\ request.tx = <<>> <=> Sends = 0
         /\ request.rx = 0 <=> Asks = 0
         /\ Asks # 1 /\ Sends # 1
         /\ request.rx > 0 => Asks = request.rx + 1
<1>1. request.rx \in 0 .. Depth /\ request.tx \in Seq(Nat)
  BY DEF Fits, CallType
<1> QED BY <1>1, Sizes

LEMMA CallBegins ==
  ASSUME CallTypeOK, Alone, AtRest, NEW r, Fits(r), Call(r)
  PROVE  SoundInv'
<1>1. /\ pc = "idle" /\ pc' = "enable" /\ request' = r /\ retry' = Tries - 1
      /\ fn' = Begins(r) /\ k' = 1 /\ buffer' = <<>> /\ attempt' = attempt
  BY DEF Call, At, Goes
<1>2. /\ UNCHANGED <<pointer, pointing, written, nacks, core, cmd, txfifo, rxfifo,
                     bus, contentions, tfr_cmd_fifo_thd>>
      /\ ctrl_en' = ctrl_en /\ sent_7bit_addr' = sent_7bit_addr
      /\ rw_cmd' = rw_cmd /\ nack_det' = nack_det /\ arblost_det' = arblost_det
  BY Zenon DEF Call, coreVars, chipVars, ctrlVars, fifoVars, isrVars
<1>3. r \in CallType /\ fn' \in {"transmit", "receive"} /\ Tries - 1 \in 0 .. Tries - 1
  BY <1>1 DEF Fits, Begins
<1>4. CallTypeOK'
  BY <1>1, <1>2, <1>3 DEF CallTypeOK
<1>5. Alone'
  BY <1>2, Zenon DEF Alone
<1>6. AtRest'
  BY <1>1, <1>2, Zenon DEF AtRest
<1>7. Fits(request)'
  BY <1>1, Zenon DEF Fits
<1>8. PlaceInv'
  <2>1. /\ Sends' \in Nat /\ Asks' \in Nat
        /\ r.tx # <<>> => Sends' > 0
        /\ r.rx > 0 => Asks' > 0
    BY <1>1, <1>3 DEF Sends, Asks, CallType
  <2>2. 1 <= Length'
    <3>1. CASE r.tx # <<>>
      BY <1>1, <2>1, <3>1 DEF Begins, Length
    <3>2. CASE r.tx = <<>>
      <4>1. r.rx > 0
        BY <3>2 DEF Fits
      <4> QED BY <1>1, <2>1, <3>2, <4>1 DEF Begins, Length
    <3> QED BY <3>1, <3>2
  <2>3. Length' \in Nat
    BY <2>1 DEF Length
  <2> QED BY <1>1, <1>7, <2>2, <2>3 DEF PlaceInv, Begins
<1>9. IpInv'
  BY <1>1, <1>6 DEF IpInv, Idle
<1>10. StatusInv'
  BY <1>1 DEF StatusInv, Before, Idle
<1>11. CountInv'
  BY <1>1, <1>2 DEF CountInv, CallTypeOK
<1> QED BY <1>4, <1>5, <1>8, <1>9, <1>10, <1>11 DEF SoundInv

LEMMA CallStep ==
  ASSUME SoundInv, NEW r, Fits(r), Call(r)
  PROVE  SoundInv'
<1>1. CallTypeOK /\ Alone /\ AtRest
  BY DEF SoundInv, IpInv, Idle, Call, At
<1> QED BY <1>1, CallBegins

LEMMA EnableStep ==
  ASSUME SoundInv, Enable
  PROVE  SoundInv'
<1>1. /\ pc = "enable" /\ AtRest /\ core = "IDLE"
  <2>1. pc = "enable" /\ ~LeavesPreIdle
    BY DEF Enable, At
  <2>2. AtRest
    BY <2>1 DEF SoundInv, IpInv, Idle
  <2> QED BY <2>1, <2>2 DEF AtRest, LeavesPreIdle
<1>2. /\ ctrl_en' /\ core' = "PRE_START" /\ pc' = "clear"
      /\ attempt' = (attempt + 1) % 3
      /\ UNCHANGED <<fn, k, status, retry, request, buffer>>
      /\ UNCHANGED <<pointer, pointing, written, nacks, cmd, txfifo, rxfifo,
                     bus, contentions, tfr_cmd_fifo_thd>>
      /\ sent_7bit_addr' = sent_7bit_addr
      /\ rw_cmd' = rw_cmd /\ nack_det' = nack_det /\ arblost_det' = arblost_det
  <2>1. SetEnable /\ pc' = "clear" /\ attempt' = (attempt + 1) % 3
        /\ UNCHANGED <<fn, k, status, retry, request, buffer>>
        /\ UNCHANGED chipVars
    BY <1>1, Zenon DEF Enable, Goes, AtRest
  <2>2. core' = "PRE_START"
    BY <1>1, <2>1 DEF SetEnable
  <2> QED BY <2>1, <2>2, Zenon DEF SetEnable, chipVars, fifoVars, isrVars
<1>3. CallTypeOK'
  <2>1. attempt' \in Nat
    BY <1>2 DEF SoundInv, CallTypeOK
  <2> QED BY <1>2, <2>1 DEF SoundInv, CallTypeOK
<1>4. Alone'
  <2>1. bus = "idle"
    BY <1>1 DEF SoundInv, Alone, OnBus
  <2>2. ~arblost_det' /\ contentions' = 0
    BY <1>2, Zenon DEF SoundInv, Alone
  <2> QED BY <1>2, <2>1, <2>2 DEF Alone, OnBus
<1>5. PlaceInv'
  BY <1>1, <1>2, SameRequest DEF SoundInv, PlaceInv, Length
<1>6. IpInv'
  <2>1. ~sent_7bit_addr'
    BY <1>1, <1>2, Zenon DEF AtRest
  <2> QED BY <1>1, <1>2, <2>1 DEF IpInv, Idle, AtRest
<1>7. StatusInv'
  BY <1>2 DEF StatusInv, Before, Idle
<1>8. CountInv'
  BY <1>1, <1>2 DEF CountInv, SoundInv
<1> QED BY <1>3, <1>4, <1>5, <1>6, <1>7, <1>8 DEF SoundInv

LEMMA ClearStep ==
  ASSUME SoundInv, Clear
  PROVE  SoundInv'
<1>1. /\ pc = "clear" /\ pc' = "write"
      /\ UNCHANGED <<fn, k, status, retry, request, buffer, attempt>>
      /\ UNCHANGED <<pointer, pointing, written, nacks, core, cmd, txfifo, rxfifo,
                     bus, contentions, tfr_cmd_fifo_thd>>
      /\ ctrl_en' = ctrl_en /\ sent_7bit_addr' = sent_7bit_addr
      /\ rw_cmd' = rw_cmd /\ ~nack_det' /\ ~arblost_det'
      /\ nack_det' = FALSE /\ arblost_det' = FALSE
  BY Zenon DEF Clear, At, Goes, ClearIsr, chipVars, fifoVars, ctrlVars
<1>2. /\ ctrl_en /\ core = "PRE_START" /\ ~sent_7bit_addr
      /\ txfifo = <<>> /\ rxfifo = <<>>
      /\ fn = Begins(request) /\ k = 1 /\ buffer = <<>> /\ Fits(request)
      /\ k \in 1 .. Length
  BY <1>1 DEF SoundInv, IpInv, PlaceInv
<1>3. CallTypeOK'
  BY <1>1 DEF SoundInv, CallTypeOK
<1>4. Alone'
  BY <1>1, Zenon DEF SoundInv, Alone
<1>5. /\ Sends' = Sends /\ Asks' = Asks /\ Total' = Total
      /\ Fits(request)'
      /\ Sends \in Nat /\ Asks \in Nat /\ Total \in Nat
      /\ request.tx = <<>> <=> Sends = 0
  BY <1>1, <1>2, SameRequest, LightSizes
<1>6. PlaceInv'
  BY <1>1, <1>2, <1>5 DEF PlaceInv, Length
<1>7. Written' = 0
  BY <1>1, <1>2, <1>5 DEF Written, Base, Begins
<1>8. Underway(0)'
  <2>1. Carried(0)'
    <3>1. Came(0)' = 0
      BY <1>5 DEF Came
    <3>2. Len(request.tx) \in Nat
      BY <1>2, Sizes
    <3> QED BY <1>1, <1>2, <1>5, <3>1, <3>2 DEF Carried
  <2>2. Between(0)'
    BY <1>1, <1>2 DEF Between
  <2>3. Clean(0, 0)'
    BY <1>1, <1>2, <1>5, <2>1, <2>2 DEF Clean
  <2> QED BY <1>5, <2>3 DEF Underway
<1>9. IpInv'
  BY <1>1, <1>2, <1>5, <1>7, <1>8 DEF IpInv, Idle, OnCourse
<1>10. StatusInv'
  BY <1>1, <1>2 DEF StatusInv, Before, Idle
<1>11. CountInv'
  BY <1>1 DEF CountInv, SoundInv
<1> QED BY <1>3, <1>4, <1>6, <1>9, <1>10, <1>11 DEF SoundInv

(* An access that changes no register and no byte, within a transaction.   *)
LEMMA Still ==
  ASSUME SoundInv, pc \notin Idle \cup {"clear"}, pc' \notin Idle \cup {"clear"},
         UNCHANGED <<coreVars, chipVars>>, UNCHANGED <<request, buffer, attempt>>,
         retry' = retry, fn' \in {"transmit", "receive"}, Written' = Written
  PROVE  /\ CallTypeOK' /\ Alone' /\ IpInv' /\ CountInv'
         /\ Fits(request) /\ Fits(request)'
         /\ Sends' = Sends /\ Asks' = Asks /\ Total' = Total
         /\ core' = core /\ rxfifo' = rxfifo /\ nack_det' = nack_det
<1>1. /\ core' = core /\ nacks' = nacks /\ rxfifo' = rxfifo
      /\ ctrl_en' = ctrl_en /\ nack_det' = nack_det
  BY Zenon DEF coreVars, chipVars, ctrlVars, isrVars, fifoVars
<1>2. Fits(request) /\ CallTypeOK /\ Alone
  BY DEF SoundInv, PlaceInv, Idle
<1>3. retry' \in 0 .. Tries - 1
  BY DEF SoundInv, CallTypeOK
<1>4. /\ \A w : Underway(w) => Underway(w)'
      /\ Refusal => Refusal'
      /\ CallTypeOK' /\ Alone'
      /\ Sends' = Sends /\ Asks' = Asks /\ Total' = Total
      /\ Fits(request)'
  BY <1>2, <1>3, Kept
<1>5. ctrl_en /\ (OnCourse \/ Refusal)
  BY DEF SoundInv, IpInv
<1>6. OnCourse => OnCourse'
  BY <1>4 DEF OnCourse
<1>7. IpInv'
  BY <1>1, <1>4, <1>5, <1>6 DEF IpInv
<1>8. CountInv'
  BY <1>1 DEF SoundInv, CountInv, Idle
<1> QED BY <1>1, <1>2, <1>4, <1>7, <1>8

(* Where a call is between two accesses of a transaction.                  *)
LEMMA Course ==
  ASSUME SoundInv, pc \notin Idle \cup {"clear"}
  PROVE  /\ CallTypeOK /\ Alone /\ Fits(request) /\ ctrl_en
         /\ fn \in {"transmit", "receive"}
         /\ k \in Nat /\ k >= 1 /\ k <= Length /\ Length \in Nat
         /\ Base \in Nat /\ Base + Length <= Total
         /\ fn = "transmit" => Length = Sends /\ Base = 0
         /\ fn = "receive" => Length = Asks /\ Base = Sends
         /\ Written = IF pc = "write" THEN Base + k - 1 ELSE Base + k
         /\ Len(Commands) = Length /\ Commands[k] = Entry(Base + k)
         /\ Len(buffer) \in Nat
         /\ \/ Refusal
            \/ /\ OnCourse /\ ~nack_det
               /\ Len(buffer) + Len(rxfifo) <= request.rx
               /\ Written <= Sends => Len(buffer) = 0
               /\ core = "PRE_IDLE" =>
                    /\ Written = Total /\ txfifo = <<>> /\ ~sent_7bit_addr
                    /\ Len(buffer) + Len(rxfifo) = request.rx
               /\ core = "GEN_STOP" => Written = Total
               /\ core # "IDLE"
               /\ core \in {"PRE_START", "BUS_HOLD"} /\ Written = Total
                    => txfifo # <<>>
<1>1. /\ CallTypeOK /\ Alone /\ Fits(request) /\ ctrl_en /\ (OnCourse \/ Refusal)
      /\ k \in 1 .. Length
  BY DEF SoundInv, PlaceInv, IpInv, Idle
<1>2. fn \in {"transmit", "receive"} /\ Len(buffer) \in Nat
  BY <1>1 DEF CallTypeOK
<1>3. /\ Sends \in Nat /\ Asks \in Nat /\ Total = Sends + Asks
  BY <1>1, LightSizes
<1>4. /\ fn = "transmit" => Length = Sends /\ Base = 0
      /\ fn = "receive" => Length = Asks /\ Base = Sends
  BY DEF Length, Base
<1>5. /\ Length \in Nat /\ Base \in Nat /\ Base + Length <= Total
      /\ k \in Nat /\ k >= 1 /\ k <= Length /\ Length > 0
  BY <1>1, <1>2, <1>3, <1>4
<1>6. Len(Commands) = Length /\ Commands[k] = Entry(Base + k)
  BY <1>1, <1>2, <1>5, CommandsListed
<1>7. ASSUME OnCourse
      PROVE  /\ ~nack_det
             /\ Len(buffer) + Len(rxfifo) <= request.rx
             /\ Written <= Sends => Len(buffer) = 0
             /\ core = "PRE_IDLE" =>
                  /\ Written = Total /\ txfifo = <<>> /\ ~sent_7bit_addr
                  /\ Len(buffer) + Len(rxfifo) = request.rx
             /\ core = "GEN_STOP" => Written = Total
             /\ core # "IDLE"
             /\ core \in {"PRE_START", "BUS_HOLD"} /\ Written = Total
                  => txfifo # <<>>
  <2>1. PICK w \in 0 .. Total : w = Written /\ Underway(w)
    BY <1>7 DEF OnCourse
  <2> QED BY <1>1, <2>1, UnderwayFacts
<1>8. Written = IF pc = "write" THEN Base + k - 1 ELSE Base + k
  BY DEF Written
<1> QED BY <1>1, <1>2, <1>4, <1>5, <1>6, <1>7, <1>8

LEMMA CheckNackStep ==
  ASSUME SoundInv, CheckNack
  PROVE  SoundInv'
<1>1. /\ pc = "nack" /\ pc' = "arblost" /\ UNCHANGED <<coreVars, chipVars>>
      /\ UNCHANGED <<fn, k, request, buffer, attempt>> /\ retry' = retry
      /\ nack_det => status' = "NACK_ERR"
      /\ ~nack_det => status' = status
  BY DEF CheckNack, At, Goes
<1>2. Written' = Written /\ Length' = Length
  BY <1>1, SameRequest DEF Written, Base, Length
<1>3. fn' \in {"transmit", "receive"}
  BY <1>1 DEF SoundInv, CallTypeOK
<1>4. /\ CallTypeOK' /\ Alone' /\ IpInv' /\ CountInv'
      /\ Fits(request)' /\ Total' = Total
      /\ core' = core /\ rxfifo' = rxfifo /\ nack_det' = nack_det
  BY <1>1, <1>2, <1>3, Still DEF Idle
<1>5. PlaceInv'
  BY <1>1, <1>2, <1>4 DEF SoundInv, PlaceInv
<1>6. StatusInv'
  BY <1>1, <1>2, <1>4 DEF SoundInv, StatusInv, Before, Idle
<1> QED BY <1>4, <1>5, <1>6 DEF SoundInv

LEMMA DrainStep ==
  ASSUME SoundInv, Drain
  PROVE  SoundInv'
<1>1. /\ pc = "drain" /\ UNCHANGED <<coreVars, chipVars>>
      /\ UNCHANGED <<fn, request, buffer, attempt, status>> /\ retry' = retry
      /\ \/ rxfifo = <<>> /\ pc' = "write" /\ k' = k + 1
         \/ rxfifo # <<>> /\ pc' = "take" /\ k' = k
  BY DEF Drain, At, Goes
<1>2. /\ k \in Nat /\ k >= 1 /\ Base \in Nat /\ Length \in Nat
      /\ fn = "receive" /\ k > 1 /\ k < Length /\ status = Success
  BY <1>1, Course DEF SoundInv, PlaceInv, StatusInv, Idle
<1>3. Base' = Base /\ Length' = Length
  BY <1>1, SameRequest DEF Base, Length
<1>4. Written' = Written
  BY <1>1, <1>2, <1>3 DEF Written
<1>5. /\ CallTypeOK' /\ Alone' /\ IpInv' /\ CountInv'
      /\ Fits(request)' /\ Total' = Total
      /\ core' = core /\ rxfifo' = rxfifo /\ nack_det' = nack_det
  BY <1>1, <1>2, <1>4, Still DEF Idle
<1>6. PlaceInv'
  BY <1>1, <1>2, <1>3, <1>5 DEF PlaceInv
<1>7. StatusInv'
  BY <1>1, <1>2, <1>5 DEF SoundInv, StatusInv, Before, Idle
<1> QED BY <1>5, <1>6, <1>7 DEF SoundInv

LEMMA SettleStep ==
  ASSUME SoundInv, Settle
  PROVE  SoundInv'
<1>1. /\ pc = "settle" /\ pc' = "lastnack" /\ UNCHANGED <<coreVars, chipVars>>
      /\ UNCHANGED <<fn, k, request, buffer, attempt>> /\ retry' = retry
      /\ ~LeavesPreIdle
      /\ \/ ~Busy /\ status' = status
         \/ Busy /\ Waiting
  BY DEF Settle, At, Goes
<1>2. ~nack_det => Written = Total /\ Len(buffer) = request.rx
  BY <1>1 DEF SoundInv, StatusInv
<1>3. core = "PRE_IDLE" /\ status' = status
  <2>1. CASE Refusal
    BY <1>1, <2>1 DEF Refusal, Busy, Waiting
  <2>2. CASE ~Refusal
    <3>1. /\ Alone /\ ~nack_det /\ core # "IDLE"
          /\ core \in {"PRE_START", "BUS_HOLD"} /\ Written = Total => txfifo # <<>>
      BY <1>1, <2>2, Course DEF Idle
    <3>2. ~flush_txfifo /\ (core = "PRE_START" => bus = "idle")
      BY <3>1 DEF Alone, flush_txfifo, OnBus
    <3> QED BY <1>1, <1>2, <3>1, <3>2 DEF Busy, Waiting
  <2> QED BY <2>1, <2>2
<1>4. Written' = Written /\ Length' = Length
  BY <1>1, SameRequest DEF Written, Base, Length
<1>5. fn' \in {"transmit", "receive"}
  BY <1>1 DEF SoundInv, CallTypeOK
<1>6. /\ CallTypeOK' /\ Alone' /\ IpInv' /\ CountInv'
      /\ Fits(request)' /\ Total' = Total
      /\ core' = core /\ rxfifo' = rxfifo /\ nack_det' = nack_det
  BY <1>1, <1>4, <1>5, Still DEF Idle
<1>7. PlaceInv'
  BY <1>1, <1>4, <1>6 DEF SoundInv, PlaceInv
<1>8. StatusInv'
  BY <1>1, <1>2, <1>3, <1>4, <1>6 DEF SoundInv, StatusInv, Before, Idle
<1> QED BY <1>6, <1>7, <1>8 DEF SoundInv

LEMMA CheckLastNackStep ==
  ASSUME SoundInv, CheckLastNack
  PROVE  SoundInv'
<1>1. /\ pc = "lastnack" /\ pc' = "disable" /\ UNCHANGED <<coreVars, chipVars>>
      /\ UNCHANGED <<fn, k, request, buffer, attempt>> /\ retry' = retry
      /\ nack_det => status' = "NACK_ERR"
      /\ ~nack_det => status' = status
  BY DEF CheckLastNack, At, Goes
<1>2. Written' = Written /\ Length' = Length
  BY <1>1, SameRequest DEF Written, Base, Length
<1>3. fn' \in {"transmit", "receive"}
  BY <1>1 DEF SoundInv, CallTypeOK
<1>4. /\ CallTypeOK' /\ Alone' /\ IpInv' /\ CountInv'
      /\ Fits(request)' /\ Total' = Total
      /\ core' = core /\ rxfifo' = rxfifo /\ nack_det' = nack_det
  BY <1>1, <1>2, <1>3, Still DEF Idle
<1>5. PlaceInv'
  BY <1>1, <1>2, <1>4 DEF SoundInv, PlaceInv
<1>6. StatusInv'
  BY <1>1, <1>2, <1>4 DEF SoundInv, StatusInv, Before, Idle, Success
<1> QED BY <1>4, <1>5, <1>6 DEF SoundInv

(* What follows a look at the error bits: the next command, the function   *)
(* after it or the end.                                                    *)
Continues ==
  \/ /\ status # Success /\ status' = status /\ pc' = "settle"
     /\ fn' = fn /\ k' = k
  \/ /\ status = Success /\ status' = status /\ pc' = "drain"
     /\ fn' = fn /\ k' = k /\ fn = "receive" /\ k > 1 /\ k # Length
  \/ /\ status = Success /\ status' = status /\ pc' = "write"
     /\ fn' = fn /\ k' = k + 1 /\ k # Length
  \/ /\ status = Success /\ status' = status /\ pc' = "collect"
     /\ fn' = fn /\ k' = k /\ fn = "receive" /\ k = Length
  \/ /\ status = Success /\ status' = status /\ pc' = "settle"
     /\ fn' = fn /\ k' = k /\ fn = "transmit" /\ k = Length /\ request.rx = 0
  \/ /\ status = Success /\ status' = Success /\ pc' = "write"
     /\ fn' = "receive" /\ k' = 1 /\ fn = "transmit" /\ k = Length
     /\ request.rx > 0

LEMMA NextCommand ==
  ASSUME SoundInv, pc = "arblost", UNCHANGED <<coreVars, chipVars>>,
         UNCHANGED <<request, buffer, retry, attempt>>, Continues
  PROVE  SoundInv'
<1> USE DEF Continues
<1>1. /\ pc = "arblost" /\ UNCHANGED <<coreVars, chipVars>> /\ attempt' = attempt
      /\ status = Success \/ nack_det
  BY DEF SoundInv, StatusInv, Before
<1>2. /\ fn \in {"transmit", "receive"} /\ Base \in Nat /\ Length \in Nat
      /\ k \in Nat /\ k >= 1 /\ k <= Length /\ Len(Commands) = Length
      /\ fn = "transmit" => Length = Sends /\ Base = 0
      /\ fn = "receive" => Length = Asks /\ Base = Sends
      /\ Written = Base + k /\ Fits(request)
      /\ \/ Refusal
         \/ ~nack_det /\ (Written <= Sends => Len(buffer) = 0)
  BY <1>1, Course DEF Idle
<1>3. /\ Sends \in Nat /\ Asks \in Nat /\ Total = Sends + Asks
      /\ request.rx = 0 <=> Asks = 0
      /\ request.rx \in Nat /\ Asks # 1
  BY <1>2, LightSizes
<1>4. Sends' = Sends /\ Asks' = Asks /\ Total' = Total
  BY SameRequest
<1>5. Written' = Written /\ k' \in 1 .. Length'
  <2>1. CASE fn' = fn
    <3>1. Base' = Base /\ Length' = Length
      BY <1>4, <2>1 DEF Base, Length
    <3> QED BY <1>1, <1>2, <2>1, <3>1 DEF Written
  <2>2. CASE fn' # fn
    <3>1. /\ fn' = "receive" /\ k' = 1 /\ fn = "transmit" /\ k = Length
          /\ request.rx > 0 /\ pc' = "write"
      BY <2>2
    <3>2. Base' = Sends /\ Length' = Asks /\ Written = Sends /\ Asks >= 1
      BY <1>2, <1>3, <1>4, <3>1 DEF Base, Length
    <3>3. Written' = Sends + 1 - 1
      BY <3>1, <3>2 DEF Written
    <3> QED BY <1>3, <3>1, <3>2, <3>3
  <2> QED BY <2>1, <2>2
<1>6. /\ CallTypeOK' /\ Alone' /\ IpInv' /\ CountInv' /\ Fits(request)'
      /\ core' = core /\ rxfifo' = rxfifo /\ nack_det' = nack_det
  <2>1. pc' \notin Idle \cup {"clear"} /\ fn' \in {"transmit", "receive"}
    BY <1>2 DEF Idle
  <2> QED BY <1>1, <1>5, <2>1, Still DEF Idle
<1>7. PlaceInv'
  <2>1. fn' = fn => Length' = Length
    BY <1>4 DEF Length
  <2>2. pc' \in {"drain", "collect", "settle", "write"}
    OBVIOUS
  <2> QED BY <1>2, <1>5, <1>6, <2>1, <2>2 DEF PlaceInv
<1>8. StatusInv'
  <2>1. pc' \notin Before => status' = Success \/ nack_det'
    BY <1>1, <1>6
  <2>2. pc' = "settle" /\ ~nack_det' => Written' = Total' /\ Len(buffer') = request'.rx
    BY <1>1, <1>2, <1>3, <1>4, <1>5, <1>6 DEF Refusal
  <2>3. ~(nack_det /\ buffer # <<>>)
    BY <1>1 DEF SoundInv, StatusInv, Idle
  <2> QED BY <1>6, <2>1, <2>2, <2>3 DEF StatusInv, Idle
<1> QED BY <1>6, <1>7, <1>8 DEF SoundInv

LEMMA CheckArbLostStep ==
  ASSUME SoundInv, CheckArbLost
  PROVE  SoundInv'
<1>1. /\ pc = "arblost" /\ UNCHANGED <<coreVars, chipVars>> /\ attempt' = attempt
      /\ ~arblost_det
  BY DEF CheckArbLost, At, SoundInv, Alone
<1>2. Len(Commands) = Length /\ fn \in {"transmit", "receive"}
  BY <1>1, Course DEF Idle
<1>3. request' = request /\ buffer' = buffer /\ retry' = retry
  BY <1>1, Zenon DEF CheckArbLost, Return, Retried, Success
<1>4. Continues
  BY <1>1, <1>2 DEF CheckArbLost, Goes, Last, Drains, Return, Retried, Success,
     Continues
<1> QED BY <1>1, <1>3, <1>4, NextCommand

LEMMA CollectStep ==
  ASSUME SoundInv, Collect
  PROVE  SoundInv'
<1>1. /\ pc = "collect" /\ UNCHANGED <<coreVars, chipVars>>
      /\ UNCHANGED <<fn, k, request, buffer, attempt>> /\ retry' = retry
      /\ ~LeavesPreIdle
      /\ \/ /\ Len(buffer) >= request.rx \/ status # Success
            /\ pc' = "settle" /\ status' = status
         \/ /\ Len(buffer) < request.rx /\ status = Success /\ pc' = "fetch"
            /\ \/ rxfifo # <<>> /\ status' = status
               \/ rxfifo = <<>> /\ Waiting /\ status' = "TIMEOUT"
  BY DEF Collect, At, Goes, GiveUp
<1>2. /\ fn = "receive" /\ k = Length /\ Alone /\ Fits(request)
      /\ status = Success \/ nack_det
      /\ nack_det /\ buffer # <<>> =>
           Len(buffer) = 1 /\ request.rx > 0 /\ status # Success
  BY <1>1, Course DEF SoundInv, PlaceInv, StatusInv, Before, Idle
<1>3. /\ Sends \in Nat /\ Asks \in Nat /\ Total = Sends + Asks /\ request.rx \in Nat
  BY <1>2, LightSizes
<1>4. /\ Len(buffer) \in Nat
      /\ Written = Total
      /\ Refusal \/ ~nack_det
      /\ ~Refusal => /\ Len(buffer) + Len(rxfifo) <= request.rx
                     /\ core = "PRE_IDLE" =>
                          Len(buffer) + Len(rxfifo) = request.rx
                     /\ core # "IDLE"
                     /\ core \in {"PRE_START", "BUS_HOLD"} => txfifo # <<>>
      /\ CallTypeOK
  BY <1>1, <1>2, <1>3, Course DEF Idle
<1>5. Written' = Written /\ Length' = Length
  BY <1>1, SameRequest DEF Written, Base, Length
<1>6. fn' \in {"transmit", "receive"}
  BY <1>1, <1>2
<1>7. /\ CallTypeOK' /\ Alone' /\ IpInv' /\ CountInv'
      /\ Fits(request)' /\ Total' = Total
      /\ core' = core /\ rxfifo' = rxfifo /\ nack_det' = nack_det
  BY <1>1, <1>5, <1>6, Still DEF Idle
<1>8. ASSUME rxfifo = <<>>, Waiting, Len(buffer) < request.rx PROVE nack_det
  <2>1. SUFFICES ASSUME ~nack_det PROVE FALSE
    OBVIOUS
  <2>2. ~Refusal /\ ~flush_txfifo /\ (core = "PRE_START" => bus = "idle")
    BY <1>2, <2>1 DEF Refusal, Alone, flush_txfifo, OnBus
  <2>3. core # "PRE_IDLE"
    BY <1>3, <1>4, <1>8, <2>2
  <2> QED BY <1>4, <1>8, <2>2, <2>3 DEF Waiting
<1>9. PlaceInv'
  BY <1>1, <1>2, <1>5, <1>7, <1>8 DEF SoundInv, PlaceInv, Success
<1>10. StatusInv'
  <2>1. pc' \notin Before => status' = Success \/ nack_det'
    BY <1>1, <1>2, <1>7, <1>8
  <2>2. pc' = "settle" /\ ~nack_det' => Written' = Total' /\ Len(buffer') = request'.rx
    <3>1. CASE pc' = "settle" /\ ~nack_det'
      <4>1. Len(buffer) >= request.rx /\ ~Refusal
        BY <1>1, <1>2, <1>7, <3>1 DEF Refusal
      <4>2. Len(rxfifo) \in Nat
        BY <1>4 DEF CallTypeOK
      <4> QED BY <1>1, <1>3, <1>4, <1>5, <1>7, <4>1, <4>2
    <3> QED BY <3>1
  <2>3. nack_det' /\ buffer' # <<>> =>
           /\ Len(buffer') = 1 /\ request'.rx > 0 /\ status' # Success
           /\ pc' = "settle"
    BY <1>1, <1>2, <1>7
  <2> QED BY <1>1, <2>1, <2>2, <2>3 DEF StatusInv, Idle
<1> QED BY <1>7, <1>9, <1>10 DEF SoundInv

(* A command written, a byte read. *)
LEMMA WriteUnderway ==
  ASSUME CallTypeOK, Alone, Fits(request), NEW w, Underway(w),
         w + 1 \in 1 .. Total, Len(txfifo) < Depth, WriteCommand(Entry(w + 1)),
         UNCHANGED <<fn, retry, request, buffer, attempt, chipVars>>
  PROVE  Underway(w + 1)' /\ CallTypeOK'
<1>1. PICK n \in 0 .. Total : Clean(n, w)
  BY DEF Underway
<1>2. /\ Sends \in Nat /\ Asks \in Nat /\ Total \in Nat /\ Total = Sends + Asks
  BY Sizes
<1>3. /\ ~nack_det /\ n + Len(txfifo) = w /\ w \in 0 .. Total
      /\ \A i \in 1 .. Len(txfifo) : txfifo[i] = Entry(n + i)
      /\ \/ Between(n) /\ Carried(n)
         \/ Within(n) /\ Carried(n - 1)
  BY <1>1 DEF Clean
<1>4. txfifo' = Append(txfifo, Entry(w + 1))
  BY <1>3 DEF WriteCommand, Alone, flush_txfifo
<1>5. /\ UNCHANGED <<pointer, pointing, written, nacks, core, cmd, rxfifo, bus,
                     contentions, tfr_cmd_fifo_thd, buffer, request, attempt>>
      /\ ctrl_en' = ctrl_en /\ sent_7bit_addr' = sent_7bit_addr
      /\ rw_cmd' = rw_cmd /\ nack_det' = nack_det /\ arblost_det' = arblost_det
  BY Zenon DEF WriteCommand, chipVars, ctrlVars, isrVars
<1>6. Entry(w + 1) \in CommandType /\ txfifo \in Seq(CommandType)
  BY EntryTyped DEF CallTypeOK
<1>7. /\ Len(txfifo') = Len(txfifo) + 1 /\ Len(txfifo) \in Nat
      /\ txfifo' \in Seq(CommandType) /\ txfifo' # <<>>
      /\ \A i \in 1 .. Len(txfifo) : txfifo'[i] = txfifo[i]
      /\ txfifo'[Len(txfifo) + 1] = Entry(w + 1)
  BY <1>4, <1>6
<1>8. /\ Sends' = Sends /\ Asks' = Asks /\ Total' = Total
      /\ \A j : Entry(j)' = Entry(j)
  BY <1>5, SameRequest
<1>9. /\ Carried(n) => Carried(n)'
      /\ Carried(n - 1) => Carried(n - 1)'
  BY <1>5, CarriedKept
<1>10. /\ Between(n) => Between(n)'
       /\ Within(n) => Within(n)'
  <2>1. Between(n) => Between(n)'
    BY <1>5, <1>8, Zenon DEF Between
  <2>2. Within(n) => Within(n)'
    BY <1>5, <1>8, Zenon DEF Within
  <2> QED BY <2>1, <2>2
<1>11. n + Len(txfifo') = w + 1
       /\ \A i \in 1 .. Len(txfifo') : txfifo'[i] = Entry(n + i)'
  <2>1. n + Len(txfifo') = w + 1 /\ n + (Len(txfifo) + 1) = w + 1
    BY <1>3, <1>7
  <2>2. ASSUME NEW i \in 1 .. Len(txfifo') PROVE txfifo'[i] = Entry(n + i)
    <3>1. CASE i = Len(txfifo) + 1
      <4>1. n + i = w + 1
        BY <2>1, <3>1
      <4> QED BY <1>7, <3>1, <4>1
    <3>2. CASE i <= Len(txfifo)
      BY <1>3, <1>7, <2>2, <3>2
    <3> QED BY <1>7, <2>2, <3>1, <3>2
  <2> QED BY <1>8, <2>1, <2>2
<1>12. Clean(n, w + 1)'
  BY <1>2, <1>3, <1>5, <1>7, <1>8, <1>9, <1>10, <1>11 DEF Clean
<1>13. CallTypeOK'
  BY <1>5, <1>7 DEF CallTypeOK
<1> QED BY <1>8, <1>12, <1>13 DEF Underway

LEMMA ReadUnderway ==
  ASSUME CallTypeOK, Fits(request), NEW w, Underway(w), rxfifo # <<>>,
         buffer' = Append(buffer, RxData), PopRxData,
         UNCHANGED <<request, attempt, chipVars>>
  PROVE  Underway(w)'
<1>1. PICK n \in 0 .. Total : Clean(n, w)
  BY DEF Underway
<1>2. rxfifo \in Seq(SampleType) /\ buffer \in Seq(SampleType)
  BY DEF CallTypeOK
<1>3. rxfifo' = Tail(rxfifo) /\ buffer' = Append(buffer, rxfifo[1])
  BY <1>2 DEF PopRxData, RxData
<1>4. /\ UNCHANGED <<pointer, pointing, written, core, cmd, txfifo, request, attempt>>
      /\ sent_7bit_addr' = sent_7bit_addr
      /\ rw_cmd' = rw_cmd /\ nack_det' = nack_det
  BY Zenon DEF PopRxData, chipVars, isrVars
<1>5. /\ Len(rxfifo) \in Nat /\ Len(rxfifo) > 0 /\ Len(buffer) \in Nat
      /\ Len(rxfifo') = Len(rxfifo) - 1 /\ Len(buffer') = Len(buffer) + 1
      /\ \A i \in 1 .. Len(rxfifo') : rxfifo'[i] = rxfifo[i + 1]
      /\ \A i \in 1 .. Len(buffer) : buffer'[i] = buffer[i]
      /\ buffer'[Len(buffer) + 1] = rxfifo[1]
  BY <1>2, <1>3
<1>6. /\ Sends' = Sends /\ Asks' = Asks /\ Total' = Total
      /\ \A j : Entry(j)' = Entry(j)
      /\ \A j : From(j)' = From(j)
      /\ \A j : Came(j)' = Came(j)
  BY <1>4, SameRequest
<1>7. ASSUME NEW m, Carried(m) PROVE Carried(m)'
  <2>1. Len(buffer') + Len(rxfifo') = Came(m)
    BY <1>5, <1>7 DEF Carried
  <2>2. ASSUME Sends > 0
        PROVE  /\ \A i \in 1 .. Len(buffer') : buffer'[i] = SampleOf(i)
               /\ \A i \in 1 .. Len(rxfifo') :
                    rxfifo'[i] = SampleOf(Len(buffer') + i)
    <3>1. /\ \A i \in 1 .. Len(buffer) : buffer[i] = SampleOf(i)
          /\ \A i \in 1 .. Len(rxfifo) : rxfifo[i] = SampleOf(Len(buffer) + i)
      BY <1>7, <2>2 DEF Carried
    <3>2. ASSUME NEW i \in 1 .. Len(buffer') PROVE buffer'[i] = SampleOf(i)
      BY <1>5, <3>1, <3>2
    <3>3. ASSUME NEW i \in 1 .. Len(rxfifo')
          PROVE  rxfifo'[i] = SampleOf(Len(buffer') + i)
      <4>1. /\ i + 1 \in 1 .. Len(rxfifo)
            /\ Len(buffer) + (i + 1) = Len(buffer') + i
        BY <1>5, <3>3
      <4> QED BY <1>5, <3>1, <4>1
    <3> QED BY <3>2, <3>3
  <2>3. /\ m \in 1 .. Sends => (pointing <=> m = 1)
        /\ m > 1 /\ Sends > 0 =>
             pointer = From(IF m > Sends THEN m - 3 ELSE m - 2)
        /\ \A i \in 2 .. Len(request.tx) :
             i < m => written[From(i - 2)] = request.tx[i]
    BY <1>7 DEF Carried
  <2> QED BY <1>4, <1>6, <2>1, <2>2, <2>3 DEF Carried, SampleOf
<1>8. /\ Between(n) => Between(n)'
      /\ Within(n) => Within(n)'
  <2>1. Between(n) => Between(n)'
    BY <1>4, <1>6, Zenon DEF Between
  <2>2. Within(n) => Within(n)'
    BY <1>4, <1>6, Zenon DEF Within
  <2> QED BY <2>1, <2>2
<1>9. Clean(n, w)'
  BY <1>1, <1>4, <1>6, <1>7, <1>8, Zenon DEF Clean
<1> QED BY <1>6, <1>9 DEF Underway

(* The master takes commands until there is room for the next: the wait    *)
(* for it does not time out.                                               *)
LEMMA RoomComes ==
  ASSUME SoundInv, pc = "write", tx_ready \/ Waiting
  PROVE  tx_ready
<1>1. /\ CallTypeOK /\ Alone /\ ctrl_en
      /\ \/ Refusal
         \/ /\ ~nack_det /\ core # "IDLE"
            /\ core = "PRE_IDLE" => txfifo = <<>>
  BY Course DEF Idle
<1>2. /\ Len(txfifo) \in Nat /\ tfr_cmd_fifo_thd \in Nat
      /\ txfifo = <<>> => Len(txfifo) = 0
  BY <1>1 DEF CallTypeOK
<1>3. ASSUME txfifo # <<>>, Waiting PROVE FALSE
  <2>1. ~Refusal
    BY <1>3 DEF Refusal
  <2>2. /\ ~nack_det /\ core # "PRE_IDLE" /\ core # "IDLE"
    BY <1>1, <1>3, <2>1
  <2>3. ~flush_txfifo /\ (core = "PRE_START" => bus = "idle")
    BY <1>1, <2>2 DEF Alone, flush_txfifo, OnBus
  <2> QED BY <1>3, <2>2, <2>3 DEF Waiting
<1>4. ~tx_ready => txfifo # <<>>
  BY <1>1, <1>2 DEF tx_ready
<1> QED BY <1>3, <1>4

LEMMA WriteStep ==
  ASSUME SoundInv, Write
  PROVE  SoundInv'
<1>1. /\ pc = "write" /\ UNCHANGED chipVars
      /\ UNCHANGED <<fn, k, retry, request, buffer, attempt>>
      /\ \/ /\ tx_ready /\ WriteCommand(Commands[k])
            /\ pc' = "nack" /\ status' = Success
         \/ ~tx_ready /\ Waiting
  BY DEF Write, At, Goes
<1>2. /\ CallTypeOK /\ Alone /\ Fits(request) /\ ctrl_en
      /\ Base \in Nat /\ k \in Nat /\ k >= 1 /\ Base + k <= Total
      /\ Commands[k] = Entry(Base + k)
      /\ Written = Base + k - 1
      /\ \/ Refusal
         \/ /\ OnCourse /\ ~nack_det
            /\ core = "PRE_IDLE" => txfifo = <<>>
            /\ core # "IDLE"
  BY <1>1, Course, LightSizes DEF Idle
<1>3. /\ Sends' = Sends /\ Asks' = Asks /\ Total' = Total
      /\ Fits(request)' /\ Base' = Base /\ Length' = Length
      /\ Total \in Nat
  BY <1>1, <1>2, SameRequest, LightSizes DEF Base, Length
<1>4. tx_ready
  BY <1>1, RoomComes
<1>5. /\ WriteCommand(Entry(Base + k)) /\ pc' = "nack" /\ status' = Success
  BY <1>1, <1>2, <1>4
<1>6. /\ UNCHANGED <<core, rxfifo, nacks, bus, contentions, tfr_cmd_fifo_thd>>
      /\ ctrl_en' = ctrl_en /\ nack_det' = nack_det
      /\ sent_7bit_addr' = sent_7bit_addr /\ arblost_det' = arblost_det
  BY <1>1, <1>5, Zenon DEF WriteCommand, ctrlVars, isrVars, chipVars
<1>7. Written' = Base + k
  BY <1>1, <1>3, <1>5 DEF Written
<1>8. Alone'
  BY <1>6, Zenon DEF SoundInv, Alone
<1>9. CallTypeOK' /\ (OnCourse' \/ Refusal')
  <2>1. CASE Refusal
    <3>1. txfifo' = txfifo
      BY <1>5, <2>1 DEF WriteCommand, Refusal, flush_txfifo
    <3>2. Refusal'
      BY <1>6, <2>1, <3>1, Zenon DEF Refusal
    <3>3. /\ UNCHANGED <<pointer, pointing, written, nacks, cmd>> /\ rw_cmd' = rw_cmd
      BY <1>1, <1>5, Zenon DEF WriteCommand, chipVars
    <3>4. CallTypeOK'
      BY <1>1, <1>2, <1>6, <3>1, <3>3 DEF CallTypeOK
    <3> QED BY <3>2, <3>4
  <2>2. CASE ~Refusal
    <3>1. PICK w \in 0 .. Total : w = Written /\ Underway(w)
      BY <1>2, <2>2 DEF OnCourse
    <3>2. w + 1 = Base + k /\ w + 1 \in 1 .. Total
      BY <1>2, <1>3, <3>1
    <3>3. Len(txfifo) < Depth
      BY <1>2, <1>4 DEF tx_ready, CallTypeOK
    <3>4. Underway(w + 1)' /\ CallTypeOK'
      BY <1>1, <1>2, <1>5, <3>1, <3>2, <3>3, WriteUnderway
    <3>5. w + 1 \in 0 .. Total
      BY <3>2
    <3> QED BY <1>3, <1>7, <3>2, <3>4, <3>5 DEF OnCourse
  <2> QED BY <2>1, <2>2
<1>10. IpInv'
  BY <1>2, <1>5, <1>6, <1>9 DEF IpInv, Idle
<1>11. PlaceInv'
  BY <1>1, <1>3, <1>5 DEF SoundInv, PlaceInv
<1>12. StatusInv'
  <2>1. ~(nack_det /\ buffer # <<>>)
    BY <1>1 DEF SoundInv, StatusInv, Idle
  <2> QED BY <1>1, <1>5, <1>6, <2>1 DEF StatusInv, Idle
<1>13. CountInv'
  BY <1>1, <1>5, <1>6 DEF SoundInv, CountInv
<1> QED BY <1>8, <1>9, <1>10, <1>11, <1>12, <1>13 DEF SoundInv

(* The registers and the machine after a byte is read. *)
LEMMA ReadDataStep ==
  ASSUME SoundInv, NEW next, ReadData(next), pc \in {"take", "fetch"},
         next \notin Idle \cup {"clear", "write"}
  PROVE  /\ CallTypeOK' /\ Alone' /\ IpInv' /\ Written' = Written
         /\ Total' = Total /\ Length' = Length
         /\ UNCHANGED <<fn, k, retry, request, core, nacks>> /\ pc' = next
         /\ nack_det' = nack_det
         /\ Len(buffer') = Len(buffer) + 1 /\ Len(buffer) \in Nat
         /\ Fits(request) /\ Fits(request)'
         /\ rxfifo # <<>> => ~nack_det
<1>1. /\ UNCHANGED <<fn, k, retry, request, attempt, chipVars>>
      /\ pc' = next /\ PopRxData /\ buffer' = Append(buffer, RxData)
  BY DEF ReadData, Goes
<1>2. /\ CallTypeOK /\ Alone /\ Fits(request) /\ ctrl_en
      /\ Refusal \/ (OnCourse /\ ~nack_det)
  BY Course DEF Idle
<1>3. /\ UNCHANGED <<pointer, pointing, written, nacks, core, cmd, txfifo, bus,
                     contentions, tfr_cmd_fifo_thd>>
      /\ ctrl_en' = ctrl_en /\ sent_7bit_addr' = sent_7bit_addr
      /\ rw_cmd' = rw_cmd /\ nack_det' = nack_det /\ arblost_det' = arblost_det
      /\ rxfifo' = IF rxfifo = <<>> THEN rxfifo ELSE Tail(rxfifo)
  BY <1>1, Zenon DEF PopRxData, ctrlVars, isrVars, chipVars
<1>4. RxData \in SampleType
  <2>1. Garbage \in SampleType
    BY DEF Garbage, SampleType
  <2>2. rxfifo # <<>> => Head(rxfifo) \in SampleType
    <3>1. rxfifo \in Seq(SampleType)
      BY <1>2 DEF CallTypeOK
    <3> QED BY <3>1
  <2> QED BY <2>1, <2>2 DEF RxData
<1>5. /\ rxfifo' \in Seq(SampleType) /\ buffer' \in Seq(SampleType)
      /\ Len(buffer') = Len(buffer) + 1 /\ Len(buffer) \in Nat
  <2>1. rxfifo \in Seq(SampleType) /\ buffer \in Seq(SampleType)
    BY <1>2 DEF CallTypeOK
  <2> QED BY <1>1, <1>3, <1>4, <2>1
<1>6. CallTypeOK'
  BY <1>1, <1>2, <1>3, <1>5 DEF CallTypeOK
<1>7. Alone'
  BY <1>2, <1>3, Zenon DEF Alone
<1>8. /\ Sends' = Sends /\ Total' = Total /\ Length' = Length /\ Base' = Base
      /\ Fits(request)'
  BY <1>1, <1>2, SameRequest DEF Length, Base
<1>9. Written' = Written
  BY <1>1, <1>8 DEF Written
<1>10. OnCourse' \/ Refusal'
  <2>1. CASE rxfifo # <<>>
    <3>1. PICK w \in 0 .. Total : w = Written /\ Underway(w)
      BY <1>2, <2>1 DEF OnCourse, Refusal
    <3>2. Underway(w)'
      BY <1>1, <1>2, <2>1, <3>1, ReadUnderway
    <3> QED BY <1>8, <1>9, <3>1, <3>2 DEF OnCourse
  <2>2. CASE rxfifo = <<>>
    <3>1. Refusal
      BY <1>2, <2>2 DEF SoundInv, PlaceInv
    <3>2. Refusal'
      BY <1>3, <2>2, <3>1, Zenon DEF Refusal
    <3> QED BY <3>2
  <2> QED BY <2>1, <2>2
<1>11. IpInv'
  BY <1>1, <1>2, <1>3, <1>10 DEF IpInv
<1>12. rxfifo # <<>> => ~nack_det
  BY <1>2 DEF Refusal
<1> QED BY <1>1, <1>2, <1>3, <1>5, <1>6, <1>7, <1>8, <1>9, <1>11, <1>12

LEMMA DrainTakeStep ==
  ASSUME SoundInv, DrainTake
  PROVE  SoundInv'
<1>1. pc = "take" /\ ReadData("drain") /\ status' = status
  BY DEF DrainTake, At
<1>2. rxfifo # <<>>
  BY <1>1 DEF SoundInv, PlaceInv
<1>3. /\ CallTypeOK' /\ Alone' /\ IpInv'
      /\ Length' = Length
      /\ UNCHANGED <<fn, k, retry, request, core, nacks>> /\ pc' = "drain"
      /\ nack_det' = nack_det /\ ~nack_det
      /\ Fits(request)'
  BY <1>1, <1>2, ReadDataStep DEF Idle
<1>4. PlaceInv'
  BY <1>1, <1>3 DEF SoundInv, PlaceInv
<1>5. StatusInv'
  BY <1>1, <1>3 DEF SoundInv, StatusInv, Before, Idle
<1>6. CountInv'
  BY <1>1, <1>3 DEF SoundInv, CountInv
<1> QED BY <1>3, <1>4, <1>5, <1>6 DEF SoundInv

LEMMA FetchStep ==
  ASSUME SoundInv, Fetch
  PROVE  SoundInv'
<1>1. pc = "fetch" /\ ReadData("collect") /\ status' = status
  BY DEF Fetch, At
<1>2. /\ CallTypeOK' /\ Alone' /\ IpInv'
      /\ Length' = Length
      /\ UNCHANGED <<fn, k, retry, request, core, nacks>> /\ pc' = "collect"
      /\ nack_det' = nack_det /\ (rxfifo # <<>> => ~nack_det)
      /\ Len(buffer') = Len(buffer) + 1 /\ Len(buffer) \in Nat
      /\ Fits(request) /\ Fits(request)'
  BY <1>1, ReadDataStep DEF Idle
<1>3. PlaceInv'
  BY <1>1, <1>2 DEF SoundInv, PlaceInv
<1>4. StatusInv'
  <2>1. /\ Len(buffer) < request.rx /\ request.rx \in Nat
        /\ nack_det => status # Success /\ buffer = <<>>
    BY <1>1, <1>2, LightSizes DEF SoundInv, PlaceInv, StatusInv, Idle
  <2>2. nack_det => Len(buffer') = 1 /\ request.rx > 0
    BY <1>2, <2>1
  <2>3. status = Success \/ nack_det
    BY <1>1 DEF SoundInv, StatusInv, Before
  <2> QED BY <1>1, <1>2, <2>1, <2>2, <2>3 DEF StatusInv, Before, Idle
<1>5. CountInv'
  BY <1>1, <1>2 DEF SoundInv, CountInv
<1> QED BY <1>2, <1>3, <1>4, <1>5 DEF SoundInv

(* All the commands acted on and all the bytes read.                       *)
LEMMA AllDelivered ==
  ASSUME CallTypeOK, Fits(request), Underway(Total), core = "PRE_IDLE",
         Len(buffer) = request.rx
  PROVE  Delivered
<1>1. PICK n \in 0 .. Total : Clean(n, Total)
  BY DEF Underway
<1>2. n = Total /\ Carried(n)
  BY <1>1 DEF Clean, Between, Within
<1>3. /\ Sends \in Nat /\ Asks \in Nat /\ Total = Sends + Asks
      /\ request.rx \in Nat /\ Len(request.tx) \in Nat
      /\ request.tx = <<>> => Sends = 0 /\ Len(request.tx) = 0
      /\ request.tx # <<>> => Sends = Len(request.tx) + 1
  BY Sizes
<1>4. ASSUME request.tx # <<>>, NEW i \in 1 .. request.rx
      PROVE  buffer[i] = SampleOf(i)
  BY <1>2, <1>3, <1>4 DEF Carried
<1>5. ASSUME NEW i \in 2 .. Len(request.tx)
      PROVE  written[From(i - 2)] = request.tx[i]
  <2>1. i < n
    BY <1>2, <1>3, <1>5
  <2> QED BY <1>2, <1>5, <2>1 DEF Carried
<1> QED BY <1>4, <1>5 DEF Delivered

(* It is what a success promises.                                          *)
LEMMA DeliveredMeans ==
  ASSUME Fits(request), Delivered
  PROVE  /\ Len(buffer) = request.rx
         /\ request.tx # <<>> =>
              \A i \in 1 .. request.rx :
                buffer[i] = [register |-> (request.tx[1] + Len(request.tx) + i - 2)
                                            % Registers,
                             attempt |-> attempt]
         /\ \A i \in 2 .. Len(request.tx) :
              written[(request.tx[1] + i - 2) % Registers] = request.tx[i]
<1>1. request.rx \in Nat /\ Len(request.tx) \in Nat
  BY Sizes
<1>2. ASSUME request.tx # <<>>, NEW i \in 1 .. request.rx
      PROVE  buffer[i] = [register |-> (request.tx[1] + Len(request.tx) + i - 2)
                                         % Registers,
                          attempt |-> attempt]
  <2> DEFINE first == request.tx[1]
             sent == Len(request.tx)
  <2>1. first \in Nat /\ sent \in Nat /\ i \in Nat
    <3>1. first \in Nat
      BY <1>2, Sequence, Zenon
    <3> QED BY <1>1, <3>1
  <2>2. buffer[i] = SampleOf(i)
    BY <1>2 DEF Delivered
  <2> HIDE DEF first, sent
  <2>3. first + (sent + i - 2) = first + sent + i - 2
    BY <2>1
  <2> QED BY <2>2, <2>3 DEF first, sent, SampleOf, From
<1>3. ASSUME NEW i \in 2 .. Len(request.tx)
      PROVE  written[(request.tx[1] + i - 2) % Registers] = request.tx[i]
  <2>1. request.tx # <<>>
    BY <1>1, <1>3
  <2>2. request.tx[1] + (i - 2) = request.tx[1] + i - 2
    <3>1. request.tx[1] \in Nat
      BY <2>1, Sequence
    <3> QED BY <1>1, <1>3, <3>1
  <2>3. written[From(i - 2)] = request.tx[i]
    BY <1>3 DEF Delivered
  <2> QED BY <2>2, <2>3 DEF From
<1> QED BY <1>2, <1>3 DEF Delivered

(* It stays so until the next call.                                        *)
LEMMA DeliveredSound ==
  ASSUME Fits(request), Delivered,
         UNCHANGED <<request, buffer, attempt, written>>
  PROVE  ReadSound' /\ WriteSound'
<1>1. ReadSound'
  BY DeliveredMeans DEF ReadSound
<1>2. WriteSound'
  BY DeliveredMeans DEF WriteSound
<1> QED BY <1>1, <1>2

LEMMA DisableStep ==
  ASSUME SoundInv, Disable
  PROVE  SoundInv' /\ pc' \in Idle
<1>1. /\ pc = "disable" /\ ClearEnable /\ Return(status)
      /\ UNCHANGED <<attempt, chipVars>>
  BY DEF Disable, At
<1>2. /\ core = "PRE_IDLE"
      /\ nack_det => status = "NACK_ERR"
      /\ ~nack_det => /\ status = Success /\ Written = Total
                      /\ Len(buffer) = request.rx
      /\ nack_det /\ buffer # <<>> => Len(buffer) = 1 /\ request.rx > 0
  BY <1>1 DEF SoundInv, StatusInv, Idle
<1>3. /\ CallTypeOK /\ Alone /\ Fits(request)
      /\ fn \in {"transmit", "receive"} /\ Base \in Nat /\ k \in Nat /\ k <= Length
      /\ fn = "transmit" => Length = Sends /\ Base = 0
      /\ Written = Base + k
      /\ \/ Refusal
         \/ /\ OnCourse /\ ~nack_det /\ txfifo = <<>> /\ ~sent_7bit_addr
            /\ Len(buffer) + Len(rxfifo) = request.rx
  BY <1>1, <1>2, Course DEF Idle
<1>4. /\ UNCHANGED <<pointer, pointing, written, nacks, core, cmd, txfifo, rxfifo,
                     bus, contentions, tfr_cmd_fifo_thd, request, attempt>>
      /\ ~ctrl_en' /\ ctrl_en' = FALSE /\ sent_7bit_addr' = sent_7bit_addr
      /\ rw_cmd' = rw_cmd /\ nack_det' = nack_det /\ arblost_det' = arblost_det
  <2>1. request' = request
    BY <1>1, Zenon DEF Return
  <2> QED BY <1>1, <2>1, Zenon DEF ClearEnable, chipVars, fifoVars, isrVars
<1>5. /\ Sends \in Nat /\ Asks \in Nat /\ Total = Sends + Asks
      /\ request.rx \in Nat /\ (request.rx = 0 <=> Asks = 0)
      /\ request.tx = <<>> <=> Sends = 0
  BY <1>3, LightSizes
<1>6. /\ Sends' = Sends /\ Asks' = Asks /\ Total' = Total /\ Fits(request)'
  BY <1>3, <1>4, SameRequest
<1>7. AtRest'
  <2>1. txfifo = <<>> /\ rxfifo = <<>> /\ ~sent_7bit_addr
    <3>1. CASE Refusal
      BY <1>2, <3>1 DEF Refusal
    <3>2. CASE ~Refusal
      <4>1. Len(rxfifo) = 0
        BY <1>2, <1>3, <1>5, <3>2 DEF CallTypeOK
      <4>2. rxfifo = <<>>
        BY <1>3, <4>1 DEF CallTypeOK
      <4> QED BY <1>3, <3>2, <4>2
    <3> QED BY <3>1, <3>2
  <2> QED BY <1>2, <1>4, <2>1 DEF AtRest
<1>8. Alone'
  BY <1>3, <1>4, Zenon DEF Alone
<1>9. ~nack_det => /\ pc' = "idle" /\ status' = Success
                   /\ UNCHANGED <<retry, fn, buffer>>
  <2>1. ~nack_det => ~(fn = "transmit" /\ request.rx > 0)
    BY <1>2, <1>3, <1>5
  <2> QED BY <1>1, <1>2, <2>1 DEF Return, Retried, Success, Goes
<1>10. nack_det =>
         /\ status' = "NACK_ERR" /\ k' = 1
         /\ \/ /\ retry > 0 /\ retry' = retry - 1 /\ fn' = Begins(request)
               /\ buffer' = <<>> /\ pc' = "enable"
            \/ retry = 0 /\ pc' = "idle" /\ UNCHANGED <<retry, fn, buffer>>
  BY <1>1, <1>2 DEF Return, Retried, Goes
<1>11. pc' \in Idle
  BY <1>9, <1>10 DEF Idle
<1>12. CallTypeOK'
  <2>0. /\ retry \in 0 .. Tries - 1 /\ buffer \in Seq(SampleType)
        /\ <<>> \in Seq(SampleType)
    BY <1>3 DEF CallTypeOK
  <2>1. /\ fn' \in {"transmit", "receive"} /\ retry' \in 0 .. Tries - 1
        /\ buffer' \in Seq(SampleType)
    <3>1. CASE ~nack_det
      BY <1>3, <1>9, <2>0, <3>1
    <3>2. CASE nack_det
      <4>1. Begins(request) \in {"transmit", "receive"}
        BY DEF Begins
      <4>2. CASE /\ retry > 0 /\ retry' = retry - 1 /\ fn' = Begins(request)
                 /\ buffer' = <<>>
        <5>1. fn' \in {"transmit", "receive"} /\ buffer' \in Seq(SampleType)
          BY <2>0, <4>1, <4>2, Zenon
        <5>2. retry' \in 0 .. Tries - 1
          BY <2>0, <4>2
        <5> QED BY <5>1, <5>2
      <4>3. CASE UNCHANGED <<retry, fn, buffer>>
        BY <1>3, <2>0, <4>3
      <4> QED BY <1>10, <3>2, <4>2, <4>3, Zenon
    <3> QED BY <3>1, <3>2
  <2> QED BY <1>3, <1>4, <2>1 DEF CallTypeOK
<1>13. PlaceInv'
  <2>1. pc' = "enable" => /\ fn' = Begins(request') /\ k' = 1 /\ buffer' = <<>>
    BY <1>4, <1>9, <1>10
  <2>2. fn' = Begins(request') => Length' \in Nat /\ Length' >= 1
    <3>1. request.tx # <<>> \/ request.rx > 0
      BY <1>3 DEF Fits
    <3> QED BY <1>4, <1>5, <1>6, <3>1 DEF Length, Begins
  <2> QED BY <1>6, <1>11, <2>1, <2>2 DEF PlaceInv, Idle
<1>14. IpInv'
  BY <1>7, <1>11 DEF IpInv, Idle
<1>15. CountInv'
  <2>1. nacks \in Nat /\ retry \in Nat /\ nacks' = nacks
        /\ (nack_det => Tries - 1 - retry + 1 <= nacks)
    BY <1>1, <1>3, <1>4 DEF SoundInv, CountInv, CallTypeOK
  <2>2. CASE nack_det
    BY <1>10, <2>1, <2>2 DEF CountInv
  <2>3. CASE ~nack_det
    BY <1>9, <2>3 DEF CountInv
  <2> QED BY <2>2, <2>3
<1>16. ReadSound' /\ WriteSound'
  <2>1. CASE nack_det
    BY <1>10, <2>1 DEF ReadSound, WriteSound, Success
  <2>2. CASE ~nack_det
    <3>1. Underway(Total)
      BY <1>2, <1>3, <2>2 DEF OnCourse, Refusal
    <3>2. Delivered
      BY <1>2, <1>3, <2>2, <3>1, AllDelivered
    <3> QED BY <1>1, <1>3, <1>4, <1>9, <2>2, <3>2, DeliveredSound DEF chipVars
  <2> QED BY <2>1, <2>2
<1>17. StatusInv'
  <2>1. pc' = "idle" =>
          /\ status' \in {Success, "NACK_ERR"} /\ Len(buffer') <= request'.rx
    <3>1. Len(buffer) <= request.rx
      <4>1. CASE buffer = <<>>
        <5>1. Len(buffer) = 0
          BY <4>1
        <5> QED BY <1>5, <5>1
      <4>2. CASE nack_det /\ buffer # <<>>
        <5>1. Len(buffer) = 1 /\ request.rx > 0 /\ request.rx \in Nat
          BY <1>2, <1>5, <4>2, Zenon
        <5> QED BY <5>1
      <4>3. CASE ~nack_det
        BY <1>2, <1>5, <4>3
      <4> QED BY <4>1, <4>2, <4>3
    <3> QED BY <1>4, <1>9, <1>10, <3>1
  <2> QED BY <1>11, <1>16, <2>1 DEF StatusInv, Before, Idle
<1> QED BY <1>8, <1>11, <1>12, <1>13, <1>14, <1>15, <1>17 DEF SoundInv

(* A step of the machine keeps it too. *)
LEMMA MachineStep ==
  ASSUME SoundInv, CoreStep(attempt), UNCHANGED driverVars, UNCHANGED contentions
  PROVE  SoundInv'
<1>1. CallTypeOK /\ Alone
  BY DEF SoundInv
<1>2. UNCHANGED <<pc, fn, k, status, retry, request, buffer, attempt>>
  BY DEF driverVars
<1>3. /\ Sends' = Sends /\ Asks' = Asks /\ Total' = Total
      /\ Fits(request) => Fits(request)'
      /\ Base' = Base /\ Length' = Length /\ Written' = Written
  <2>1. /\ Sends' = Sends /\ Asks' = Asks /\ Total' = Total
        /\ Fits(request) => Fits(request)'
    BY <1>2, SameRequest
  <2>2. Base' = Base /\ Length' = Length
    BY <1>2, <2>1 DEF Base, Length
  <2> QED BY <1>2, <2>1, <2>2 DEF Written
<1>4. CASE pc \in Idle
  <2>1. AtRest
    BY <1>4 DEF SoundInv, IpInv
  <2>2. AtRest' /\ UNCHANGED <<pointer, pointing, written, nacks>>
    BY <2>1, MachineAtRest DEF chipVars
  <2>3. CallTypeOK' /\ Alone'
    BY <1>1, <2>1, MachineAlone DEF AtRest
  <2>4. PlaceInv'
    BY <1>2, <1>3, <1>4 DEF SoundInv, PlaceInv, Idle
  <2>5. IpInv'
    BY <1>2, <1>4, <2>2 DEF IpInv, Idle
  <2>6. ReadSound' = ReadSound /\ WriteSound' = WriteSound
    BY <1>2, <2>2 DEF ReadSound, WriteSound
  <2>7. StatusInv'
    BY <1>2, <1>4, <2>6 DEF SoundInv, StatusInv, Before, Idle
  <2>8. CountInv'
    BY <1>2, <1>4, <2>2 DEF SoundInv, CountInv, Idle
  <2> QED BY <2>3, <2>4, <2>5, <2>7, <2>8 DEF SoundInv
<1>5. CASE pc = "clear"
  <2>1. core = "PRE_START" /\ txfifo = <<>>
    BY <1>5 DEF SoundInv, IpInv
  <2> QED BY <2>1 DEF CoreStep, Start, StartDone, Pop, RestartDone, AddressAcked,
     ByteAcked, Nacked, ByteReceived, ByteAnswered, Lose, Resume, StopDone, PreIdle,
     LeavesPreIdle
<1>6. CASE pc \notin Idle \cup {"clear"}
  <2>1. /\ Fits(request) /\ ctrl_en
        /\ Refusal \/ (OnCourse /\ ~nack_det)
        /\ core = "PRE_IDLE" \/ pc \notin {"lastnack", "disable"}
    BY <1>6, Course DEF SoundInv, StatusInv
  <2>2. core = "POP_TX_FIFO" => txfifo # <<>>
    BY <2>1 DEF Refusal, OnCourse, Underway, Clean
  <2>3. CallTypeOK' /\ Alone' /\ ctrl_en'
    BY <1>1, <2>1, <2>2, MachineAlone
  <2>4. nacks \in Nat
    BY <1>1 DEF CallTypeOK
  <2>5. \/ /\ OnCourse /\ OnCourse' /\ nacks' = nacks /\ ~nack_det'
           /\ rxfifo # <<>> => rxfifo' # <<>>
           /\ core # "PRE_IDLE" /\ ~nack_det
        \/ /\ Refusal' /\ nacks' = nacks + 1 /\ buffer = <<>> /\ rxfifo = <<>>
           /\ core # "PRE_IDLE" /\ ~nack_det
        \/ /\ Refusal /\ Refusal' /\ nacks' = nacks /\ core # "PRE_IDLE"
           /\ rxfifo' = rxfifo
    <3>1. CASE Refusal
      BY <1>1, <2>1, <3>1, MachineRefused
    <3>2. CASE OnCourse /\ ~nack_det
      <4>1. PICK w \in 0 .. Total : w = Written /\ Underway(w)
        BY <3>2 DEF OnCourse
      <4>2. \/ /\ Underway(w)' /\ nacks' = nacks
               /\ rxfifo # <<>> => rxfifo' # <<>>
               /\ core # "PRE_IDLE"
            \/ /\ Refusal' /\ nacks' = nacks + 1
               /\ buffer = <<>> /\ rxfifo = <<>> /\ core # "PRE_IDLE"
        BY <1>1, <2>1, <4>1, MachineUnderway
      <4>3. Underway(w)' => OnCourse' /\ ~nack_det'
        BY <1>3, <4>1 DEF OnCourse, Underway, Clean
      <4> QED BY <3>2, <4>2, <4>3
    <3> QED BY <2>1, <3>1, <3>2
  <2>6. core # "PRE_IDLE" /\ pc \notin {"lastnack", "disable"}
    BY <2>1, <2>5
  <2>7. /\ nack_det => nack_det'
        /\ rxfifo # <<>> => rxfifo' # <<>>
        /\ nack_det' /\ ~nack_det => buffer = <<>> /\ nacks' = nacks + 1
        /\ nacks' = nacks \/ nacks' = nacks + 1
    <3>1. Refusal => nack_det /\ rxfifo = <<>>
      BY DEF Refusal
    <3>2. Refusal' => nack_det'
      BY DEF Refusal
    <3> QED BY <2>5, <3>1, <3>2
  <2>8. PlaceInv'
    BY <1>2, <1>3, <1>6, <2>7 DEF SoundInv, PlaceInv, Idle
  <2>9. IpInv'
    BY <1>2, <1>6, <2>3, <2>5 DEF IpInv
  <2>10. StatusInv'
    BY <1>2, <1>3, <1>6, <2>6, <2>7 DEF SoundInv, StatusInv, Idle, Before
  <2>11. CountInv'
    <3>1. retry \in Nat /\ Tries \in Nat
      BY <1>1 DEF CallTypeOK
    <3>2. pc # "idle" /\ pc \notin {"enable", "clear"}
      BY <1>6 DEF Idle
    <3>3. Tries - 1 - retry + (IF nack_det THEN 1 ELSE 0) <= nacks
      BY <3>2 DEF SoundInv, CountInv
    <3>4. Tries - 1 - retry + (IF nack_det' THEN 1 ELSE 0) <= nacks'
      BY <2>4, <2>7, <3>1, <3>3
    <3> QED BY <1>2, <3>2, <3>4 DEF CountInv
  <2> QED BY <2>3, <2>8, <2>9, <2>10, <2>11 DEF SoundInv
<1> QED BY <1>4, <1>5, <1>6

LEMMA SoundInit == Init => SoundInv
<1> SUFFICES ASSUME Init PROVE SoundInv
  OBVIOUS
<1>1. /\ pointer = 0 /\ pointing = FALSE /\ written = [r \in Register |-> 0]
      /\ nacks = 0
      /\ core = "IDLE" /\ ctrl_en = FALSE /\ tfr_cmd_fifo_thd = Depth - 1
      /\ cmd = Command(0, FALSE, FALSE)
      /\ sent_7bit_addr = FALSE /\ rw_cmd = FALSE
      /\ txfifo = <<>> /\ rxfifo = <<>>
      /\ nack_det = FALSE /\ arblost_det = FALSE
      /\ bus = "idle" /\ contentions = 0
      /\ pc = "idle" /\ fn = "transmit" /\ k = 1 /\ status = Success
      /\ retry = 0 /\ request = [tx |-> <<>>, rx |-> 0]
      /\ buffer = <<>> /\ attempt = 0
  BY DEF Init, ChipInit, CoreInit, DriverInit
<1>2. CallTypeOK
  <2>1. pointer \in Register /\ written \in [Register -> Nat] /\ nacks \in 0 .. MaxNacks
    BY <1>1 DEF Register
  <2>2. cmd \in CommandType /\ request \in CallType
    BY <1>1 DEF Command, CommandType, Byte, CallType
  <2>3. /\ txfifo \in Seq(CommandType) /\ Len(txfifo) <= Depth
        /\ rxfifo \in Seq(SampleType) /\ buffer \in Seq(SampleType)
    BY <1>1
  <2> QED BY <1>1, <2>1, <2>2, <2>3 DEF CallTypeOK
<1>3. Alone
  BY <1>1 DEF Alone, OnBus
<1>4. PlaceInv
  BY <1>1 DEF PlaceInv
<1>5. IpInv
  BY <1>1 DEF IpInv, Idle, AtRest
<1>6. StatusInv
  <2>1. Len(buffer) = 0 /\ Len(request.tx) = 0 /\ request.rx = 0
    BY <1>1
  <2>2. ReadSound
    BY <2>1 DEF ReadSound
  <2>3. WriteSound
    BY <2>1 DEF WriteSound
  <2> QED BY <1>1, <2>1, <2>2, <2>3 DEF StatusInv, Before, Idle
<1>7. CountInv
  BY <1>1 DEF CountInv
<1> QED BY <1>2, <1>3, <1>4, <1>5, <1>6, <1>7 DEF SoundInv

LEMMA SoundStutter ==
  ASSUME SoundInv, UNCHANGED vars
  PROVE  SoundInv'
<1>1. /\ UNCHANGED <<coreVars, chipVars>>
      /\ UNCHANGED <<pc, fn, k, status, retry, request, buffer, attempt>>
  BY DEF vars, driverVars
<1>2. /\ UNCHANGED <<core, rxfifo, txfifo, nacks, written>>
      /\ nack_det' = nack_det /\ ctrl_en' = ctrl_en
      /\ sent_7bit_addr' = sent_7bit_addr
  BY <1>1, Zenon DEF coreVars, chipVars, ctrlVars, isrVars, fifoVars
<1>3. /\ \A w : Underway(w) => Underway(w)'
      /\ Refusal => Refusal'
      /\ AtRest => AtRest'
      /\ CallTypeOK' /\ Alone'
      /\ Total' = Total /\ Sends' = Sends /\ Asks' = Asks
      /\ Fits(request) => Fits(request)'
  <2>1. fn' \in {"transmit", "receive"} /\ retry' \in 0 .. Tries - 1
    BY <1>1 DEF SoundInv, CallTypeOK
  <2> QED BY <1>1, <2>1, Kept DEF SoundInv
<1>4. Base' = Base /\ Length' = Length
  BY <1>1, <1>3 DEF Base, Length
<1>5. Written' = Written
  BY <1>1, <1>4 DEF Written
<1>6. OnCourse => OnCourse'
  BY <1>3, <1>5 DEF OnCourse
<1>7. PlaceInv'
  BY <1>1, <1>2, <1>3, <1>4 DEF SoundInv, PlaceInv
<1>8. IpInv'
  BY <1>1, <1>2, <1>3, <1>6 DEF SoundInv, IpInv
<1>9. ReadSound' = ReadSound /\ WriteSound' = WriteSound
  BY <1>1, <1>2 DEF ReadSound, WriteSound
<1>10. StatusInv'
  BY <1>1, <1>2, <1>3, <1>5, <1>9 DEF SoundInv, StatusInv
<1>11. CountInv'
  BY <1>1, <1>2 DEF SoundInv, CountInv
<1> QED BY <1>3, <1>7, <1>8, <1>10, <1>11 DEF SoundInv

LEMMA SoundStep ==
  ASSUME MaxContentions = 0, SoundInv, DriverStep \/ Machine \/ OtherMaster
  PROVE  SoundInv'
<1>1. CASE DriverStep
  BY <1>1, EnableStep, ClearStep, WriteStep, CheckNackStep, CheckArbLostStep,
     DrainStep, DrainTakeStep, CollectStep, FetchStep, SettleStep,
     CheckLastNackStep, DisableStep DEF DriverStep
<1>2. CASE Machine
  <2>1. contentions = 0
    BY DEF SoundInv, Alone
  <2>2. UNCHANGED contentions
    BY <1>2, <2>1 DEF Machine, CoreStep, Start, StartDone, Pop, RestartDone,
       AddressAcked, ByteAcked, Nacked, ByteReceived, ByteAnswered, Lose, Resume,
       StopDone, PreIdle
  <2> QED BY <1>2, <2>2, MachineStep DEF Machine
<1>3. CASE OtherMaster
  <2>1. contentions = 0 /\ bus # "other"
    BY DEF SoundInv, Alone
  <2> QED BY <1>3, <2>1 DEF OtherMaster, Contend, Yield
<1> QED BY <1>1, <1>2, <1>3

-----------------------------------------------------------------------------
(* The results. *)

(* The bus has one master; every call fits the FIFO and the chip.          *)
SoleMaster == MaxContentions = 0
CallsFit   == \A r \in Requests : Fits(r)

LEMMA SoundMeans ==
  ASSUME SoundInv
  PROVE  /\ ReadSound /\ WriteSound /\ WithinBuffer /\ LeftClean /\ Released
         /\ OnlyRefusalsFail
<1>1. ReadSound /\ WriteSound
  BY DEF SoundInv, StatusInv, ReadSound, WriteSound
<1>2. LeftClean /\ Released
  BY DEF SoundInv, IpInv, Idle, AtRest, Alone, OnBus, Busy, LeftClean, Released
<1>3. OnlyRefusalsFail
  BY DEF SoundInv, StatusInv, CountInv, OnlyRefusalsFail
<1>4. WithinBuffer
  <2>1. CASE pc = "idle"
    BY <2>1 DEF SoundInv, StatusInv, WithinBuffer
  <2>2. CASE pc \in {"enable", "clear"}
    <3>1. buffer = <<>> /\ Fits(request)
      BY <2>2 DEF SoundInv, PlaceInv
    <3>2. Len(buffer) = 0
      BY <3>1
    <3> QED BY <3>1, <3>2, LightSizes DEF WithinBuffer
  <2>3. CASE pc \notin Idle \cup {"clear"}
    <3>1. Fits(request) /\ Len(buffer) \in Nat /\ Len(rxfifo) \in Nat
      BY <2>3, Course DEF CallTypeOK
    <3>2. request.rx \in Nat
      BY <3>1, LightSizes
    <3>3. CASE Refusal
      <4>1. nack_det /\ buffer # <<>> => Len(buffer) = 1 /\ request.rx > 0
        BY <2>3 DEF SoundInv, StatusInv
      <4>2. CASE buffer = <<>>
        <5>1. Len(buffer) = 0
          BY <4>2
        <5> QED BY <3>2, <5>1 DEF WithinBuffer
      <4>3. CASE buffer # <<>>
        <5>1. Len(buffer) = 1 /\ request.rx > 0
          BY <3>3, <4>1, <4>3 DEF Refusal
        <5> QED BY <3>2, <5>1 DEF WithinBuffer
      <4> QED BY <4>2, <4>3
    <3>4. CASE ~Refusal
      <4>1. Len(buffer) + Len(rxfifo) <= request.rx
        BY <2>3, <3>4, Course
      <4> QED BY <3>1, <3>2, <4>1 DEF WithinBuffer
    <3> QED BY <3>3, <3>4
  <2> QED BY <2>1, <2>2, <2>3 DEF Idle
<1> QED BY <1>1, <1>2, <1>3, <1>4

LEMMA SoundAlways ==
  ASSUME SoleMaster, CallsFit
  PROVE  Spec => []SoundInv
<1>1. MaxContentions = 0 /\ \A r \in Requests : Fits(r)
  BY DEF SoleMaster, CallsFit
<1>2. SoundInv /\ [Next]_vars => SoundInv'
  BY <1>1, CallStep, SoundStep, SoundStutter DEF Next
<1> QED BY <1>2, SoundInit, PTL DEF Spec

(* A call that reports success delivered what it was asked for, in order   *)
(* and from one transaction, however often the chip refused before and     *)
(* wherever the refusal fell between two polls                             *)
(* (altera_avalon_i2c.c:823-847).                                          *)
THEOREM ReadsAreSound ==
  ASSUME SoleMaster, CallsFit
  PROVE  Spec => []ReadSound
<1>1. SoundInv => ReadSound
  BY SoundMeans
<1> QED BY <1>1, SoundAlways, PTL

(* What it reports written is in the chip: the last check of NACK_DET      *)
(* comes late enough to see the last byte refused                          *)
(* (altera_avalon_i2c.c:681).                                              *)
THEOREM WritesAreSound ==
  ASSUME SoleMaster, CallsFit
  PROVE  Spec => []WriteSound
<1>1. SoundInv => WriteSound
  BY SoundMeans
<1> QED BY <1>1, SoundAlways, PTL

(* rx_read_available, which has no limit, overruns no caller's buffer      *)
(* (altera_avalon_i2c.c:829).                                              *)
THEOREM BufferNotOverrun ==
  ASSUME SoleMaster, CallsFit
  PROVE  Spec => []WithinBuffer
<1>1. SoundInv => WithinBuffer
  BY SoundMeans
<1> QED BY <1>1, SoundAlways, PTL

(* A call leaves no command, no byte and no transaction to the next one,   *)
(* and the IP disabled: the next is never answered BUSY.                   *)
THEOREM CallsLeaveClean ==
  ASSUME SoleMaster, CallsFit
  PROVE  Spec => [](LeftClean /\ Released)
<1>1. SoundInv => LeftClean /\ Released
  BY SoundMeans
<1> QED BY <1>1, SoundAlways, PTL

(* Nothing but the chip makes a call fail, and only by refusing every      *)
(* try: no polling loop gives up and no byte is missed                     *)
(* (altera_avalon_i2c.h:652).                                              *)
THEOREM FailuresAreRefusals ==
  ASSUME SoleMaster, CallsFit
  PROVE  Spec => []OnlyRefusalsFail
<1>1. SoundInv => OnlyRefusalsFail
  BY SoundMeans
<1> QED BY <1>1, SoundAlways, PTL
=============================================================================
