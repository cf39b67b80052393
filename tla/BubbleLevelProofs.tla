--------------------------- MODULE BubbleLevelProofs ---------------------------
(***************************************************************************)
(* Proofs about the bubble level: which LED a sample lights, for every set *)
(* of samples of int16_t, and what the application owes the driver, for    *)
(* any number of registers, axis bytes and refusals.                       *)
(***************************************************************************)
EXTENDS BubbleLevel, AvalonI2cDriverProofs

Int16 == -32768 .. 32767

(* A clamped sample stays in range and keeps its order and its sign. *)
LEMMA ClampBounds ==
  ASSUME NEW s \in Int
  PROVE  /\ Clamped(s) \in Int
         /\ 0 - 300 <= Clamped(s) /\ Clamped(s) <= 300
         /\ Clamped(-s) = -Clamped(s)
BY DEF Clamped, FullScale

(* C division of the product: bounded, odd, and increasing. *)
LEMMA QuotientBounds ==
  ASSUME NEW a \in Int, 0 - 1200 <= a, a <= 1200
  PROVE  Quotient(a) \in Int /\ 0 - 4 <= Quotient(a) /\ Quotient(a) <= 4
BY DEF Quotient, FullScale

LEMMA QuotientOdd ==
  ASSUME NEW a \in Int
  PROVE  Quotient(-a) = -Quotient(a)
BY DEF Quotient, FullScale

LEMMA QuotientGrows ==
  ASSUME NEW a \in Int, NEW b \in Int, a <= b
  PROVE  Quotient(a) <= Quotient(b)
BY DEF Quotient, FullScale

(* The clamp keeps order. *)
LEMMA ClampGrows ==
  ASSUME NEW a \in Int, NEW b \in Int, a <= b
  PROVE  Clamped(a) <= Clamped(b)
BY DEF Clamped, FullScale

(* angle_to_leds without the two tests on led, which change nothing. *)
LEMMA LedOfSample ==
  ASSUME NEW s \in Int
  PROVE  /\ Clamped(s) * 4 \in Int
         /\ 0 - 1200 <= Clamped(s) * 4 /\ Clamped(s) * 4 <= 1200
         /\ angle_to_leds(s) = 4 + Quotient(Clamped(s) * 4)
         /\ angle_to_leds(s) \in 0 .. 8
<1> DEFINE product == Clamped(s) * 4
<1>1. product \in Int /\ 0 - 1200 <= product /\ product <= 1200
  <2>1. Clamped(s) \in Int /\ 0 - 300 <= Clamped(s) /\ Clamped(s) <= 300
    BY ClampBounds
  <2>2. QED
    BY <2>1
<1> HIDE DEF product
<1>2. Quotient(product) \in Int /\ 0 - 4 <= Quotient(product) /\ Quotient(product) <= 4
  BY <1>1, QuotientBounds
<1>3. angle_to_leds(s) =
        IF 4 + Quotient(product) < 0 THEN 0
        ELSE IF 4 + Quotient(product) >= 10 THEN 9 ELSE 4 + Quotient(product)
  BY DEF angle_to_leds, LED_CENTER, LED_COUNT, product
<1>4. angle_to_leds(s) = 4 + Quotient(product) /\ angle_to_leds(s) \in 0 .. 8
  BY <1>2, <1>3
<1>5. QED
  BY <1>1, <1>4 DEF product

(* The order of the samples is the order of the LEDs. *)
LEMMA LedsGrow ==
  ASSUME NEW a \in Int, NEW b \in Int, a <= b
  PROVE  angle_to_leds(a) <= angle_to_leds(b)
<1> DEFINE pa == Clamped(a) * 4
           pb == Clamped(b) * 4
<1>1. pa \in Int /\ 0 - 1200 <= pa /\ pa <= 1200 /\ angle_to_leds(a) = 4 + Quotient(pa)
  BY LedOfSample
<1>2. pb \in Int /\ 0 - 1200 <= pb /\ pb <= 1200 /\ angle_to_leds(b) = 4 + Quotient(pb)
  BY LedOfSample
<1>3. pa <= pb
  <2>1. Clamped(a) \in Int /\ 0 - 300 <= Clamped(a) /\ Clamped(a) <= 300
    BY ClampBounds
  <2>2. Clamped(b) \in Int /\ 0 - 300 <= Clamped(b) /\ Clamped(b) <= 300
    BY ClampBounds
  <2>3. Clamped(a) <= Clamped(b)
    BY ClampGrows
  <2>4. QED
    BY <2>1, <2>2, <2>3
<1> HIDE DEF pa, pb
<1>4. Quotient(pa) <= Quotient(pb)
  BY <1>1, <1>2, <1>3, QuotientGrows
<1>5. Quotient(pa) \in Int /\ 0 - 4 <= Quotient(pa) /\ Quotient(pa) <= 4
  BY <1>1, QuotientBounds
<1>6. Quotient(pb) \in Int /\ 0 - 4 <= Quotient(pb) /\ Quotient(pb) <= 4
  BY <1>2, QuotientBounds
<1>7. QED
  BY <1>1, <1>2, <1>4, <1>5, <1>6

(* Opposite samples light opposite LEDs. *)
LEMMA LedsMirror ==
  ASSUME NEW s \in Int
  PROVE  angle_to_leds(-s) = 8 - angle_to_leds(s)
<1> DEFINE product == Clamped(s) * 4
<1>1. product \in Int /\ 0 - 1200 <= product /\ product <= 1200
  BY LedOfSample
<1>2. Clamped(-s) * 4 = -product
  <2>1. Clamped(s) \in Int /\ 0 - 300 <= Clamped(s) /\ Clamped(s) <= 300
    BY ClampBounds
  <2>2. Clamped(-s) = -Clamped(s)
    BY ClampBounds
  <2>3. QED
    BY <2>1, <2>2
<1> HIDE DEF product
<1>3. Quotient(product) \in Int /\ 0 - 4 <= Quotient(product) /\ Quotient(product) <= 4
  BY <1>1, QuotientBounds
<1>4. Quotient(-product) = -Quotient(product)
  BY <1>1, QuotientOdd
<1>5. angle_to_leds(-s) = 4 + Quotient(-product)
  <2>1. -s \in Int
    OBVIOUS
  <2>2. QED
    BY <2>1, <1>2, LedOfSample
<1>6. angle_to_leds(s) = 4 + Quotient(product)
  BY LedOfSample DEF product
<1>7. QED
  BY <1>3, <1>4, <1>5, <1>6

-----------------------------------------------------------------------------
LEMMA SamplesAreIntegers == \A s \in Samples : s \in Int
BY SamplesAssumption

(* What is shown is the LED of the last sample. *)
Shown == lit # Off => x \in Samples /\ lit = angle_to_leds(x)

LEMMA ShownAlways == LightSpec => []Shown
<1>1. LightInit => Shown
  BY DEF LightInit, Shown
<1>2. Shown /\ [LightNext]_lightVars => Shown'
  BY DEF Shown, LightNext, Light, lightVars
<1>3. QED
  BY <1>1, <1>2, PTL DEF LightSpec

(* Only a sample changes what is shown, and then it is shown. *)
LEMMA Lights ==
  ASSUME [LightNext]_lightVars
  PROVE  UNCHANGED lightVars \/ (x' \in Samples /\ lit' = angle_to_leds(x'))
<1>1. CASE LightNext
  <2>1. PICK s \in Samples : x' = s /\ lit' = angle_to_leds(s)
    BY <1>1 DEF LightNext, Light
  <2>2. QED
    BY <2>1
<1>2. QED
  BY <1>1

LEMMA ShownFacts ==
  ASSUME Shown
  PROVE  (lit # Off => x \in Int) /\ InRange /\ Mirrored
<1>1. lit # Off => x \in Int
  BY SamplesAreIntegers DEF Shown
<1>2. InRange
  BY <1>1, LedOfSample DEF Shown, InRange, LED_CENTER
<1>3. Mirrored
  BY <1>1, LedsMirror DEF Shown, Mirrored, LED_CENTER
<1>4. QED
  BY <1>1, <1>2, <1>3

(* One LED of 0 .. 8 is lit, for every sample of an int16_t: the two bounds *)
(* main.c applies to led after the division are never reached.             *)
THEOREM LedInRange == LightSpec => []InRange
<1>1. Shown => InRange
  BY ShownFacts
<1>2. QED
  BY <1>1, ShownAlways, PTL

(* Opposite tilts light opposite LEDs: division towards zero is odd. *)
THEOREM OppositeLeds == LightSpec => []Mirrored
<1>1. Shown => Mirrored
  BY ShownFacts
<1>2. QED
  BY <1>1, ShownAlways, PTL

(* The lit LED never moves against the sample. *)
THEOREM BubbleFollows == LightSpec => Follows
<1>1. Shown /\ [LightNext]_lightVars
        => [lit # Off /\ x' >= x => lit' >= lit]_lightVars
  <2>1. SUFFICES ASSUME Shown, [LightNext]_lightVars, lit # Off, x' >= x,
                        ~ UNCHANGED lightVars
                 PROVE  lit' >= lit
    OBVIOUS
  <2>2. lit = angle_to_leds(x) /\ lit' = angle_to_leds(x')
    BY <2>1, Lights DEF Shown
  <2>3. x \in Int /\ x' \in Int
    BY <2>1, Lights, SamplesAreIntegers DEF Shown
  <2>4. angle_to_leds(x) <= angle_to_leds(x')
    BY <2>1, <2>3, LedsGrow
  <2>5. lit \in 0 .. 8 /\ lit' \in 0 .. 8
    BY <2>2, <2>3, LedOfSample
  <2>6. QED
    BY <2>2, <2>4, <2>5
<1>2. QED
  BY <1>1, ShownAlways, PTL DEF LightSpec, Follows

-----------------------------------------------------------------------------
(* The application above the driver.                                       *)
USE ChipAssumption, CoreAssumption, DriverAssumption, AxesAssumption

(* The bus has one master, the axes fit the FIFO, the chip has the         *)
(* registers the program names, and it stops refusing before the driver    *)
(* stops trying: a call that fails goes unnoticed by main.                 *)
LevelFits ==
  /\ MaxContentions = 0
  /\ Axes <= Depth /\ Registers > DATAX0 /\ MaxNacks < Tries

(* Its three calls are calls the driver serves. *)
LEMMA LevelCallsFit ==
  ASSUME LevelFits
  PROVE  Fits(ReadDevid) /\ Fits(SetPower) /\ Fits(ReadAxes)
<1>1. Fits(ReadDevid)
  BY DEF LevelFits, Fits, CallType, ReadDevid, DEVID
<1>2. Fits(SetPower)
  BY DEF LevelFits, Fits, CallType, SetPower, POWER_CTL, Measure, DATAX0
<1>3. Fits(ReadAxes)
  BY DEF LevelFits, Fits, CallType, ReadAxes, DATAX0
<1> QED BY <1>1, <1>2, <1>3

(* The request is that of the stage. *)
StageInv ==
  /\ stage \in {"devid", "power", "ready", "read", "show"}
  /\ stage = "ready" => request = SetPower
  /\ stage = "read" => pc = "idle"
  /\ stage = "show" => request = ReadAxes
  /\ ready => stage \in {"read", "show"}

(* The inductive invariant: the driver is sound within the call that the   *)
(* stage of main made, the sensor measures once main is ready, and the     *)
(* LEDs show one measurement (main.c:24-114).                              *)
LevelInv == SoundInv /\ StageInv /\ ReadyMeansMeasuring /\ OneMeasurement

(* The steps of the driver and of the IP do not change the call. *)
LEMMA SameCall ==
  ASSUME DriverStep \/ Machine \/ OtherMaster
  PROVE  request' = request /\ (pc = "idle" => pc' = "idle")
<1>1. CASE DriverStep
  BY <1>1 DEF DriverStep, Enable, Clear, Write, CheckNack, CheckArbLost, Drain,
     DrainTake, Collect, Fetch, Settle, CheckLastNack, Disable, ReadData, Return,
     At
<1>2. CASE Machine \/ OtherMaster
  BY <1>2 DEF Machine, OtherMaster, driverVars
<1> QED BY <1>1, <1>2

(* No register is written between calls, nor by a call that sends only the *)
(* number of a register.                                                   *)
LEMMA NothingWritten ==
  ASSUME SoundInv, DriverStep \/ Machine \/ OtherMaster,
         pc = "idle" \/ Len(request.tx) = 1
  PROVE  written' = written
<1>1. CASE DriverStep \/ OtherMaster
  <2>1. UNCHANGED chipVars
    BY <1>1 DEF DriverStep, Enable, Clear, Write, CheckNack, CheckArbLost, Drain,
       DrainTake, Collect, Fetch, Settle, CheckLastNack, Disable, ReadData,
       OtherMaster, Contend, Yield
  <2> QED BY <2>1 DEF chipVars
<1>2. CASE Machine
  <2>1. CASE ByteAcked
    <3>1. core = "TX_BYTE"
      BY <2>1 DEF ByteAcked
    <3>2. pc \notin Idle \cup {"clear"}
      BY <3>1 DEF SoundInv, IpInv, AtRest
    <3>3. Fits(request) /\ OnCourse
      BY <3>1, <3>2, Course DEF Refusal
    <3>4. PICK w \in 0 .. Total, n \in 0 .. Total : Clean(n, w)
      BY <3>3 DEF OnCourse, Underway
    <3>5. n \in 2 .. Sends /\ Carried(n - 1)
      BY <3>1, <3>4 DEF Clean, Between, Within
    <3>6. Sends = 2
      <4>1. request.tx # <<>> /\ Len(request.tx) = 1
        BY <3>2, <3>3, <3>5, Sizes DEF Idle
      <4> QED BY <4>1 DEF Sends
    <3>7. n = 2 /\ n - 1 \in 1 .. Sends
      BY <3>5, <3>6
    <3>8. pointing
      BY <3>5, <3>7 DEF Carried
    <3> QED BY <2>1, <3>8 DEF ByteAcked, Take
  <2>2. CASE ~ByteAcked
    BY <1>2, <2>2 DEF Machine, CoreStep, Start, StartDone, Pop, RestartDone,
       AddressAcked, Addressed, Nacked, Refused, ByteReceived, Give, ByteAnswered,
       Lose, Resume, StopDone, PreIdle, chipVars
  <2> QED BY <2>1, <2>2
<1> QED BY <1>1, <1>2

(* With the driver idle the last call succeeded. *)
LEMMA CallSucceeded ==
  ASSUME LevelFits, SoundInv, pc = "idle"
  PROVE  status = Success /\ ReadSound /\ WriteSound
<1>1. nacks \in 0 .. MaxNacks
  BY DEF SoundInv, CallTypeOK
<1> QED BY <1>1, SoundMeans DEF LevelFits, OnlyRefusalsFail

LEMMA LevelStart == LevelInit => LevelInv
<1> SUFFICES ASSUME LevelInit PROVE LevelInv
  OBVIOUS
<1>1. SoundInv /\ pc = "idle"
  BY SoundInit DEF LevelInit, Init, DriverInit
<1>2. stage = "devid" /\ ready = FALSE /\ led = "off"
  BY DEF LevelInit, MainInit
<1> QED BY <1>1, <1>2 DEF LevelInv, StageInv, ReadyMeansMeasuring, OneMeasurement

(* main calls the driver. *)
LEMMA CallLevel ==
  ASSUME LevelFits, LevelInv, CheckDevid \/ StartMeasuring \/ Read
  PROVE  LevelInv'
<1>1. SoundInv'
  <2>1. CASE CheckDevid
    BY <2>1, LevelCallsFit, CallStep DEF CheckDevid, LevelInv
  <2>2. CASE StartMeasuring
    BY <2>2, LevelCallsFit, CallStep DEF StartMeasuring, LevelInv
  <2>3. CASE Read
    BY <2>3, LevelCallsFit, CallStep DEF Read, LevelInv
  <2> QED BY <2>1, <2>2, <2>3
<1>2. /\ ready' = ready /\ led' = led /\ written' = written
      /\ \/ stage = "devid" /\ stage' = "power"
         \/ stage = "power" /\ stage' = "ready" /\ request' = SetPower
         \/ stage = "read" /\ stage' = "show" /\ request' = ReadAxes
  BY DEF CheckDevid, StartMeasuring, Read, Call, chipVars
<1>3. StageInv'
  <2>1. ready => stage \in {"read", "show"}
    BY DEF LevelInv, StageInv
  <2> QED BY <1>2, <2>1 DEF StageInv
<1>4. ReadyMeansMeasuring' /\ OneMeasurement'
  BY <1>2 DEF LevelInv, ReadyMeansMeasuring, OneMeasurement
<1> QED BY <1>1, <1>3, <1>4 DEF LevelInv

(* The driver is back: POWER_CTL is written. *)
LEMMA SayReadyLevel ==
  ASSUME LevelFits, LevelInv, SayReady
  PROVE  LevelInv'
<1>1. /\ stage = "ready" /\ stage' = "read" /\ pc = "idle"
      /\ UNCHANGED vars /\ led' = led
  BY DEF SayReady, At, vars
<1>2. /\ SoundInv' /\ pc' = "idle" /\ written' = written
  BY <1>1, SoundStutter DEF LevelInv, vars, driverVars, chipVars
<1>3. request = SetPower /\ status = Success /\ WriteSound
  BY <1>1, CallSucceeded DEF LevelInv, StageInv
<1>4. written[POWER_CTL] = Measure
  <2>1. Len(request.tx) = 2 /\ request.tx[1] = 1 /\ request.tx[2] = 8
    BY <1>3 DEF SetPower, POWER_CTL, Measure
  <2>2. written[(1 + 2 - 2) % Registers] = 8
    BY <1>1, <1>3, <2>1 DEF WriteSound
  <2>3. (1 + 2 - 2) % Registers = 1
    BY DEF LevelFits, DATAX0
  <2> QED BY <2>2, <2>3 DEF POWER_CTL, Measure
<1>5. StageInv'
  BY <1>1, <1>2 DEF StageInv
<1>6. ReadyMeansMeasuring'
  BY <1>2, <1>4 DEF ReadyMeansMeasuring
<1>7. OneMeasurement'
  BY <1>1 DEF LevelInv, OneMeasurement
<1> QED BY <1>2, <1>5, <1>6, <1>7 DEF LevelInv

(* It is back with the axes. *)
LEMMA ShowLevel ==
  ASSUME LevelFits, LevelInv, Show
  PROVE  LevelInv'
<1>1. /\ stage = "show" /\ stage' = "read" /\ pc = "idle"
      /\ UNCHANGED vars /\ ready' = ready /\ led' = <<Received(1), Received(2)>>
  BY DEF Show, At, vars
<1>2. /\ SoundInv' /\ pc' = "idle" /\ written' = written
  BY <1>1, SoundStutter DEF LevelInv, vars, driverVars, chipVars
<1>3. request = ReadAxes /\ status = Success /\ ReadSound
  BY <1>1, CallSucceeded DEF LevelInv, StageInv
<1>4. /\ Received(1) = [register |-> 2, attempt |-> attempt]
      /\ Received(2) = [register |-> 3 % Registers, attempt |-> attempt]
  <2>1. /\ Len(request.tx) = 1 /\ request.tx[1] = 2 /\ request.tx # <<>>
        /\ request.rx = Axes
    BY <1>3 DEF ReadAxes, DATAX0
  <2>2. /\ Len(buffer) = Axes
        /\ \A i \in 1 .. Axes :
             buffer[i] = [register |-> (2 + 1 + i - 2) % Registers,
                          attempt |-> attempt]
    BY <1>1, <1>3, <2>1 DEF ReadSound
  <2>3. /\ 1 \in 1 .. Axes /\ 2 \in 1 .. Axes
        /\ 2 + 1 + 1 - 2 = 2 /\ 2 + 1 + 2 - 2 = 3
    OBVIOUS
  <2>4. /\ buffer[1] = [register |-> 2 % Registers, attempt |-> attempt]
        /\ buffer[2] = [register |-> 3 % Registers, attempt |-> attempt]
    BY <2>2, <2>3
  <2>5. 2 % Registers = 2
    BY DEF LevelFits, DATAX0
  <2> QED BY <2>2, <2>3, <2>4, <2>5 DEF Received
<1>5. OneMeasurement'
  BY <1>1, <1>4 DEF OneMeasurement, DATAX0
<1>6. StageInv'
  BY <1>1, <1>2 DEF StageInv
<1>7. ReadyMeansMeasuring'
  BY <1>1, <1>2 DEF LevelInv, ReadyMeansMeasuring
<1> QED BY <1>2, <1>5, <1>6, <1>7 DEF LevelInv

(* The driver and the IP below. *)
LEMMA BelowLevel ==
  ASSUME LevelFits, LevelInv, DriverStep \/ Machine \/ OtherMaster,
         UNCHANGED mainVars
  PROVE  LevelInv'
<1>1. SoundInv'
  BY SoundStep DEF LevelFits, LevelInv
<1>2. UNCHANGED <<stage, ready, led>>
  BY DEF mainVars
<1>3. request' = request /\ (pc = "idle" => pc' = "idle")
  BY SameCall
<1>4. StageInv'
  BY <1>2, <1>3 DEF LevelInv, StageInv
<1>5. OneMeasurement'
  BY <1>2 DEF LevelInv, OneMeasurement
<1>6. ReadyMeansMeasuring'
  <2>1. ASSUME ready PROVE pc = "idle" \/ Len(request.tx) = 1
    <3>1. pc = "idle" \/ request = ReadAxes
      BY <2>1 DEF LevelInv, StageInv
    <3> QED BY <3>1 DEF ReadAxes
  <2>2. ready => written' = written
    BY <2>1, NothingWritten DEF LevelInv
  <2> QED BY <1>2, <2>2 DEF LevelInv, ReadyMeansMeasuring
<1> QED BY <1>1, <1>4, <1>5, <1>6 DEF LevelInv

(* The call under way is the one main made at this stage, and the driver,  *)
(* the FIFOs and the chip are where that call has them (main.c:24-114).    *)
THEOREM LevelInvariant ==
  ASSUME LevelFits
  PROVE  LevelSpec => []LevelInv
<1>1. LevelInv /\ [LevelNext]_levelVars => LevelInv'
  <2> SUFFICES ASSUME LevelInv, [LevelNext]_levelVars PROVE LevelInv'
    OBVIOUS
  <2>1. CASE MainStep
    BY <2>1, CallLevel, SayReadyLevel, ShowLevel DEF MainStep
  <2>2. CASE (DriverStep \/ Machine \/ OtherMaster) /\ UNCHANGED mainVars
    BY <2>2, BelowLevel
  <2>3. CASE UNCHANGED levelVars
    <3>1. UNCHANGED vars /\ UNCHANGED <<stage, ready, led, pc, request, written>>
      BY <2>3 DEF levelVars, vars, mainVars, driverVars, chipVars
    <3>2. SoundInv'
      BY <3>1, SoundStutter DEF LevelInv
    <3> QED BY <3>1, <3>2
            DEF LevelInv, StageInv, ReadyMeansMeasuring, OneMeasurement
  <2> QED BY <2>1, <2>2, <2>3 DEF LevelNext
<1> QED BY <1>1, LevelStart, PTL DEF LevelSpec

(* The two bytes of x are neighbours and of one measurement, though main   *)
(* looks at no status code (main.c:82-93).                                 *)
THEOREM LedsShowOneMeasurement ==
  ASSUME LevelFits
  PROVE  LevelSpec => []OneMeasurement
<1>1. LevelInv => OneMeasurement
  BY DEF LevelInv
<1> QED BY <1>1, LevelInvariant, PTL

(* main says the chip is ready only when it measures, and it goes on       *)
(* measuring: reading the axes writes no register (main.c:42).             *)
THEOREM ReadyMeasures ==
  ASSUME LevelFits
  PROVE  LevelSpec => []ReadyMeansMeasuring
<1>1. LevelInv => ReadyMeansMeasuring
  BY DEF LevelInv
<1> QED BY <1>1, LevelInvariant, PTL

(* What the driver promises it keeps under the application.                *)
THEOREM LevelCallsSound ==
  ASSUME LevelFits
  PROVE  LevelSpec => [](ReadSound /\ WriteSound /\ WithinBuffer /\ LeftClean)
<1>1. LevelInv => ReadSound /\ WriteSound /\ WithinBuffer /\ LeftClean
  BY SoundMeans DEF LevelInv
<1> QED BY <1>1, LevelInvariant, PTL

(* The application drives the LEDs as the module of the LEDs says: its     *)
(* other steps leave them alone.                                           *)
THEOREM LevelLights == LevelSpec => LightSpec
<1>1. LevelInit => LightInit
  BY DEF LevelInit, MainInit
<1>2. [LevelNext]_levelVars => [LightNext]_lightVars
  <2> SUFFICES ASSUME [LevelNext]_levelVars PROVE [LightNext]_lightVars
    OBVIOUS
  <2>1. CASE MainStep
    BY <2>1 DEF MainStep, CheckDevid, StartMeasuring, SayReady, Read, Show
  <2>2. CASE UNCHANGED mainVars
    BY <2>2 DEF mainVars
  <2>3. CASE UNCHANGED levelVars
    BY <2>3 DEF levelVars, mainVars
  <2> QED BY <2>1, <2>2, <2>3 DEF LevelNext
<1> QED BY <1>1, <1>2, PTL DEF LevelSpec, LightSpec
=============================================================================
