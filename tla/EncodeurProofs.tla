--------------------------- MODULE EncodeurProofs ---------------------------
(***************************************************************************)
(* Proofs about EncodeurDrift, for every width of the counter: the types,  *)
(* and that the counter is the half-turns of the shaft plus its drift.     *)
(***************************************************************************)
EXTENDS EncodeurDrift, TLAPS

USE EncodeurAssumption, DriftAssumption

(* What the samples remember: nothing after a reset, else the phase last   *)
(* sampled, which the shaft is at most one phase away from.  After a race  *)
(* the history is kept blank.                                              *)
Samples ==
  /\ raced => fresh
  /\ fresh /\ ~raced =>
       A_d = 0 /\ B_d = 0 /\ compteur = 0 /\ wraps = 0 /\ drift = 0
  /\ ~fresh => A_d = LineA(seen) /\ B_d = LineB(seen)
  /\ ~fresh => pos \in {seen - 1, seen, seen + 1}
  /\ ~fresh /\ still => pos = seen

DriftInv == DriftTypeOK /\ Samples /\ HalfTurns

(* The counter's step is the change of 2 * compteur + 2 * Modulus * wraps. *)
LEMMA StepTypes ==
  ASSUME NEW c \in 0 .. Modulus - 1
  PROVE  Incremented(c) \in 0 .. Modulus - 1 /\ Decremented(c) \in 0 .. Modulus - 1
  BY DEF Incremented, Decremented

LEMMA InitInv == DriftInit => DriftInv
<1> SUFFICES ASSUME DriftInit PROVE DriftInv
  OBVIOUS
<1> USE DEF DriftInit, Init
<1>1. DriftTypeOK
  <2>1. fresh \in BOOLEAN /\ raced \in BOOLEAN /\ still \in BOOLEAN
    OBVIOUS
  <2>2. pos \in Int /\ seen \in Int /\ origin \in Int
    OBVIOUS
  <2>3. compteur \in 0 .. Modulus - 1 /\ resets \in 0 .. MaxResets
    OBVIOUS
  <2> QED BY <2>1, <2>2, <2>3 DEF DriftTypeOK, TypeOK
<1>2. Samples /\ HalfTurns
  BY DEF Samples, HalfTurns
<1> QED BY <1>1, <1>2 DEF DriftInv

LEMMA TurnInv ==
  ASSUME DriftInv, NEW step \in {-1, 1}, DriftTurn(step)
  PROVE  DriftInv'
<1> USE DEF DriftInv, DriftTurn, Turn, historyVars, countVars
<1>1. DriftTypeOK'
  <2>1. pos' \in Int
    BY DEF DriftTypeOK, TypeOK
  <2>2. UNCHANGED <<A_d, B_d, compteur, resets, fresh, seen, origin, entered,
                    wraps, drift, raced>>
    OBVIOUS
  <2>3. still' \in BOOLEAN
    OBVIOUS
  <2> QED BY <2>1, <2>2, <2>3 DEF DriftTypeOK, TypeOK
<1>2. Samples'
  <2>1. /\ UNCHANGED <<A_d, B_d, compteur, fresh, seen, wraps, drift, raced>>
        /\ pos' \in {pos - 1, pos + 1} /\ still /\ ~still'
    BY DEF DriftTypeOK, TypeOK
  <2>2. LineA(seen') = LineA(seen) /\ LineB(seen') = LineB(seen)
    BY <2>1 DEF LineA, LineB
  <2> QED BY <2>1, <2>2 DEF Samples, DriftTypeOK, TypeOK
<1>3. HalfTurns'
  BY DEF HalfTurns, HalfTurnsCounted, Even
<1> QED BY <1>1, <1>2, <1>3

LEMMA ResetInv ==
  ASSUME DriftInv, DriftReset
  PROVE  DriftInv'
<1> USE DEF DriftReset, Reset, Forget
<1>1. DriftTypeOK'
  <2>1. fresh' \in BOOLEAN /\ raced' \in BOOLEAN
    OBVIOUS
  <2>2. still' \in BOOLEAN /\ pos' \in Int /\ resets' \in 0 .. MaxResets
    BY DEF DriftInv, DriftTypeOK, TypeOK
  <2>3. compteur' \in 0 .. Modulus - 1 /\ A_d' \in {0, 1} /\ B_d' \in {0, 1}
    OBVIOUS
  <2>4. {wraps', drift', seen', origin'} \subseteq Int /\ entered' \in {-1, 1}
    OBVIOUS
  <2> QED BY <2>1, <2>2, <2>3, <2>4 DEF DriftTypeOK, TypeOK
<1>2. Samples' /\ HalfTurns'
  BY DEF Samples, HalfTurns
<1> QED BY <1>1, <1>2 DEF DriftInv

(* An edge counts one up, one down, or nothing, and what it adds to the    *)
(* counter with its wraps is the same.                                     *)
LEMMA Unwrapped ==
  ASSUME DriftTypeOK, wraps' = wraps + Wrapped,
         NEW d \in {-1, 0, 1},
         compteur' = IF d = 1 THEN Incremented(compteur)
                     ELSE IF d = -1 THEN Decremented(compteur) ELSE compteur
  PROVE  /\ compteur' \in 0 .. Modulus - 1
         /\ wraps' \in Int
         /\ 2 * compteur' + 2 * Modulus * wraps'
              = 2 * compteur + 2 * Modulus * wraps + 2 * d
<1> USE DEF DriftTypeOK, TypeOK
<1>1. CASE d = 1 /\ compteur = Modulus - 1
  <2>1. compteur' = 0 /\ wraps' = wraps + 1
    BY <1>1 DEF Incremented, Wrapped
  <2>2. Modulus * (wraps + 1) = Modulus * wraps + Modulus
    OBVIOUS
  <2>3. 2 * d = 2 /\ 2 * compteur = 2 * Modulus - 2 /\ 2 * compteur' = 0
    BY <1>1, <2>1
  <2>4. 2 * Modulus * wraps' = 2 * Modulus * wraps + 2 * Modulus
    BY <2>1
  <2>5. compteur' \in 0 .. Modulus - 1 /\ wraps' \in Int
    BY <2>1
  <2> QED BY <2>3, <2>4, <2>5
<1>2. CASE d = 1 /\ compteur # Modulus - 1
  <2>1. compteur' = compteur + 1 /\ wraps' = wraps
    BY <1>2 DEF Incremented, Wrapped
  <2> QED BY <1>2, <2>1
<1>3. CASE d = -1 /\ compteur = 0
  <2>1. compteur' = Modulus - 1 /\ wraps' = wraps - 1
    BY <1>3 DEF Decremented, Wrapped
  <2>2. Modulus * (wraps - 1) = Modulus * wraps - Modulus
    OBVIOUS
  <2>3. 2 * d = 0 - 2
    BY <1>3
  <2>4. 2 * compteur' = 2 * Modulus - 2 /\ 2 * compteur = 0
    BY <1>3, <2>1
  <2>5. 2 * Modulus * wraps' = 2 * Modulus * wraps - 2 * Modulus
    BY <2>1
  <2>6. compteur' \in 0 .. Modulus - 1 /\ wraps' \in Int
    BY <2>1
  <2> QED BY <2>3, <2>4, <2>5, <2>6
<1>4. CASE d = -1 /\ compteur # 0
  <2>1. compteur' = compteur - 1 /\ wraps' = wraps
    BY <1>4 DEF Decremented, Wrapped
  <2>2. 2 * d = 0 - 2
    BY <1>4
  <2>3. 2 * compteur' = 2 * compteur - 2
    BY <2>1
  <2>4. compteur' \in 0 .. Modulus - 1 /\ wraps' \in Int
    BY <1>4, <2>1
  <2>5. 2 * Modulus * wraps' = 2 * Modulus * wraps
    BY <2>1
  <2>6. 2 * Modulus * wraps \in Int /\ 2 * compteur \in Int
    OBVIOUS
  <2> QED BY <2>2, <2>3, <2>4, <2>5, <2>6
<1>5. CASE d = 0
  <2>1. compteur' = compteur /\ wraps' = wraps
    BY <1>5 DEF Wrapped
  <2> QED BY <1>5, <2>1
<1> QED BY <1>1, <1>2, <1>3, <1>4, <1>5

(* The direction the process counts in when it samples the shaft at pos.   *)
Direction ==
  IF CountsUp(LineA(pos), LineB(pos)) THEN 1
  ELSE IF CountsDown(LineA(pos), LineB(pos)) THEN -1
  ELSE 0

(* After a reset the first sample counts the odd phase it finds.           *)
LEMMA FirstDirection ==
  ASSUME DriftTypeOK, Samples, fresh, ~raced
  PROVE  Direction = IF Even(pos) THEN 0 ELSE IF pos % 4 = 3 THEN -1 ELSE 1
  BY DEF DriftTypeOK, TypeOK, Samples, Direction, CountsUp, CountsDown,
         LineA, LineB, Even

(* Afterwards an edge counts exactly the moves from an even to an odd      *)
(* phase, in the direction of the move.                                    *)
LEMMA LaterDirection ==
  ASSUME DriftTypeOK, Samples, ~fresh
  PROVE  Direction = IF Even(seen) THEN pos - seen ELSE 0
  BY DEF DriftTypeOK, TypeOK, Samples, Direction, CountsUp, CountsDown,
         LineA, LineB, Even

LEMMA CleanTickInv ==
  ASSUME DriftInv, DriftTick, ~raced
  PROVE  DriftInv'
<1> USE DEF DriftInv
<1>1. compteur' = IF Direction = 1 THEN Incremented(compteur)
                  ELSE IF Direction = -1 THEN Decremented(compteur)
                  ELSE compteur
  BY DEF DriftTick, Tick, Counted, Direction
<1>2. Direction \in {-1, 0, 1} /\ Direction \in Int
  BY DEF Direction
<1>3. wraps' = wraps + Wrapped
  BY DEF DriftTick
<1>4. /\ compteur' \in 0 .. Modulus - 1
      /\ wraps' \in Int
      /\ 2 * compteur' + 2 * Modulus * wraps'
           = 2 * compteur + 2 * Modulus * wraps + 2 * Direction
  BY <1>1, <1>2, <1>3, Unwrapped
<1>5. DriftTypeOK'
  <2>1. pos' = pos /\ still' = TRUE /\ resets' = resets
    BY DEF DriftTick, Tick
  <2>2. A_d' \in {0, 1} /\ B_d' \in {0, 1}
    BY DEF DriftTick, Tick, LineA, LineB
  <2>3. fresh' = FALSE /\ seen' = pos /\ raced' = raced
    BY DEF DriftTick
  <2>4. entered' \in {-1, 1} /\ origin' \in Int /\ drift' \in Int
    <3>1. CASE FirstSample
      BY <3>1 DEF FirstSample, DriftTypeOK, TypeOK
    <3>2. CASE LaterSample
      <4>1. pos \in {seen - 1, seen, seen + 1}
        BY <3>2 DEF LaterSample, Samples
      <4> QED BY <3>2, <4>1 DEF LaterSample, DriftTypeOK, TypeOK
    <3> QED BY <3>1, <3>2 DEF DriftTick
  <2> QED BY <1>4, <2>1, <2>2, <2>3, <2>4 DEF DriftTypeOK, TypeOK
<1>6. Samples'
  BY DEF Samples, DriftTypeOK, TypeOK, DriftTick, Tick
<1>7. HalfTurns'
  <2>1. CASE fresh
    <3>1. 2 * compteur + 2 * Modulus * wraps = 0
      BY <2>1 DEF Samples
    <3>2. FirstSample /\ drift = 0 /\ drift' = 0 /\ seen' = pos /\ pos \in Int
      BY <2>1 DEF DriftTick, FirstSample, LaterSample, Samples, DriftTypeOK, TypeOK
    <3>3. HalfTurnsCounted' = 2 * Direction
      <4>1. CASE Even(pos)
        BY <2>1, <3>2, <4>1, FirstDirection
           DEF HalfTurnsCounted, FirstSample, Even
      <4>2. CASE ~Even(pos)
        <5>1. Direction = entered' /\ origin' = pos - entered' /\ entered' \in {-1, 1}
          BY <2>1, <3>2, <4>2, FirstDirection DEF FirstSample
        <5>2. HalfTurnsCounted' = (pos - origin') + entered'
          BY <3>2, <4>2, <5>1 DEF HalfTurnsCounted, Even
        <5> QED BY <3>2, <5>1, <5>2
      <4> QED BY <4>1, <4>2
    <3>4. 2 * compteur' + 2 * Modulus * wraps' = 2 * Direction
      <4>1. 2 * Direction \in Int
        BY <1>2
      <4> QED BY <1>4, <3>1, <4>1
    <3> QED BY <3>3, <3>4 DEF HalfTurns
  <2>2. CASE ~fresh
    <3>1. 2 * compteur + 2 * Modulus * wraps = HalfTurnsCounted
      BY <2>2 DEF HalfTurns
    <3>2. /\ LaterSample /\ seen' = pos /\ origin' = origin
          /\ pos \in {seen - 1, seen, seen + 1} /\ entered \in {-1, 1}
          /\ seen \in Int /\ pos \in Int /\ origin \in Int /\ drift \in Int
      BY <2>2 DEF DriftTick, FirstSample, LaterSample, Samples, DriftTypeOK, TypeOK
    <3>3. Direction = IF Even(seen) THEN pos - seen ELSE 0
      BY <2>2, LaterDirection
    <3>4. HalfTurnsCounted' = HalfTurnsCounted + 2 * Direction
      <4>1. CASE Even(seen) /\ pos = seen
        BY <3>2, <3>3, <4>1 DEF LaterSample, HalfTurnsCounted, Even
      <4>2. CASE Even(seen) /\ pos # seen
        <5>1. entered' = pos - seen /\ drift' = drift /\ ~Even(pos)
          BY <3>2, <4>2 DEF LaterSample, Even
        <5>2. HalfTurnsCounted' = (pos - origin) + 2 * drift + (pos - seen)
          BY <3>2, <5>1 DEF HalfTurnsCounted, Even
        <5>3. HalfTurnsCounted = (seen - origin) + 2 * drift
          BY <3>2, <4>2 DEF HalfTurnsCounted, Even
        <5> QED BY <3>2, <3>3, <4>2, <5>2, <5>3
      <4>3. CASE ~Even(seen)
        <5>1. entered' = entered /\ Direction = 0
          BY <3>2, <3>3, <4>3 DEF LaterSample
        <5>2. HalfTurnsCounted = (seen - origin) + 2 * drift + entered
          BY <4>3 DEF HalfTurnsCounted
        <5>3. CASE pos = seen
          <6>1. drift' = drift /\ ~Even(pos)
            BY <3>2, <4>3, <5>3 DEF LaterSample
          <6> QED BY <3>2, <5>1, <5>2, <5>3, <6>1 DEF HalfTurnsCounted, Even
        <5>4. CASE pos # seen
          <6>1. Even(pos)
            BY <3>2, <4>3, <5>4 DEF Even
          <6>2. HalfTurnsCounted' = (pos - origin) + 2 * drift'
            BY <1>5, <3>2, <6>1 DEF HalfTurnsCounted, Even, DriftTypeOK
          <6>3. CASE pos = seen - entered
            <7>1. drift' = drift + entered
              BY <3>2, <4>3, <6>3 DEF LaterSample
            <7> QED BY <3>2, <5>1, <5>2, <6>2, <6>3, <7>1
          <6>4. CASE pos # seen - entered
            <7>1. drift' = drift /\ pos = seen + entered
              BY <3>2, <4>3, <5>4, <6>4 DEF LaterSample
            <7> QED BY <3>2, <5>1, <5>2, <6>2, <7>1
          <6> QED BY <6>3, <6>4
        <5> QED BY <5>3, <5>4
      <4> QED BY <4>1, <4>2, <4>3
    <3> QED BY <1>2, <1>4, <3>1, <3>4 DEF HalfTurns
  <2> QED BY <2>1, <2>2
<1> QED BY <1>5, <1>6, <1>7

(* After a race only the types are known.                                  *)
LEMMA TornTickInv ==
  ASSUME DriftInv, DriftTick, raced
  PROVE  DriftInv'
<1>1. UNCHANGED countVars /\ raced' = raced /\ Tick
  BY DEF DriftTick
<1>2. compteur' \in 0 .. Modulus - 1
  BY <1>1, StepTypes DEF DriftInv, DriftTypeOK, TypeOK, Tick, Counted
<1>3. A_d' \in {0, 1} /\ B_d' \in {0, 1}
  BY <1>1 DEF Tick, LineA, LineB
<1>4. DriftTypeOK'
  BY <1>1, <1>2, <1>3 DEF DriftInv, DriftTypeOK, TypeOK, Tick, countVars
<1>5. Samples' /\ HalfTurns'
  BY <1>1 DEF DriftInv, Samples, HalfTurns, countVars
<1> QED BY <1>4, <1>5 DEF DriftInv

LEMMA TickInv ==
  ASSUME DriftInv, DriftTick
  PROVE  DriftInv'
  BY CleanTickInv, TornTickInv

LEMMA RaceInv ==
  ASSUME DriftInv, NEW step \in {-1, 1}, DriftRace(step)
  PROVE  DriftInv'
<1>1. RacingTick(step) /\ Forget /\ raced' = TRUE
  BY DEF DriftRace
<1>2. compteur' \in 0 .. Modulus - 1
  BY <1>1 DEF RacingTick, Torn
<1>3. A_d' \in {0, 1} /\ B_d' \in {0, 1} /\ pos' \in Int /\ UNCHANGED <<still, resets>>
  BY <1>1 DEF RacingTick, LineA, LineB, DriftInv, DriftTypeOK, TypeOK
<1>4. DriftTypeOK'
  BY <1>1, <1>2, <1>3 DEF Forget, DriftInv, DriftTypeOK, TypeOK
<1>5. Samples' /\ HalfTurns'
  BY <1>1 DEF Forget, Samples, HalfTurns
<1> QED BY <1>4, <1>5 DEF DriftInv

LEMMA StutterInv ==
  ASSUME DriftInv, UNCHANGED vars
  PROVE  DriftInv'
  BY DEF DriftInv, DriftTypeOK, TypeOK, Samples, HalfTurns, HalfTurnsCounted,
         Even, vars, encodeurVars, historyVars, countVars

(* The inductive invariant holds in every reachable state. *)
THEOREM DriftInvariant == DriftSpec => []DriftInv
<1>1. DriftInv /\ [DriftNext]_vars => DriftInv'
  BY TurnInv, TickInv, RaceInv, ResetInv, StutterInv DEF DriftNext
<1> QED BY InitInv, <1>1, PTL DEF DriftSpec

(* The registers and the history keep their types. *)
THEOREM DriftTypeCorrect == DriftSpec => []DriftTypeOK
  BY DriftInvariant, PTL DEF DriftInv

(* The counter of encodeur.vhd is the half-turns of the shaft plus the     *)
(* drift, whatever its width, as long as no contact races with the clock.  *)
THEOREM CountIsHalfTurns == DriftSpec => []HalfTurns
  BY DriftInvariant, PTL DEF DriftInv
=============================================================================
