-------------------------- MODULE ChenillardProofs --------------------------
(***************************************************************************)
(* Proofs about Chenillard, for every number of LEDs and every prescaler:  *)
(* the types, one LED lit, and the walking light it implements.            *)
(***************************************************************************)
EXTENDS Chenillard, TLAPS

USE ChenillardAssumption

(* LED i and no other is lit. *)
LitAt(leds, i) == leds[i] = 1 /\ \A j \in Led \ {i} : leds[j] = 0

Before(i) == IF i = 0 THEN N - 1 ELSE i - 1

LEMMA LitIs ==
  ASSUME NEW i \in Led, LitAt(r_leds, i)
  PROVE  Lit = i
  BY DEF LitAt, Lit

LEMMA RotatedLit ==
  ASSUME NEW leds \in [Led -> {0, 1}], NEW i \in Led, LitAt(leds, i)
  PROVE  Before(i) \in Led /\ LitAt(Rotated(leds), Before(i))
  BY DEF LitAt, Before, Rotated, Led

LEMMA FirstLit == 0 \in Led /\ LitAt(FirstLed, 0) /\ FirstLed \in [Led -> {0, 1}]
  BY DEF LitAt, FirstLed, Led

LEMMA RotatedType ==
  ASSUME NEW leds \in [Led -> {0, 1}]
  PROVE  Rotated(leds) \in [Led -> {0, 1}]
  BY DEF Rotated, Led

(* The registers keep their types; the prescaler never passes C_MAX. *)
THEOREM ChenillardTypeCorrect == Spec => []TypeOK
<1>1. Init => TypeOK
  BY FirstLit DEF Init, TypeOK
<1>2. TypeOK /\ [Next]_vars => TypeOK'
  BY FirstLit, RotatedType DEF TypeOK, Next, Rotate, Count, Reset, vars
<1> QED BY <1>1, <1>2, PTL DEF Spec

(* Exactly one LED is lit. *)
THEOREM OneLedLit == Spec => []OneHot
<1>1. Init => OneHot
  BY FirstLit DEF Init, OneHot, LitAt
<1>2. TypeOK /\ OneHot /\ [Next]_vars => OneHot'
  <2> SUFFICES ASSUME TypeOK, OneHot, [Next]_vars PROVE OneHot'
    OBVIOUS
  <2>1. PICK i \in Led : LitAt(r_leds, i)
    BY DEF OneHot, LitAt
  <2>2. CASE Rotate
    BY <2>1, <2>2, RotatedLit DEF Rotate, TypeOK, OneHot, LitAt
  <2>3. CASE Reset
    BY <2>3, FirstLit DEF Reset, OneHot, LitAt
  <2>4. CASE UNCHANGED r_leds
    BY <2>4 DEF OneHot
  <2> QED BY <2>2, <2>3, <2>4 DEF Next, Count, vars
<1> QED BY <1>1, <1>2, ChenillardTypeCorrect, PTL DEF Spec

(* The chaser implements the walking light, one LED at a time. *)
THEOREM ImplementsWalkingLight == Spec => Walks
<1>1. Init => Light!Init
  BY FirstLit, LitIs DEF Init, Light!Init, LitAt, Lit
<1>2. ASSUME TypeOK, OneHot, [Next]_vars
      PROVE  [Light!Next]_<<Lit, r_counter>>
  <2>1. PICK i \in Led : LitAt(r_leds, i)
    BY <1>2 DEF OneHot, LitAt
  <2>2. Lit = i
    BY <2>1, LitIs
  <2>3. CASE Rotate
    <3>1. Before(i) \in Led /\ LitAt(r_leds', Before(i))
      BY <1>2, <2>1, <2>3, RotatedLit DEF Rotate, TypeOK
    <3>2. Lit' = Before(i)
      BY <3>1 DEF Lit, LitAt
    <3>3. Light!Walk
      BY <2>2, <2>3, <3>2 DEF Rotate, Before, Light!Walk
    <3> QED BY <3>3 DEF Light!Next
  <2>4. CASE Count
    <3>1. Lit' = Lit
      BY <2>4 DEF Count, Lit
    <3>2. Light!Rest
      BY <1>2, <2>4, <3>1 DEF Count, TypeOK, Light!Rest
    <3> QED BY <3>2 DEF Light!Next
  <2>5. CASE Reset
    <3>1. LitAt(r_leds', 0) /\ 0 \in Led
      BY <2>5, FirstLit DEF Reset
    <3>2. Lit' = 0
      BY <3>1 DEF Lit, LitAt
    <3> QED BY <2>5, <3>2 DEF Reset, Light!Restart, Light!Next
  <2>6. CASE UNCHANGED vars
    <3>1. Lit' = Lit
      BY <2>6 DEF vars, Lit
    <3> QED BY <2>6, <3>1 DEF vars
  <2> QED BY <1>2, <2>3, <2>4, <2>5, <2>6 DEF Next
<1> QED BY <1>1, <1>2, ChenillardTypeCorrect, OneLedLit, PTL
        DEF Spec, Walks, Light!Spec
=============================================================================
