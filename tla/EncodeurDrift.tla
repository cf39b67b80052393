---------------------------- MODULE EncodeurDrift ----------------------------
(***************************************************************************)
(* What the counter of encodeur.vhd means: Encodeur.tla, with contacts     *)
(* that may race with the clock, and a history of the phases the process   *)
(* has sampled.                                                            *)
(*                                                                         *)
(* The process counts only when the shaft goes from an even phase (the two *)
(* contacts equal) to an odd one, by the direction it goes in.  A shaft    *)
(* that enters an odd phase and leaves it on the side it came from has     *)
(* been counted although it went nowhere: such a half-turn is the drift.   *)
(* After a race the count means nothing until the next reset.              *)
(***************************************************************************)
EXTENDS EncodeurRacing

CONSTANT MaxDrift    (* bound on the drift, either way *)

ASSUME DriftAssumption == MaxDrift \in Nat

VARIABLES
  fresh,     (* no phase sampled since the counter was cleared              *)
  seen,      (* the shaft when last sampled                                 *)
  origin,    (* the even phase the counter's zero stands for                *)
  entered,   (* the direction in which the current odd phase was entered    *)
  wraps,     (* times the counter wrapped upward less times downward        *)
  drift,     (* dithers counted up less dithers counted down                *)
  raced      (* a contact moved at a clock edge since the last reset        *)

countVars == <<fresh, seen, origin, entered, wraps, drift>>
historyVars == <<countVars, raced>>
vars == <<encodeurVars, historyVars>>

Even(p) == p % 2 = 0

DriftInit ==
  /\ Init
  /\ fresh = TRUE /\ seen = pos /\ origin = pos /\ entered = 1
  /\ wraps = 0 /\ drift = 0 /\ raced = FALSE

DriftTurn(step) ==
  /\ drift \in -MaxDrift .. MaxDrift
  /\ Turn(step)
  /\ UNCHANGED historyVars

(* The first sample after a reset is compared with contacts both open, so  *)
(* the process takes phase 1 as entered upward and phase 3 downward.       *)
FirstSample ==
  /\ fresh
  /\ entered' = IF pos % 4 = 3 THEN -1 ELSE 1
  /\ origin' = IF Even(pos) THEN pos ELSE pos - entered'
  /\ UNCHANGED drift

LaterSample ==
  /\ ~fresh
  /\ entered' = IF Even(seen) /\ pos # seen THEN pos - seen ELSE entered
  /\ drift' = IF ~Even(seen) /\ pos = seen - entered
                THEN drift + entered ELSE drift
  /\ UNCHANGED origin

Wrapped ==
  CASE compteur = Modulus - 1 /\ compteur' = 0 -> 1
    [] compteur = 0 /\ compteur' = Modulus - 1 -> -1
    [] OTHER                                   -> 0

DriftTick ==
  /\ Tick
  /\ \/ /\ ~raced
        /\ wraps' = wraps + Wrapped
        /\ fresh' = FALSE /\ seen' = pos
        /\ FirstSample \/ LaterSample
     \/ raced /\ UNCHANGED countVars
  /\ UNCHANGED raced

Forget ==
  /\ fresh' = TRUE /\ wraps' = 0 /\ drift' = 0
  /\ seen' = 0 /\ origin' = 0 /\ entered' = 1

DriftRace(step) ==
  /\ RacingTick(step)
  /\ Forget /\ raced' = TRUE

DriftReset ==
  /\ Reset
  /\ Forget /\ raced' = FALSE

DriftNext ==
  \/ \E step \in {-1, 1} : DriftTurn(step) \/ DriftRace(step)
  \/ DriftTick
  \/ DriftReset

DriftSpec == DriftInit /\ [][DriftNext]_vars

(* The clock is free running. *)
FairDriftSpec == DriftSpec /\ WF_vars(DriftTick)

-----------------------------------------------------------------------------
DriftTypeOK ==
  /\ TypeOK
  /\ fresh \in BOOLEAN /\ raced \in BOOLEAN
  /\ seen \in Int /\ origin \in Int /\ wraps \in Int /\ drift \in Int
  /\ entered \in {-1, 1}

(* Twice what the counter should show after the phases sampled so far.     *)
HalfTurnsCounted ==
  (seen - origin) + 2 * drift + (IF Even(seen) THEN 0 ELSE entered)

(* The counter is exactly the half-turns of the shaft since the reset plus *)
(* the drift, less its wraps: over any sequence of turns, reversals and  *)
(* resets no edge is counted twice, missed, or counted in the wrong        *)
(* direction (encodeur.vhd, the two if conditions).                        *)
HalfTurns ==
  ~fresh /\ ~raced =>
    2 * compteur + 2 * Modulus * wraps = HalfTurnsCounted

(* Whatever a race left in the counter and in the two samples, the counter *)
(* comes to rest when the shaft does: no pair of stale samples keeps it    *)
(* counting (encodeur.vhd, the edge tests of the two if conditions).       *)
RestsWithTheShaft ==
  <>[][pos' = pos]_encodeurVars => <>[][compteur' = compteur]_encodeurVars
=============================================================================
