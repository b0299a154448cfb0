---------------------------- MODULE ShutterMotion ----------------------------
(***************************************************************************)
(* The coin shutter: the stepper driver (drivers/stepper.cpp), the state   *)
(* machine (app/shutter_fsm.cpp) and the blocking calls around it          *)
(* (app/shutter_adapter.cpp), with the plate that they move.               *)
(*                                                                         *)
(* Distances are in steps.  The plate runs from 0, shut, to Travel; at     *)
(* either end the motor stalls and the limit switch closes, unless the     *)
(* switch is broken.  A call issues its command and then ticks the state   *)
(* machine until it ends; the fault poller runs between two ticks.         *)
(***************************************************************************)
EXTENDS Naturals

CONSTANTS
  Travel,        \* position of the open end
  MaxSteps,      \* max_mm_ * steps_per_mm()
  Distances,     \* arguments of open_mm and close_mm, in steps
  DebounceReads, \* debounce_reads_
  WaitTicks,     \* the 10000 rounds of waitFor
  MaxMoves       \* bound: commands

(* As configured a full stroke is 80 mm of 40 steps, well under 10000. *)
ASSUME MotionAssumption ==
  /\ Travel \in Nat \ {0} /\ MaxSteps \in Nat \ {0} /\ Distances \subseteq Nat
  /\ DebounceReads \in Nat \ {0} /\ WaitTicks \in Nat /\ MaxSteps < WaitTicks
  /\ MaxMoves \in Nat

VARIABLES
  fsm,      \* state_, steps_done_, target_steps_, the debounce counter, enable and dir pins
  plate,    \* position of the plate
  broken,   \* limit switches that do not close
  move,     \* the call in progress: the state that waitFor waits for, and its rounds
  ended,    \* how the last call ended
  moves,    \* commands so far
  gap       \* history: how far the plate may be from shut since home last succeeded

svars == <<fsm, plate, broken, move, ended, moves, gap>>

States == {"INIT", "HOMING", "CLOSED", "OPENING", "OPEN", "CLOSING", "FAULT"}
Moving == {"HOMING", "OPENING", "CLOSING"}
Unknown == Travel + 1
Least(a, b) == IF a < b THEN a ELSE b
NoMove == [goal |-> "none", ticks |-> 0]

(* The machine is in one of its states and its counters stay in range.     *)
ShTypeOK ==
  /\ fsm.st \in States /\ fsm.done \in 0..MaxSteps /\ fsm.target \in 0..MaxSteps
  /\ fsm.deb \in 0..DebounceReads /\ fsm.en \in BOOLEAN /\ fsm.dir \in BOOLEAN
  /\ plate \in 0..Travel /\ broken \subseteq {"open", "closed"}
  /\ move.goal \in {"none", "OPEN", "CLOSED"} /\ move.ticks \in 0..WaitTicks
  /\ ended \in {"none", "ok", "FAULT", "TIMEOUT"}

ShInit ==
  /\ fsm = [st |-> "INIT", done |-> 0, target |-> 0, deb |-> 0, en |-> FALSE, dir |-> FALSE]
  /\ plate \in 0..Travel /\ broken \in SUBSET {"open", "closed"}
  /\ move = NoMove /\ ended = "none" /\ moves = 0 /\ gap = Unknown
-----------------------------------------------------------------------------
Begin(st, target, open) ==
  fsm' = [st |-> st, done |-> 0, target |-> target, deb |-> 0, en |-> TRUE, dir |-> open]

Issue(goal) ==
  /\ move = NoMove /\ moves < MaxMoves /\ moves' = moves + 1
  /\ move' = [goal |-> goal, ticks |-> 0]
  /\ UNCHANGED <<plate, broken, ended>>

home == Issue("CLOSED") /\ Begin("HOMING", MaxSteps, FALSE) /\ gap' = Unknown

(* cmdOpenMm and cmdCloseMm refuse what is beyond the soft limit. *)
open_mm(n) ==
  /\ Issue("OPEN")
  /\ IF n > MaxSteps THEN fsm' = [fsm EXCEPT !.st = "FAULT"] /\ UNCHANGED gap
     ELSE /\ Begin("OPENING", n, TRUE)
          /\ gap' = IF gap = Unknown THEN gap
                    ELSE Least(gap + (IF n = 0 THEN 1 ELSE n), Travel)

close_mm(n) ==
  /\ Issue("CLOSED")
  /\ IF n > MaxSteps THEN fsm' = [fsm EXCEPT !.st = "FAULT"] ELSE Begin("CLOSING", n, FALSE)
  /\ UNCHANGED gap

(* Stepper::step on the plate, and the switch that the state watches. *)
Stepped == IF fsm.dir THEN Least(plate + 1, Travel) ELSE IF plate = 0 THEN 0 ELSE plate - 1
Level == IF fsm.st = "OPENING" THEN Stepped = Travel /\ "open" \notin broken
         ELSE Stepped = 0 /\ "closed" \notin broken

\* Bug: a motion that ends in a fault leaves the motor energised.
TickedHot ==
  LET deb == IF Level THEN fsm.deb + 1 ELSE 0
      done == fsm.done + 1
      st == IF deb >= DebounceReads THEN (IF fsm.st = "OPENING" THEN "OPEN" ELSE "CLOSED")
            ELSE IF done >= MaxSteps THEN "FAULT" ELSE fsm.st
  IN [fsm EXCEPT !.st = st, !.done = done, !.deb = deb, !.en = st \in Moving \cup {"FAULT"}]

(* ShutterFSM::tick: the switch first, then the target, then the limit. *)
Ticked ==
  LET deb == IF Level THEN fsm.deb + 1 ELSE 0
      done == fsm.done + 1
      st == IF deb >= DebounceReads THEN (IF fsm.st = "OPENING" THEN "OPEN" ELSE "CLOSED")
            ELSE IF done >= fsm.target
                 THEN [HOMING |-> "FAULT", OPENING |-> "OPEN", CLOSING |-> "CLOSED"][fsm.st]
            ELSE IF done >= MaxSteps THEN "FAULT" ELSE fsm.st
  IN [fsm EXCEPT !.st = st, !.done = done, !.deb = deb, !.en = st \in Moving]

tick == IF fsm.st \in Moving THEN fsm' = Ticked /\ plate' = Stepped ELSE UNCHANGED <<fsm, plate>>

(* What the history knows after a step: a switch that was felt, or how far *)
(* the plate has gone back.                                                *)
Gap ==
  IF fsm.st \in {"HOMING", "CLOSING"} /\ fsm'.st = "CLOSED" /\ fsm'.deb >= DebounceReads THEN 0
  ELSE IF fsm.st = "CLOSING" /\ gap \in 1..Travel THEN gap - 1 ELSE gap

(* One round of waitFor. *)
waitFor ==
  /\ move # NoMove
  /\ tick
  /\ IF fsm'.st = move.goal THEN move' = NoMove /\ ended' = "ok"
     ELSE IF fsm'.st = "FAULT" THEN move' = NoMove /\ ended' = "FAULT"
     ELSE IF move.ticks + 1 = WaitTicks THEN move' = NoMove /\ ended' = "TIMEOUT"
     ELSE move' = [move EXCEPT !.ticks = @ + 1] /\ UNCHANGED ended
  /\ gap' = Gap
  /\ UNCHANGED <<broken, moves>>

ShNext == home \/ (\E n \in Distances : open_mm(n) \/ close_mm(n)) \/ waitFor

ShSpec == ShInit /\ [][ShNext]_svars /\ WF_svars(waitFor)
-----------------------------------------------------------------------------
(***************************************************************************)
(* Properties.                                                             *)
(***************************************************************************)
(* At rest the shutter is safe.  The motor is energised only while a call  *)
(* is in progress: every way out of a motion, the refused ones included,   *)
(* leaves the enable pin off.  And a shutter that has been homed and then  *)
(* closed at least as far as it was opened is shut when the state machine  *)
(* says CLOSED, also when it stops on the target because a switch is       *)
(* broken.                                                                 *)
RestIsSafe ==
  /\ move = NoMove => ~fsm.en
  /\ plate <= gap
  /\ fsm.st = "CLOSED" /\ gap = 0 => plate = 0

(* Every blocking call returns.                                            *)
MoveEnds == move # NoMove ~> move = NoMove
=============================================================================
