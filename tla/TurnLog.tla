------------------------------ MODULE TurnLog ------------------------------
(***************************************************************************)
(* What a session log promises its readers about turns and steps: the     *)
(* bookkeeping and the checks of core/session/src/invariant.ts, with the  *)
(* repair that core/session/src/repair.ts appends to an interrupted log.  *)
(* A boundary that is not open is 0.                                       *)
(***************************************************************************)
EXTENDS Naturals

VARIABLES openTurn,   \* number of the open turn, or 0
          openStep,   \* number of the open step, or 0
          nextTurn,   \* the only number a turn/start may carry
          nextStep    \* the only number a step/start may carry

vars == <<openTurn, openStep, nextTurn, nextStep>>

Init == openTurn = 0 /\ openStep = 0 /\ nextTurn \in Nat \ {0} /\ nextStep = 1

TurnStart == /\ openTurn = 0
             /\ openTurn' = nextTurn
             /\ nextStep' = 1
             /\ UNCHANGED <<openStep, nextTurn>>

StepStart == /\ openTurn # 0 /\ openStep = 0
             /\ openStep' = nextStep
             /\ UNCHANGED <<openTurn, nextTurn, nextStep>>

StepEnd == /\ openStep # 0
           /\ openStep' = 0
           /\ nextStep' = nextStep + 1
           /\ UNCHANGED <<openTurn, nextTurn>>

TurnEnd == /\ openTurn # 0 /\ openStep = 0
           /\ openTurn' = 0
           /\ nextTurn' = nextTurn + 1
           /\ UNCHANGED <<openStep, nextStep>>

(* The closers a restart appends: the open step's end, then the turn's.    *)
Repair == /\ openTurn # 0
          /\ openTurn' = 0 /\ openStep' = 0
          /\ nextTurn' = nextTurn + 1
          /\ nextStep' = IF openStep # 0 THEN nextStep + 1 ELSE nextStep

Next == TurnStart \/ StepStart \/ StepEnd \/ TurnEnd \/ Repair

Spec == Init /\ [][Next]_vars
=============================================================================
