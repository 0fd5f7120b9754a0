---------------------------- MODULE MCGoalRounds ----------------------------
(* Instances of GoalRounds for TLC.                                        *)
EXTENDS GoalRounds

(* Round 2 fails to be queued, if the goal was revised once.               *)
RefusedRounds == {<<2, 2>>}
NoRounds      == {}
=============================================================================
