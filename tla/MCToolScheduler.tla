-------------------------- MODULE MCToolScheduler --------------------------
EXTENDS ToolScheduler
(* The second call concludes the turn. *)
OneConcluder == {2}
=============================================================================
