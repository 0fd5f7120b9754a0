------------------------- MODULE MCSessionSchedule -------------------------
(* Instances of SessionSchedule for TLC.                                   *)
EXTENDS SessionSchedule
=============================================================================
