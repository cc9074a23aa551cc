---------------------------- MODULE MCTimerStart ----------------------------
(* Instances of TimerStart for TLC.                                        *)
EXTENDS TimerStart
=============================================================================
