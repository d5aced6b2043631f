----------------------------- MODULE MCTracker ------------------------------
(***************************************************************************)
(* Tracker for TLC: ticks of the length of the delays, a queue of one      *)
(* packet, two fixes and two reports.                                      *)
(***************************************************************************)
EXTENDS Tracker

=============================================================================
