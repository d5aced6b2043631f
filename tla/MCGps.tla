------------------------------- MODULE MCGps --------------------------------
(***************************************************************************)
(* Gps for TLC.  A tick stands for the shortest delay that matters to the  *)
(* run; the timeout and the restart delay are equal, as in Kconfig.        *)
(***************************************************************************)
EXTENDS Gps

=============================================================================
