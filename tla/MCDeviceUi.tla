----------------------------- MODULE MCDeviceUi -----------------------------
(***************************************************************************)
(* DeviceUi for TLC: patterns of two flashes and one, a few presses, and   *)
(* DEBUG words that overlap with them.                                     *)
(***************************************************************************)
EXTENDS DeviceUi

=============================================================================
