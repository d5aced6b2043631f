------------------------------- MODULE MCBoot -------------------------------
(***************************************************************************)
(* Boot for TLC: two upgrades, three failing calls, three resets.          *)
(***************************************************************************)
EXTENDS Boot

=============================================================================
