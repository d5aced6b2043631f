------------------------------- MODULE MCDns --------------------------------
(***************************************************************************)
(* Dns for TLC: two entries, two names that fit and two that do not.       *)
(***************************************************************************)
EXTENDS Dns

=============================================================================
