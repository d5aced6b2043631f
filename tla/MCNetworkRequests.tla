------------------------- MODULE MCNetworkRequests --------------------------
(***************************************************************************)
(* NetworkRequests for TLC: a queue of two packets and three or four calls *)
(* of send_gps_update, so that the queue fills, rejects, and drops a       *)
(* retried packet.                                                         *)
(***************************************************************************)
EXTENDS Uplink

=============================================================================
