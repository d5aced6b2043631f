------------------------------- MODULE Uplink -------------------------------
(***************************************************************************)
(* NetworkRequests with what its packets hold: send_gps_update() reads the *)
(* battery and builds the text, handle_network_request() sends it.         *)
(***************************************************************************)
EXTENDS NetworkRequests, PacketBuilder

\* What handle_network_request() sends, strnlen() of the packet's buffer, is the
\* whole of the request that was built, with the empty line that ends it: for
\* all readings, and all server names (with their port) up to LongestServer.
RequestWhole == pc = "send" => AllWhole

\* battery.cpp:50, "Default (should never hit)": in the packets queued a fuller
\* battery never shows as an emptier one, and none as one that cannot be read.
ChargeComparable == network_requests_msgq # <<>> => Monotone

=============================================================================
