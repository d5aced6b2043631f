---------------------------- MODULE Connectivity ----------------------------
(***************************************************************************)
(* The LTE side of src/src/networking/connectivity.cpp: the network state  *)
(* the firmware remembers, the semaphore its event handler gives, and the  *)
(* interface that Zephyr's connection manager drives.                      *)
(*                                                                         *)
(* set_networking_state() is one function with two blocking calls, so it   *)
(* is split where it blocks: the request to the connection manager         *)
(* (ConnectAccepted, ConnectRefused) and the wait for the semaphore        *)
(* (TakeNetworkConnected, WaitTimesOut).  The module has no Next of its    *)
(* own: its actions are steps of the threads that call them (main in Boot, *)
(* the handler in NetworkRequests) and of the network event handler.       *)
(***************************************************************************)
EXTENDS Naturals

VARIABLES
    current_state,      \* the function's static: the state last asked for
    link,               \* what the interface is really doing
    network_connected   \* the semaphore, limit 1

connVars == <<current_state, link, network_connected>>

NetworkState == {"Connected", "Disconnected", "Activated", "Deactivated"}

\* "down": interface not up; "up": up, not asked to connect;
\* "searching": asked to connect, no IP address yet (or it was lost);
\* "online": IP address assigned.
LinkState == {"down", "up", "searching", "online"}

ConnTypeOK ==
    /\ current_state \in NetworkState
    /\ link \in LinkState
    /\ network_connected \in {0, 1}

\* The radio is in use, or trying to be.
RadioOn == link \in {"searching", "online"}

(***************************************************************************)
(* Where main() leaves the module when networking_init() returned 0: the   *)
(* interfaces are up and not connected.  (Any other result ends in         *)
(* k_oops(): HandsOver in Boot.)                                           *)
(***************************************************************************)
networking_init ==
    /\ current_state = "Activated"
    /\ link = "up"
    /\ network_connected = 0

\* A device that has just started.
NetworkingOff ==
    /\ current_state = "Deactivated"
    /\ link = "down"
    /\ network_connected = 0

-----------------------------------------------------------------------------
(* set_networking_state *)

\* networking_init() asks for Activated: conn_mgr_all_if_up(true) returned 0 ...
ActivateDone ==
    /\ current_state # "Activated"
    /\ current_state' = "Activated"
    /\ link' = "up"
    /\ UNCHANGED network_connected

\* ... or failed, which is returned.
ActivateRefused ==
    /\ current_state # "Activated"
    /\ current_state' = "Activated"
    /\ UNCHANGED <<link, network_connected>>

\* The early return: the state asked for is the one asked for last time.
AlreadyIn(state) ==
    /\ current_state = state
    /\ UNCHANGED connVars

\* conn_mgr_all_if_connect(true) returned 0.  An interface that is online
\* already stays online, and no new L4_CONNECTED event follows.
ConnectAccepted ==
    /\ current_state # "Connected"
    /\ current_state' = "Connected"
    /\ link' = IF link = "online" THEN "online" ELSE "searching"
    /\ UNCHANGED network_connected

\* conn_mgr_all_if_connect(true) failed: return -1, with the new state
\* recorded all the same.
ConnectRefused ==
    /\ current_state # "Connected"
    /\ current_state' = "Connected"
    /\ UNCHANGED <<link, network_connected>>

\* k_sem_take(&network_connected, K_SECONDS(90)) within the 90 seconds ...
TakeNetworkConnected ==
    /\ network_connected = 1
    /\ network_connected' = 0
    /\ UNCHANGED <<current_state, link>>

\* ... or -EAGAIN after them; logged, and the function goes on.
WaitTimesOut ==
    /\ network_connected = 0
    /\ UNCHANGED connVars

\* conn_mgr_all_if_disconnect(true) returned 0 ...
DisconnectDone ==
    /\ current_state # "Disconnected"
    /\ current_state' = "Disconnected"
    /\ link' = "up"
    /\ UNCHANGED network_connected

\* ... or failed, which is logged.
DisconnectRefused ==
    /\ current_state # "Disconnected"
    /\ current_state' = "Disconnected"
    /\ UNCHANGED <<link, network_connected>>

-----------------------------------------------------------------------------
(* l4_event_handler, with the network event that runs it *)

L4Connected ==
    /\ link = "searching"
    /\ link' = "online"
    /\ network_connected' = 1
    /\ UNCHANGED current_state

\* The handler only logs; the modem goes on looking for a network.
L4Disconnected ==
    /\ link = "online"
    /\ link' = "searching"
    /\ UNCHANGED <<current_state, network_connected>>

=============================================================================
