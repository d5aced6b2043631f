--------------------------- MODULE PacketBuilder ----------------------------
(***************************************************************************)
(* src/src/networking/packet_builder.h, packet_builder.cpp: the text of an *)
(* upload, put together in a buffer of fixed size by snprintf() calls, each *)
(* of which is told the room left and returns the length it would have     *)
(* liked.  Only the lengths of the texts are modelled: of the pieces in    *)
(* the order of build_gps_packet(), with the shortest and the longest text *)
(* a valid fix, the modem and the sensors give for each (%f: six decimals). *)
(***************************************************************************)
EXTENDS Battery, FiniteSets
LOCAL INSTANCE SequencesExt
LOCAL INSTANCE FiniteSetsExt

CONSTANTS
    CONFIG_NETWORK_PACKET_SIZE,
    LongestServer           \* bound: CONFIG_TRACCAR_HOSTNAME with the port

ASSUME PacketAssumption ==
    CONFIG_NETWORK_PACKET_SIZE \in 512 .. 4096 /\ LongestServer \in Nat \ {0}

\* index: the member; text: where the first NUL is; overrun: something was
\* written past the end.
EmptyPacket == [index |-> 0, text |-> 0, overrun |-> FALSE]

\* buf_size - index wraps around: beyond the end there is no limit.
RoomFor(b, length) ==
    IF b.index > CONFIG_NETWORK_PACKET_SIZE THEN length + 1
    ELSE CONFIG_NETWORK_PACKET_SIZE - b.index

\* What snprintf() puts there, before its NUL, of a text of this length.
Written(b, length) ==
    IF length < RoomFor(b, length) THEN length
    ELSE IF RoomFor(b, length) = 0 THEN 0 ELSE RoomFor(b, length) - 1

\* Mutant: index goes past the NUL.
Appended_PastNul(b, length) ==
    [index   |-> b.index + length + 1,
     text    |-> IF b.text = b.index THEN b.index + Written(b, length) ELSE b.text,
     overrun |-> b.overrun \/ b.index > CONFIG_NETWORK_PACKET_SIZE]

\* int rc = snprintf(&buffer[index], buf_size - index, ...); index += rc;
Appended(b, length) ==
    [index   |-> b.index + length,
     text    |-> IF b.text = b.index THEN b.index + Written(b, length) ELSE b.text,
     overrun |-> b.overrun \/ b.index > CONFIG_NETWORK_PACKET_SIZE]

\* append_null_terminator(): one behind the NUL that is there, if there is room.
Terminated(b) ==
    IF b.index + 1 < b.text /\ b.index + 1 < CONFIG_NETWORK_PACKET_SIZE
    THEN [b EXCEPT !.text = b.index + 1] ELSE b

-----------------------------------------------------------------------------
(* The pieces of build_gps_packet(), each with the lengths it can have; the *)
(* functions it calls for them stand for the lengths of what they return.  *)

\* "&<name>=<value>"
Query(name, values) == {1 + name + 1 + value : value \in values}

Digits(n) == IF n < 10 THEN 1 ELSE IF n < 100 THEN 2 ELSE 3

\* 15 digits, or nothing when AT+CGSN fails.
get_imei == {0, 15}

\* mcc and mnc, the 16 bits of lac, the 28 of cellid, and signal_strength, which
\* stays 0, with four commas; what an answer does not give stays 0.
get_provider_info == {4 + 1 + 1 + 1 + 1 + 1, 4 + 3 + 3 + 5 + 9 + 1}

\* From "-40.000000" to "85.000000", the sensor's range; 0 when it fails.
get_temperature == {8, 10}

get_battery_soc == {Soc(voltage) : voltage \in Voltages} \cup {SocUnknown}

\* "true" or "false"; an error is "false".
get_battery_charge_status == {IF Charging(flags) THEN 4 ELSE 5 : flags \in 0 .. 255}

Pieces == <<
    {4}, {2},                               \* "GET ", "/?"
    Query(2, get_imei),                     \* id
    Query(3, {8, 10}), Query(3, {8, 11}),   \* lat, lon
    Query(8, {8, 13}),                      \* accuracy
    Query(7, {8, 10}),                      \* heading
    Query(8, {8, 14}),                      \* altitude
    Query(9, {20}),                         \* timestamp
    Query(4, get_provider_info),            \* cell
    Query(4, {Digits(soc) : soc \in get_battery_soc}),
    Query(6, get_battery_charge_status),    \* charge
    Query(4, get_temperature),              \* temp
    Query(1, {1, 11}),                      \* v
    {11},                                   \* " HTTP/1.1\r\n"
    {6 + server + 2 : server \in {3, LongestServer}},   \* "Host: ...\r\n"
    {19}, {25}, {13}, {2} >>                \* the fixed header lines, "\r\n"

Varying == {i \in DOMAIN Pieces : Cardinality(Pieces[i]) > 1}

\* The lengths of the pieces of one request, each the shortest or the longest.
Requests ==
    {[i \in DOMAIN Pieces |-> IF i \in long THEN Max(Pieces[i]) ELSE Min(Pieces[i])] :
         long \in SUBSET Varying}

build_gps_packet(request) == Terminated(FoldLeft(Appended, EmptyPacket, request))

\* strnlen() of the buffer is the length of the text that was put together:
\* nothing was cut, no NUL is left inside, nothing went past the end.
Whole(request) ==
    LET b == build_gps_packet(request)
    IN  b.text = FoldLeft(+, 0, request) /\ ~b.overrun

AllWhole == \A request \in Requests : Whole(request)

=============================================================================
