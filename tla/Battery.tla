------------------------------ MODULE Battery -------------------------------
(***************************************************************************)
(* src/src/sensors/battery.cpp: the state of charge from the cell's        *)
(* voltage, by linear interpolation in a table, and the charging flag.     *)
(*                                                                         *)
(* Voltages are in millivolts and the arithmetic is exact; the code's is   *)
(* in single precision, which can come out just below a whole percentage.  *)
(***************************************************************************)
EXTENDS Integers, Sequences
LOCAL INSTANCE FiniteSetsExt

\* Open circuit voltage and percentage.
table == << [v |-> 3000, soc |-> 0],  [v |-> 3200, soc |-> 5],
            [v |-> 3300, soc |-> 10], [v |-> 3400, soc |-> 20],
            [v |-> 3500, soc |-> 30], [v |-> 3600, soc |-> 45],
            [v |-> 3700, soc |-> 60], [v |-> 3800, soc |-> 75],
            [v |-> 3900, soc |-> 85], [v |-> 4000, soc |-> 92],
            [v |-> 4100, soc |-> 97], [v |-> 4200, soc |-> 100] >>

Clamped(voltage) == Min({Max({voltage, 3000}), 4200})

\* Mutant: the upper bound of a segment is left to the next one.
Segments_HalfOpen(voltage) ==
    {i \in 1 .. Len(table) - 1 : table[i].v <= voltage /\ voltage < table[i + 1].v}

\* Where the loop can return; it does at the first.
Segments(voltage) ==
    {i \in 1 .. Len(table) - 1 : table[i].v <= voltage /\ voltage <= table[i + 1].v}

\* liion_soc_from_voltage(), as send_gps_update() passes it on: the fraction is
\* lost in the conversion to uint8_t.  The last line, "should never hit", is 0.
Soc(voltage) ==
    LET v == Clamped(voltage)
        i == Min(Segments(v))
        t == v - table[i].v
    IN  IF Segments(v) = {} THEN 0
        ELSE table[i].soc
                 + (t * (table[i + 1].soc - table[i].soc)) \div (table[i + 1].v - table[i].v)

\* What get_battery_soc() returns when the sensor cannot be read.
SocUnknown == 101

\* The cell's range, with some way to either side that is clamped.
Voltages == 2900 .. 4300

\* More voltage never shows as less charge, and no voltage as unknown.
Monotone ==
    \A voltage \in Voltages :
        /\ Segments(Clamped(voltage)) # {}
        /\ Soc(voltage) < SocUnknown
        /\ Soc(voltage) <= Soc(voltage + 1)

\* get_battery_charge_status(): any of the bits 2 to 5 of the charger's status.
Charging(status_flags) == (status_flags \div 4) % 16 # 0

=============================================================================
