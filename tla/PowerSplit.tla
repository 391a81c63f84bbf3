----------------------------- MODULE PowerSplit -----------------------------
(***************************************************************************)
(* Power and its direction, as SeplosBms::on_telemetry_data_ and           *)
(* SeplosBmsBle::decode_single_machine_data_ compute them from the two     *)
(* words for current and voltage. A power is << voltage, current >>, its   *)
(* two factors, both in hundredths.                                        *)
(***************************************************************************)
EXTENDS Integers

PowerWords == { n \in Nat : n <= 65535 }

PowerInput == [decoder : {"rs485", "v2"}, voltage : PowerWords, current : PowerWords]

\* (int16_t)
SignedCurrent(input) == IF input.current >= 32768 THEN input.current - 65536 ELSE input.current

\* max(0, power) and abs(min(0, power)).
Charged(power) == IF power[1] > 0 /\ power[2] > 0 THEN power ELSE << power[1], 0 >>
Discharged(power) ==
  IF power[1] > 0 /\ power[2] < 0 THEN << power[1], -power[2] >> ELSE << power[1], 0 >>

\* The V2 decoder also tells the direction, from 0.11 A on: in float, ten hundredths are
\* not above 0.1.
Directions(input) ==
  IF input.decoder = "v2"
  THEN [charging |-> SignedCurrent(input) > 10, discharging |-> SignedCurrent(input) < -10]
  ELSE << >>

PublishedPower(input) ==
  LET power == << input.voltage, SignedCurrent(input) >>
  IN [power |-> power, charging_power |-> Charged(power), discharging_power |-> Discharged(power),
      directions |-> Directions(input)]
=============================================================================
