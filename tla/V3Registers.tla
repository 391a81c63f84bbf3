----------------------------- MODULE V3Registers -----------------------------
(***************************************************************************)
(* The register blocks of the V3 BMS: the values the decoders of           *)
(* SeplosBmsV3Ble and SeplosBmsV3BlePack publish from the bytes of an      *)
(* answer, against the register tables of docs/XZH BMS Modbus-RTU          *)
(* Protocol.md.                                                            *)
(*                                                                         *)
(* A published value is << sensor, number, factor >>: the float is the     *)
(* number times the factor, or (number - 2731.5) / 10 for the factor       *)
(* "celsius". Numbers that need 32 bits are a pair of words, high word     *)
(* first. Powers and quotients keep their two operands.                    *)
(***************************************************************************)
EXTENDS Integers, Sequences

\* Bytes of a payload, from position 0.
Word(data, i) == 256 * data[i] + data[i + 1]
Signed(word) == IF word >= 32768 THEN word - 65536 ELSE word

\* Slip: the high word comes first.
LongBigEndian(data, i) == << Word(data, i), Word(data, i + 2) >>

\* seplos_get_32bit: the low word comes first.
Long(data, i) == << Word(data, i + 2), Word(data, i) >>
SignedLong(data, i) == 65536 * Signed(Word(data, i + 2)) + Word(data, i)

Magnitude(n) == IF n < 0 THEN -n ELSE n

\* extract_string: what is in front of the first '\0'.
Text(data, i, len) ==
  LET ends == { n \in 0 .. len - 1 : data[i + n] = 0 } \cup { len }
      cut == CHOOSE n \in ends : \A m \in ends : n <= m
  IN [n \in 1 .. cut |-> data[i + n - 1]]

Read(data, reader, i) ==
  CASE reader = "u16" -> Word(data, i)
    [] reader = "s16" -> Signed(Word(data, i))
    [] reader = "|s16|" -> Magnitude(Signed(Word(data, i)))
    [] reader = "u32" -> Long(data, i)
    [] reader = "s32" -> SignedLong(data, i)

-----------------------------------------------------------------------------
(* What the decoders read: sensor, first byte, reader, factor. *)

EiaFields ==
  { <<"total_voltage", 0, "u32", "0.01">>, <<"current", 4, "s32", "0.1">>,
    <<"capacity_remaining", 8, "u32", "0.01">>, <<"total_capacity", 12, "u32", "0.01">>,
    <<"cycle_charge", 16, "u32", "10">>, <<"rated_capacity", 20, "u32", "0.01">>,
    <<"max_discharge_current", 32, "u32", "0.1">>, <<"max_charge_current", 36, "u32", "0.1">>,
    <<"charging_cycles", 46, "u16", "1">>,
    <<"state_of_charge", 48, "u16", "0.1">>, <<"state_of_health", 50, "u16", "0.1">> }

EibFields ==
  { <<"max_cell_voltage", 0, "u16", "0.001">>, <<"min_cell_voltage", 2, "u16", "0.001">>,
    <<"max_voltage_cell", 4, "u16", "1">>, <<"min_voltage_cell", 6, "u16", "1">>,
    <<"max_pack_voltage", 8, "u16", "0.01">>, <<"min_pack_voltage", 10, "u16", "0.01">>,
    <<"max_pack_voltage_id", 12, "u16", "1">>, <<"min_pack_voltage_id", 14, "u16", "1">>,
    <<"max_cell_temperature", 16, "s16", "celsius">>,
    <<"min_cell_temperature", 18, "s16", "celsius">>,
    <<"average_cell_temperature", 20, "s16", "celsius">>,
    <<"max_temperature_cell", 22, "u16", "1">>, <<"min_temperature_cell", 24, "u16", "1">> }

PctFields ==
  { <<"inverter_protocol", 0, "u16", "1">>, <<"inverter_baud_rate", 2, "u16", "1">>,
    <<"inverter_protocol_pre_switch", 70, "u16", "1">> }

\* The parameters are addressed by register: reg(addr).
Parameter(start, sensor, addr, reader, factor) == << sensor, 2 * (addr - start), reader, factor >>

Spa1Fields ==
  LET P(sensor, addr, factor) == Parameter(\h1300, sensor, addr, "u16", factor)
  IN { P("temperature_sensor_count", \h1300, "1"), P("cell_count", \h1301, "1"),
       P("pack_overvoltage_recovery_voltage", \h1304, "0.01"),
       P("pack_overvoltage_protection_voltage", \h1305, "0.01"),
       P("pack_undervoltage_recovery_voltage", \h1308, "0.01"),
       P("pack_undervoltage_protection_voltage", \h1309, "0.01"),
       P("cell_overvoltage_recovery_voltage", \h130C, "0.001"),
       P("cell_overvoltage_protection_voltage", \h130D, "0.001"),
       P("cell_undervoltage_recovery_voltage", \h1310, "0.001"),
       P("cell_undervoltage_protection_voltage", \h1311, "0.001"),
       P("cell_voltage_difference_protection", \h1313, "0.001"),
       P("charge_overcurrent_protection", \h1317, "1"),
       Parameter(\h1300, "discharge_overcurrent_protection", \h131D, "|s16|", "1"),
       P("charge_overtemperature_protection", \h1332, "celsius"),
       P("charge_low_temperature_alarm", \h1334, "celsius") }

Spa2Fields ==
  LET P(sensor, addr, factor) == Parameter(\h1335, sensor, addr, "u16", factor)
  IN { P("discharge_overtemperature_protection", \h133A, "celsius"),
       P("environment_undertemperature_protection", \h1346, "celsius"),
       P("mosfet_overtemperature_protection", \h134A, "celsius"),
       P("balancing_start_voltage", \h1350, "0.001"),
       P("balancing_start_difference", \h1351, "0.001"),
       P("low_state_of_charge_alarm", \h1355, "0.1"),
       P("inverter_charge_current_limit", \h1366, "1"),
       Parameter(\h1335, "inverter_discharge_current_limit", \h1367, "|s16|", "1") }

PiaFields ==
  { <<"pack_voltage", 0, "u16", "0.01">>, <<"pack_current", 2, "s16", "0.01">>,
    <<"pack_battery_level", 10, "u16", "0.1">>, <<"pack_cycle", 14, "u16", "1">> }

PibFields ==
  { << <<"pack_cell_voltage", c>>, 2 * (c - 1), "u16", "0.001" >> : c \in 1 .. 16 }
    \cup { << <<"pack_temperature", t>>, 32 + 2 * (t - 1), "u16", "celsius" >> : t \in 1 .. 4 }
    \cup { << <<"ambient_temperature", 1>>, 48, "u16", "celsius" >>,
           << <<"mosfet_temperature", 1>>, 50, "u16", "celsius" >> }

Fields(block) ==
  CASE block = "EIA" -> EiaFields [] block = "EIB" -> EibFields [] block = "PCT" -> PctFields
    [] block = "SPA1" -> Spa1Fields [] block = "SPA2" -> Spa2Fields
    [] block = "PIA" -> PiaFields [] block = "PIB" -> PibFields [] OTHER -> {}

\* Texts: sensor, first byte, length.
ViaTexts ==
  { <<"factory_name", 0, 20>>, <<"device_name", 20, 20>>, <<"firmware_version", 40, 2>>,
    <<"bms_serial_number", 42, 30>>, <<"pack_serial_number", 72, 30>> }
PctTexts ==
  { <<"inverter_name", 4, 32>>, <<"inverter_protocol_name", 36, 32>>,
    <<"inverter_protocol_version", 68, 2>> }
Texts(block) == CASE block = "VIA" -> ViaTexts [] block = "PCT" -> PctTexts [] OTHER -> {}

\* Slip: no current counts as charging.
ChargingAtRest(current) == current >= 0

\* The direction of a current; 0 A is neither, the comment calls it idle.
Charging(current) == current > 0
Discharging(current) == current < 0

\* Values decode_eia_data_ computes from others. A power is << voltage, current >>.
EiaDerived(data) ==
  LET voltage == Long(data, 0)
      current == SignedLong(data, 4)
      charging == Charging(current)
      discharging == Discharging(current)
      remaining == Long(data, 8)
      cycles == Word(data, 46)
      packs == Word(data, 44)
  IN { <<"power", << voltage, current >>, "0.001">>,
       <<"charging_power", << voltage, IF charging THEN current ELSE 0 >>, "0.001">>,
       <<"discharging_power", << voltage, IF discharging THEN -current ELSE 0 >>, "0.001">>,
       <<"charging", charging, "">>, <<"discharging", discharging, "">>,
       <<"pack_count", IF packs <= 16 THEN packs ELSE 16, "1">> }
     \cup (IF cycles > 0 THEN { <<"cycle_capacity", << Long(data, 16), cycles >>, "10">> } ELSE {})
     \cup (IF discharging /\ remaining # <<0, 0>>
           THEN { <<"runtime", << remaining, -current >>, "0.1">> } ELSE {})

EibDerived(data) == { <<"delta_voltage", Word(data, 0) - Word(data, 2), "0.001">> }

Derived(block, data) ==
  CASE block = "EIA" -> EiaDerived(data) [] block = "EIB" -> EibDerived(data) [] OTHER -> {}

\* Everything a decoder publishes.
PublishedOf(block, data) ==
  { << f[1], Read(data, f[3], f[2]), f[4] >> : f \in Fields(block) }
    \cup { << t[1], Text(data, t[2], t[3]), "" >> : t \in Texts(block) }
    \cup Derived(block, data)
=============================================================================
