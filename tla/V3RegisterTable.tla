--------------------------- MODULE V3RegisterTable ---------------------------
(***************************************************************************)
(* The register tables of docs/XZH BMS Modbus-RTU Protocol.md (lines 150   *)
(* to 480), for the registers that have a sensor: sensor, relative         *)
(* address, data type, unit.                                               *)
(*                                                                         *)
(* The tables do not say which of the two registers of a 32-bit value is   *)
(* the high one; the comment of seplos_get_32bit does: the second.         *)
(***************************************************************************)
EXTENDS V3Registers

FirstRegister ==
  [EIA |-> \h2000, EIB |-> \h2100, VIA |-> \h1700, PCT |-> \h1800, SPA1 |-> \h1300,
   SPA2 |-> \h1335, PIA |-> \h1000, PIB |-> \h1100]

\* Bytes of the answer to a request for the block.
BlockSize ==
  [EIA |-> 52, EIB |-> 52, VIA |-> 102, PCT |-> 72, SPA1 |-> 106, SPA2 |-> 106, PIA |-> 34,
   PIB |-> 52]

RegisterBlocks == DOMAIN BlockSize

Rows ==
  [EIA |->
     { <<"total_voltage", \h2000, "UINT32", "10mV">>, <<"current", \h2002, "INT32", "100mA">>,
       <<"capacity_remaining", \h2004, "UINT32", "10mAH">>,
       <<"total_capacity", \h2006, "UINT32", "10mAH">>,
       <<"cycle_charge", \h2008, "UINT32", "10AH">>,
       <<"rated_capacity", \h200A, "UINT32", "10mAH">>,
       <<"max_discharge_current", \h2010, "UINT32", "100mA">>,
       <<"max_charge_current", \h2012, "UINT32", "100mA">>,
       <<"charging_cycles", \h2017, "UINT16", "1">>,
       <<"state_of_charge", \h2018, "UINT16", "0.1%">>,
       <<"state_of_health", \h2019, "UINT16", "0.1%">> },
   EIB |->
     { <<"max_cell_voltage", \h2100, "UINT16", "1mV">>,
       <<"min_cell_voltage", \h2101, "UINT16", "1mV">>,
       <<"max_voltage_cell", \h2102, "UINT16", "1">>, <<"min_voltage_cell", \h2103, "UINT16", "1">>,
       <<"max_pack_voltage", \h2104, "UINT16", "10mV">>,
       <<"min_pack_voltage", \h2105, "UINT16", "10mV">>,
       <<"max_pack_voltage_id", \h2106, "UINT16", "1">>,
       <<"min_pack_voltage_id", \h2107, "UINT16", "1">>,
       <<"max_cell_temperature", \h2108, "UINT16", "0.1K">>,
       <<"min_cell_temperature", \h2109, "UINT16", "0.1K">>,
       <<"average_cell_temperature", \h210A, "UINT16", "0.1K">>,
       <<"max_temperature_cell", \h210B, "UINT16", "1">>,
       <<"min_temperature_cell", \h210C, "UINT16", "1">> },
   VIA |->
     { <<"factory_name", \h1700, "ASCII", 20>>, <<"device_name", \h170A, "ASCII", 20>>,
       <<"firmware_version", \h1714, "ASCII", 2>>, <<"bms_serial_number", \h1715, "ASCII", 30>>,
       <<"pack_serial_number", \h1724, "ASCII", 30>> },
   PCT |->
     { <<"inverter_protocol", \h1800, "UINT16", "1">>, <<"inverter_baud_rate", \h1801, "UINT16", "1">>,
       <<"inverter_name", \h1802, "ASCII", 32>>, <<"inverter_protocol_name", \h1812, "ASCII", 32>>,
       <<"inverter_protocol_version", \h1822, "ASCII", 2>>,
       <<"inverter_protocol_pre_switch", \h1823, "UINT16", "1">> },
   SPA1 |->
     { <<"temperature_sensor_count", \h1300, "UINT16", "1">>, <<"cell_count", \h1301, "UINT16", "1">>,
       <<"pack_overvoltage_recovery_voltage", \h1304, "UINT16", "10mV">>,
       <<"pack_overvoltage_protection_voltage", \h1305, "UINT16", "10mV">>,
       <<"pack_undervoltage_recovery_voltage", \h1308, "UINT16", "10mV">>,
       <<"pack_undervoltage_protection_voltage", \h1309, "UINT16", "10mV">>,
       <<"cell_overvoltage_recovery_voltage", \h130C, "UINT16", "1mV">>,
       <<"cell_overvoltage_protection_voltage", \h130D, "UINT16", "1mV">>,
       <<"cell_undervoltage_recovery_voltage", \h1310, "UINT16", "1mV">>,
       <<"cell_undervoltage_protection_voltage", \h1311, "UINT16", "1mV">>,
       <<"cell_voltage_difference_protection", \h1313, "UINT16", "1mV">>,
       <<"charge_overcurrent_protection", \h1317, "UINT16", "A">>,
       <<"discharge_overcurrent_protection", \h131D, "UINT16", "A">>,
       <<"charge_overtemperature_protection", \h1332, "UINT16", "0.1K">>,
       <<"charge_low_temperature_alarm", \h1334, "UINT16", "0.1K">> },
   SPA2 |->
     { <<"discharge_overtemperature_protection", \h133A, "UINT16", "0.1K">>,
       <<"environment_undertemperature_protection", \h1346, "UINT16", "0.1K">>,
       <<"mosfet_overtemperature_protection", \h134A, "UINT16", "0.1K">>,
       <<"balancing_start_voltage", \h1350, "UINT16", "1mV">>,
       <<"balancing_start_difference", \h1351, "UINT16", "1mV">>,
       <<"low_state_of_charge_alarm", \h1355, "UINT16", "0.1%">>,
       <<"inverter_charge_current_limit", \h1366, "UINT16", "A">>,
       <<"inverter_discharge_current_limit", \h1367, "UINT16", "A">> },
   PIA |->
     { <<"pack_voltage", \h1000, "UINT16", "10mV">>, <<"pack_current", \h1001, "INT16", "10mA">>,
       <<"pack_battery_level", \h1005, "UINT16", "0.1%">>, <<"pack_cycle", \h1007, "UINT16", "1">> },
   PIB |->
     { << <<"pack_cell_voltage", c>>, \h1100 + c - 1, "UINT16", "1mV" >> : c \in 1 .. 16 }
     \cup { << <<"pack_temperature", t>>, \h1110 + t - 1, "UINT16", "0.1K" >> : t \in 1 .. 4 }
     \cup { << <<"ambient_temperature", 1>>, \h1118, "UINT16", "0.1K" >>,
            << <<"mosfet_temperature", 1>>, \h1119, "UINT16", "0.1K" >> }]

\* What a number of that unit is multiplied with for V, A, Ah and percent.
FactorOf(unit) ==
  CASE unit = "1mV" -> "0.001"
    [] unit \in {"10mV", "10mA", "10mAH"} -> "0.01"
    [] unit \in {"100mA", "0.1%"} -> "0.1"
    [] unit \in {"1", "A"} -> "1"
    [] unit = "10AH" -> "10"
    [] unit = "0.1K" -> "celsius"

\* The register at a relative address of a block, high byte first.
RegisterAt(block, data, addr) ==
  LET i == 2 * (addr - FirstRegister[block]) IN 256 * data[i] + data[i + 1]

TwosComplement(n, half) == IF n < half THEN n ELSE n - 2 * half

\* The number a row shows.
Shown(block, data, row) ==
  LET low == RegisterAt(block, data, row[2])
  IN CASE row[3] = "UINT16" -> low
       [] row[3] = "INT16" -> TwosComplement(low, 32768)
       [] row[3] = "UINT32" -> << RegisterAt(block, data, row[2] + 1), low >>
       [] row[3] = "INT32" ->
            TwosComplement(RegisterAt(block, data, row[2] + 1), 32768) * 65536 + low

\* The decoders read these as signed; the tables have no negative ones, and no battery has
\* 32768 A or 3276.8 K.
ReadAsSigned ==
  { "max_cell_temperature", "min_cell_temperature", "average_cell_temperature",
    "discharge_overcurrent_protection", "inverter_discharge_current_limit" }

\* A text fills its field or ends in front of a '\0'.
FillsField(block, data, row, text) ==
  LET i == 2 * (row[2] - FirstRegister[block])
  IN /\ Len(text) <= row[4]
     /\ \A n \in 1 .. Len(text) : text[n] = data[i + n - 1] /\ text[n] # 0
     /\ Len(text) < row[4] => data[i + Len(text)] = 0
=============================================================================
