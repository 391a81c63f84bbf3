---------------------------- MODULE SingleMachine ----------------------------
(***************************************************************************)
(* Where SeplosBmsBle::decode_single_machine_data_ finds the values of a   *)
(* status frame, against the frame its comments and its test draw.         *)
(*                                                                         *)
(* Cells, temperatures and alarm events are counted in the frame. The code *)
(* computes the place of a value from the counts; the drawing lists the    *)
(* values one behind the other.                                            *)
(***************************************************************************)
EXTENDS Naturals, Sequences

\* A status frame: its size and the three counts in it. The last two temperatures
\* are those of the ambient and of the MOSFETs.
StatusFrame == [size : 0 .. 200, cells : 0 .. 255, temps : 0 .. 255, alarms : 0 .. 255]

UpTo(n, limit) == 1 .. (IF n <= limit THEN n ELSE limit)

-----------------------------------------------------------------------------
(* What the code does *)

\* The two size guards.
LongEnough(frame) ==
  frame.size >= 60 /\ frame.size >= 11 + 2 * frame.cells + 2 * frame.temps + 61

CellTemps(frame) == IF frame.temps > 2 THEN frame.temps - 2 ELSE 0

\* offset behind the cells, at the temperature count.
TempsPlace(frame) == 10 + 2 * frame.cells

\* Slip: only the temperatures of the cells are stepped over.
MainPlaceBehindCellTemps(frame) == TempsPlace(frame) + 1 + 2 * CellTemps(frame)

\* offset behind the temperatures.
MainPlace(frame) == TempsPlace(frame) + 1 + 2 * frame.temps

AlarmsPlace(frame) == MainPlace(frame) + 19
\* protection_offset, alarm_offset, balancing_offset.
ProtectionPlace(frame) == AlarmsPlace(frame) + frame.cells + frame.temps
EventsPlace(frame) == ProtectionPlace(frame) + 5
BalancingPlace(frame) == EventsPlace(frame) + frame.alarms
BitBytes(frame) == (frame.cells + 7) \div 8

\* Values read before the alarm events: name, number and first byte.
ReadValues(frame) ==
  LET temps == TempsPlace(frame)
      main == MainPlace(frame)
      alarms == AlarmsPlace(frame)
      protection == ProtectionPlace(frame)
  IN { <<"cell_count", 1, 9>>, <<"temp_count", 1, temps>>,
       <<"ambient_temperature", 1, temps + 1 + 2 * CellTemps(frame)>>,
       <<"mosfet_temperature", 1, temps + 3 + 2 * CellTemps(frame)>>,
       <<"current", 1, main>>, <<"total_voltage", 1, main + 2>>,
       <<"capacity_remaining", 1, main + 4>>, <<"battery_capacity", 1, main + 7>>,
       <<"state_of_charge", 1, main + 9>>, <<"nominal_capacity", 1, main + 11>>,
       <<"charging_cycles", 1, main + 13>>, <<"state_of_health", 1, main + 15>>,
       <<"port_voltage", 1, main + 17>>,
       <<"ambient_alarm", 1, alarms + frame.cells + frame.temps - 2>>,
       <<"mosfet_alarm", 1, alarms + frame.cells + frame.temps - 1>>,
       <<"current_alarm", 1, protection>>, <<"voltage_alarm", 1, protection + 1>>,
       <<"system_status", 1, protection + 2>>, <<"switch_status", 1, protection + 3>>,
       <<"alarm_count", 1, protection + 4>> }
     \cup { <<"cell_voltage", i, 10 + 2 * (i - 1)>> : i \in UpTo(frame.cells, 24) }
     \cup { <<"cell_temperature", i, temps + 1 + 2 * (i - 1)>> : i \in UpTo(CellTemps(frame), 8) }
     \cup { <<"cell_alarm", i, alarms + i - 1>> : i \in UpTo(frame.cells, 24) }
     \cup { <<"temperature_alarm", i, alarms + frame.cells + i - 1>> :
              i \in UpTo(CellTemps(frame), 8) }

\* Every value read.
Read(frame) ==
  ReadValues(frame)
     \cup { <<"alarm_event", i, EventsPlace(frame) + i - 1>> : i \in 1 .. 8 }
     \cup { <<"alarm_event", i, EventsPlace(frame) + i - 1>> :
              i \in { n \in 9 .. frame.alarms : EventsPlace(frame) + n - 1 < frame.size } }
     \cup { <<"balancing", i, BalancingPlace(frame) + i - 1>> : i \in 1 .. BitBytes(frame) }
     \cup { <<"disconnected", i, BalancingPlace(frame) + BitBytes(frame) + i - 1>> :
              i \in 1 .. BitBytes(frame) }

-----------------------------------------------------------------------------
(* What the comments and the frame of the test draw *)

\* Name, how many, bytes of each.
Drawing(frame) ==
  << <<"address", 1, 1>>, <<"reserved", 1, 1>>, <<"cell_count", 1, 1>>,
     <<"cell_voltage", frame.cells, 2>>, <<"temp_count", 1, 1>>,
     <<"cell_temperature", frame.temps - 2, 2>>, <<"ambient_temperature", 1, 2>>,
     <<"mosfet_temperature", 1, 2>>, <<"current", 1, 2>>, <<"total_voltage", 1, 2>>,
     <<"capacity_remaining", 1, 2>>, <<"reserved", 1, 1>>, <<"battery_capacity", 1, 2>>,
     <<"state_of_charge", 1, 2>>, <<"nominal_capacity", 1, 2>>, <<"charging_cycles", 1, 2>>,
     <<"state_of_health", 1, 2>>, <<"port_voltage", 1, 2>>,
     <<"cell_alarm", frame.cells, 1>>, <<"temperature_alarm", frame.temps - 2, 1>>,
     <<"ambient_alarm", 1, 1>>, <<"mosfet_alarm", 1, 1>>, <<"current_alarm", 1, 1>>,
     <<"voltage_alarm", 1, 1>>, <<"system_status", 1, 1>>, <<"switch_status", 1, 1>>,
     <<"alarm_count", 1, 1>>, <<"alarm_event", frame.alarms, 1>>,
     <<"balancing", (frame.cells + 7) \div 8, 1>>,
     <<"disconnected", (frame.cells + 7) \div 8, 1>> >>

\* First byte of each group of the drawing, and of what is behind the last; the header
\* has seven bytes.
GroupPlace(frame) ==
  LET groups == Drawing(frame)
      place[k \in 1 .. Len(groups) + 1] ==
        IF k = 1 THEN 7 ELSE place[k - 1] + groups[k - 1][2] * groups[k - 1][3]
  IN place

\* With two bytes of CRC and the end marker behind the last value.
DrawnSize(frame) == GroupPlace(frame)[Len(Drawing(frame)) + 1] + 3

\* Every value of the drawing: name, number and first byte.
Drawn(frame) ==
  LET groups == Drawing(frame)
      place == GroupPlace(frame)
  IN UNION { { <<groups[k][1], i, place[k] + (i - 1) * groups[k][3]>> : i \in 1 .. groups[k][2] } :
               k \in 1 .. Len(groups) }

\* The code has room for 24 cells and 8 temperatures; two bytes mean nothing.
HasSensor(value) ==
  /\ value[1] \notin {"address", "reserved"}
  /\ value[1] \in {"cell_voltage", "cell_alarm"} => value[2] <= 24
  /\ value[1] \in {"cell_temperature", "temperature_alarm"} => value[2] <= 8
=============================================================================
