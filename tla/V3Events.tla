------------------------------ MODULE V3Events ------------------------------
(***************************************************************************)
(* The event codes of the V3 BMS (block EIC): what decode_eic_data_ makes  *)
(* of the ten bytes, against the status code tables TB02 to TB16 of        *)
(* docs/XZH BMS Modbus-RTU Protocol.md. A byte is the set of its bits.     *)
(***************************************************************************)
EXTENDS Naturals

EventBytes == [0 .. 9 -> SUBSET (0 .. 7)]

-----------------------------------------------------------------------------
(* What the code does *)

\* Slip: the mask 0x3F of the ambient temperatures is 0x0F.
AmbientEventsHalf(data) == data[3] \cap (0 .. 3)

\* data[3] & 0x3F: without the heating bit.
AmbientEvents(data) == data[3] \cap (0 .. 5)

\* Bits of problem_code.
ProblemCode(data) ==
  { b \in 0 .. 6 : CASE b = 0 -> data[1] # {}
                     [] b = 1 -> data[2] # {}
                     [] b = 2 -> AmbientEvents(data) # {}
                     [] b = 3 -> data[4] # {}
                     [] b = 4 -> data[5] # {}
                     [] b = 5 -> data[6] # {}
                     [] b = 6 -> data[9] # {} }

CurrentProtection(data) == data[4] # {} \/ data[5] # {}

\* Everything decode_eic_data_ publishes; a number is the set of its bits.
PublishedEvents(data) ==
  [problem_code |-> ProblemCode(data),
   problem_text |-> IF ProblemCode(data) # {} THEN "Problem detected" ELSE "No problems",
   system_state_code |-> data[0],
   voltage_event_code |-> data[1],
   temperature_event_code |-> { b + 8 : b \in data[2] } \cup data[3],
   current_event_code |-> data[4],
   voltage_protection |-> data[1] # {},
   temperature_protection |-> data[2] # {} \/ AmbientEvents(data) # {},
   current_protection |-> CurrentProtection(data),
   system_fault |-> data[9] # {},
   heating |-> 6 \in data[3]]

-----------------------------------------------------------------------------
(* What the tables define *)

\* Alarms, protections, latches and faults: TB02 to TB06, TB15 and TB16, and of TB08 the
\* alarm and the protection of a low state of charge.
AlarmBits ==
  { <<1, b>> : b \in 0 .. 7 } \cup { <<2, b>> : b \in 0 .. 7 } \cup { <<3, b>> : b \in 0 .. 5 }
    \cup { <<4, b>> : b \in 0 .. 6 } \cup { <<5, b>> : b \in {0, 2, 3} }
    \cup { <<6, b>> : b \in {2, 3, 4} } \cup { <<8, b>> : b \in {0, 5} }
    \cup { <<9, b>> : b \in 0 .. 7 }

\* States of normal operation: heating, TB07, TB09 and the rest of TB08.
StateBits ==
  { <<0, b>> : b \in 0 .. 5 } \cup { <<3, 6>> } \cup { <<7, b>> : b \in 0 .. 3 }
    \cup { <<8, b>> : b \in {1, 2, 3, 4, 6, 7} }

Alarms(data) == { bit \in AlarmBits : bit[2] \in data[bit[1]] }
\* Those of TB08, the battery state, which the comments of decode_eic_data_ count as
\* normal operation as a whole.
BatteryStateAlarms(data) == { bit \in Alarms(data) : bit[1] = 8 }

\* The reserved bits are clear.
OnlyDefined(data) == \A n \in 0 .. 9 : \A b \in data[n] : << n, b >> \in AlarmBits \cup StateBits
=============================================================================
