------------------------------ MODULE Telemetry ------------------------------
(***************************************************************************)
(* Where SeplosBms::on_telemetry_data_ finds the values of a telemetry     *)
(* frame, against the layout its comments document.                        *)
(*                                                                         *)
(* The cells and the temperatures are counted in the frame, so every value *)
(* behind them has a place of its own in each battery. The code walks      *)
(* there with a uint8_t offset, may be told to count the cells             *)
(* differently (override_cell_count), and looks at the size of the frame   *)
(* only before the last three values.                                      *)
(***************************************************************************)
EXTENDS Naturals

\* Bytes of the largest frame SeplosModbus passes on: 340 characters without
\* '~' and checksum, two to a byte.
MaxFrameSize == (340 - 5) \div 2

Bytes == { n \in Nat : n <= 255 }

(***************************************************************************)
(* A frame: its size, the cell count it announces in byte 8, the cells and *)
(* temperatures it really carries, and what any other byte reads as when   *)
(* it is taken for the temperature count.                                  *)
(***************************************************************************)
TelemetryFrame ==
  [size : 1 .. MaxFrameSize, announced : Bytes, cells : 1 .. 16, temps : Bytes, other : Bytes]

Cell(i) == <<"cell_voltage", i>>
Temperature(i) == <<"temperature", i>>

\* Places relative to the first byte behind the temperatures.
MainFields ==
  { <<"current", 0>>, <<"total_voltage", 2>>, <<"residual_capacity", 4>>,
    <<"battery_capacity", 7>>, <<"state_of_charge", 9>>, <<"rated_capacity", 11>> }
RatedCapacity == <<"rated_capacity", 11>>
OptionalFields ==
  { <<"charging_cycles", 13>>, <<"state_of_health", 15>>, <<"port_voltage", 17>> }

AtMost(n, limit) == IF n <= limit THEN n ELSE limit

Fields ==
  { Cell(i) : i \in 1 .. 16 } \cup { Temperature(i) : i \in 1 .. 6 }
    \cup MainFields \cup OptionalFields

-----------------------------------------------------------------------------
(* What the code does *)

\* on_seplos_modbus_data takes a frame for telemetry by size and announced cells.
IsTelemetry(frame) == frame.size >= 44 /\ frame.announced \in 8 .. 16

CellCount(frame, override) == IF override # 0 THEN override ELSE frame.announced

\* offset, a uint8_t, behind the cells: where the temperature count is read.
TempsOffset(frame, override) == (9 + 2 * CellCount(frame, override)) % 256

TempCount(frame, override) ==
  IF TempsOffset(frame, override) = 9 + 2 * frame.cells THEN frame.temps ELSE frame.other

\* Slip: the temperature count itself is not stepped over.
MainOffsetOnCount(frame, override) ==
  (TempsOffset(frame, override) + 2 * TempCount(frame, override)) % 256

\* offset behind the temperatures.
MainOffset(frame, override) ==
  (TempsOffset(frame, override) + 1 + 2 * TempCount(frame, override)) % 256

\* Slip: a value counts as present when its first byte is.
PresentByFirstByte(frame, override) ==
  MainFields \cup
  { f \in OptionalFields : frame.size >= MainOffset(frame, override) + f[2] + 1 }

\* Fields behind the temperatures that are published: three early returns.
Present(frame, override) ==
  MainFields \cup
  { f \in OptionalFields : frame.size >= MainOffset(frame, override) + f[2] + 2 }

\* Every field the decoder publishes.
Published(frame, override) ==
  { Cell(i) : i \in 1 .. AtMost(CellCount(frame, override), 16) }
    \cup { Temperature(i) : i \in 1 .. AtMost(TempCount(frame, override), 6) }
    \cup Present(frame, override)

\* The first of the two bytes a published field is read from.
ReadAt(frame, override) ==
  [f \in Published(frame, override) |->
     IF f \in { Cell(i) : i \in 1 .. 16 } THEN 9 + 2 * (f[2] - 1)
     ELSE IF f \in { Temperature(i) : i \in 1 .. 6 }
          THEN TempsOffset(frame, override) + 1 + 2 * (f[2] - 1)
     ELSE MainOffset(frame, override) + f[2]]

-----------------------------------------------------------------------------
(* What the comments of on_telemetry_data_ document *)

\* The first byte behind the cells and the temperatures of the frame.
MainStart(frame) == 10 + 2 * frame.cells + 2 * frame.temps

\* A frame like the two the comments quote: the values up to the state of charge are
\* there. The second of them (Boqiang, 65 bytes) ends behind it, the first goes on.
WellFormed(frame) == MainStart(frame) + 11 <= frame.size

\* The cell count in use is the right one, announced or configured.
CountKnown(frame, override) == CellCount(frame, override) = frame.cells

\* The fields the frame carries and where.
DocumentedAt(frame) ==
  [f \in { Cell(i) : i \in 1 .. frame.cells }
           \cup { Temperature(i) : i \in 1 .. AtMost(frame.temps, 6) }
           \cup { f \in MainFields \cup OptionalFields :
                    MainStart(frame) + f[2] + 2 <= frame.size } |->
     IF f \in { Cell(i) : i \in 1 .. 16 } THEN 9 + 2 * (f[2] - 1)
     ELSE IF f \in { Temperature(i) : i \in 1 .. 6 } THEN 8 + 2 * frame.cells + 2 * f[2]
     ELSE MainStart(frame) + f[2]]

\* Every value the frame carries is read from its place, and none it does not carry,
\* but for the rated capacity, which is read of a frame that ends before it too.
AgreesWithDrawing(read, frame) ==
  LET drawn == DocumentedAt(frame)
  IN /\ DOMAIN drawn \subseteq DOMAIN read
     /\ DOMAIN read \subseteq DOMAIN drawn \cup {RatedCapacity}
     /\ \A f \in DOMAIN drawn : read[f] = drawn[f]
=============================================================================
