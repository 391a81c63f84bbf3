--------------------------- MODULE CellStatistics ---------------------------
(***************************************************************************)
(* The loop over the cell voltages, in SeplosBms::on_telemetry_data_ and   *)
(* in SeplosBmsBle::decode_single_machine_data_: lowest and highest cell,  *)
(* their numbers, and the sum for the average. Voltages are in mV.         *)
(*                                                                         *)
(* The RS485 decoder starts each frame with cell numbers of zero, the V2   *)
(* decoder keeps them in the object, from the frame before.                *)
(***************************************************************************)
EXTENDS Integers, Sequences

Millivolts == { n \in Nat : n <= 65535 }

\* The decoder, the cells the frame counts, and the cell numbers of the frame before.
CellInput ==
  [decoder : {"rs485", "v2"}, voltages : Seq(Millivolts), before : [min : Nat, max : Nat]]

\* Cells there is room for.
Room(decoder) == IF decoder = "rs485" THEN 16 ELSE 24

\* The count the loop runs to.
LastCell(input) ==
  IF Len(input.voltages) <= Room(input.decoder) THEN Len(input.voltages) ELSE Room(input.decoder)

\* Values before the first cell: 100 V and -100 V.
AboveAll == 100000
BelowAll == -100000

LoopStart(input) ==
  [cell |-> 0, min |-> AboveAll, max |-> BelowAll, total |-> 0,
   min_cell |-> IF input.decoder = "v2" THEN input.before.min ELSE 0,
   max_cell |-> IF input.decoder = "v2" THEN input.before.max ELSE 0]

\* Slip: a cell that is the lowest is not looked at as the highest.
LoopStepElse(loop, voltage) ==
  LET lower == voltage < loop.min
      higher == ~lower /\ voltage > loop.max
      cell == loop.cell + 1
  IN [cell |-> cell, total |-> loop.total + voltage,
      min |-> IF lower THEN voltage ELSE loop.min, min_cell |-> IF lower THEN cell ELSE loop.min_cell,
      max |-> IF higher THEN voltage ELSE loop.max, max_cell |-> IF higher THEN cell ELSE loop.max_cell]

\* One round of the loop.
LoopStep(loop, voltage) ==
  LET lower == voltage < loop.min
      higher == voltage > loop.max
      cell == loop.cell + 1
  IN [cell |-> cell, total |-> loop.total + voltage,
      min |-> IF lower THEN voltage ELSE loop.min, min_cell |-> IF lower THEN cell ELSE loop.min_cell,
      max |-> IF higher THEN voltage ELSE loop.max, max_cell |-> IF higher THEN cell ELSE loop.max_cell]

\* What is published behind the loop: the average as a sum and what it is divided by, by
\* the V2 decoder only when there is a cell.
Statistics(input, loop) ==
  [min_cell_voltage |-> loop.min, max_cell_voltage |-> loop.max,
   min_voltage_cell |-> loop.min_cell, max_voltage_cell |-> loop.max_cell,
   delta_cell_voltage |-> loop.max - loop.min,
   average_cell_voltage |->
     IF input.decoder = "v2" /\ input.voltages = << >> THEN << >>
     ELSE << loop.total, Len(input.voltages) >>]

-----------------------------------------------------------------------------
(* What is promised of the published values, where every cell has a sensor of its own. *)

Fits(input) == input.voltages # << >> /\ Len(input.voltages) <= Room(input.decoder)

\* The cell numbers are those of the first cells with the published voltages, and no
\* voltage is outside.
TellsExtremes(volts, published) ==
  /\ published.min_voltage_cell \in DOMAIN volts
  /\ published.max_voltage_cell \in DOMAIN volts
  /\ volts[published.min_voltage_cell] = published.min_cell_voltage
  /\ volts[published.max_voltage_cell] = published.max_cell_voltage
  /\ \A c \in DOMAIN volts :
       /\ published.min_cell_voltage <= volts[c] /\ volts[c] <= published.max_cell_voltage
       /\ volts[c] = published.min_cell_voltage => published.min_voltage_cell <= c
       /\ volts[c] = published.max_cell_voltage => published.max_voltage_cell <= c
  /\ published.delta_cell_voltage >= 0

TellsAverage(published) ==
  LET average == published.average_cell_voltage
  IN /\ published.min_cell_voltage * average[2] <= average[1]
     /\ average[1] <= published.max_cell_voltage * average[2]
=============================================================================
