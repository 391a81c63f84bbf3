----------------------------- MODULE MCDecoders -----------------------------
(***************************************************************************)
(* Instances of Decoders for TLC: many inputs for each function, and the   *)
(* status frames of the test alone.                                        *)
(***************************************************************************)
EXTENDS Decoders, TLC

\* The count that is configured is the right one, none, or another.
MCTelemetryInputs ==
  [frame : [size : {43, 44, 51, 65, 67, 77, 79, 81, 167}, announced : {7, 8, 9, 14, 15, 16},
            cells : 1 .. 16, temps : {0, 2, 6, 7, 56, 57, 255}, other : {6, 255}],
   override : {0, 1, 8, 15, 16}]

\* Status frames as drawn, perhaps with bytes to spare, that assemble() lets through.
AsDrawn(counts, padding) ==
  { f \in { [c EXCEPT !.size = Status!DrawnSize(c) + p] : c \in counts, p \in padding } :
      f \in Status!StatusFrame }

MCStatusInputs ==
  AsDrawn([size : {0}, cells : {0, 1, 7, 8, 9, 14, 15, 16, 17, 23, 24, 25, 32},
           temps : {2, 3, 4, 6, 9, 10, 11}, alarms : {8, 9, 10}], {0, 1, 9, 20})

TestStatusInputs == AsDrawn([size : {0}, cells : {8, 15, 16}, temps : {4, 6}, alarms : {8}], {0})

\* Few cells with few voltages, in any order, and full batteries in which one cell is low
\* and one is high, the same cell perhaps.
MCVoltages ==
  UNION { [1 .. n -> {0, 3300, 65535}] : n \in 0 .. 4 }
  \cup { [c \in 1 .. n |-> IF c = high THEN 3400 ELSE IF c = low THEN 3200 ELSE 3300] :
           n \in {8, 15, 16, 17, 24, 25}, low \in {1, 2, 15, 16, 24}, high \in {1, 2, 8, 16, 24} }

MCCellInputs ==
  { [decoder |-> d, voltages |-> v, before |-> b] :
      d \in {"rs485", "v2"}, v \in MCVoltages, b \in { [min |-> 0, max |-> 0], [min |-> 20, max |-> 3] } }

\* Currents around zero, around the threshold of the V2 decoder and at the ends.
MCPowerInputs ==
  [decoder : {"rs485", "v2"}, voltage : {0, 1, 5300, 65535},
   current : {0, 1, 9, 10, 11, 32767, 32768, 65525, 65526, 65527, 65535}]

\* One word of a block with a byte at a boundary, among bytes that all differ from zero.
MCWords ==
  UNION { { [block |-> b,
             data |-> [n \in 0 .. Registers!BlockSize[b] - 1 |->
                         IF n = 2 * k THEN hi ELSE IF n = 2 * k + 1 THEN lo ELSE ((7 * n) + 3) % 256]] :
              k \in 0 .. (Registers!BlockSize[b] \div 2) - 1,
              hi \in {0, 1, 127, 128, 255}, lo \in {0, 1, 127, 128, 255} } :
            b \in Registers!RegisterBlocks }

\* Currents around zero, with and without capacity and cycles.
MCCurrents ==
  { [block |-> "EIA", data |-> [n \in 0 .. 51 |-> IF n \in 4 .. 7 THEN bytes[n] ELSE other]] :
      bytes \in [4 .. 7 -> {0, 1, 255}], other \in {0, 9} }

MCRegisterInputs == MCWords \cup MCCurrents

\* At most two of the bytes tell an event, each up to two.
MCEventInputs ==
  LET few == { s \in SUBSET (0 .. 7) : \E a, b \in 0 .. 7 : s = {a, b} } \cup {{}}
  IN { [n \in 0 .. 9 |-> IF n = i THEN s ELSE IF n = j THEN t ELSE {}] :
         i \in 0 .. 9, j \in 0 .. 9, s \in few, t \in {{}, {0}, {3}, {5}, {6}, {7}, {2, 6}} }

\* Up to three events, with the bits at the ends of a byte and all of them.
MCAlarmInputs ==
  LET masks == {{}, {0}, {7}, {0, 7}, {3, 4}, 0 .. 7}
  IN { [n \in 1 .. 8 |-> IF n = i THEN s ELSE IF n = j THEN t ELSE IF n = 5 THEN u ELSE {}] :
         i \in {1, 2, 8}, j \in {3, 7, 8}, s \in masks, t \in masks, u \in {{}, {2}} }

\* Texts with blanks in front, inside, behind and nowhere, and with a '\0'.
MCFields == { << 32, 32, 32 >>, << 67, 65, 78 >>, << 67, 32, 78 >>, << 32, 67, 32 >>, << 67, 0, 32 >>, << >> }

MCAnswerInputs ==
  [function : {"manufacturer"}, size : 10 .. 50, texts : { << a, b >> : a, b \in MCFields }]
    \cup [function : {"settings"}, size : {10, 60, 138, 144, 145, 146, 178, 179, 180, 200}]
    \cup [function : {"parallel"}, size : 50 .. 70, alarms : {0, 7, 8, 9, 10, 11, 12, 20, 255}]

MCRequestInputs ==
  [version : {32}, address : {0, 1, 15, 16, 255}, function : {66, 71, 159}, value : {0, 1, 170},
   signed : BOOLEAN]

\* Other digits, characters next to them, lower case, and characters from 128 on.
MCOtherChars == {0, 47, 48, 49, 57, 58, 65, 70, 71, 97, 126, 176, 255}

\* An answer of two registers, the requests for a block of registers and of coils, and
\* two V2 requests.
MCFrameInputs ==
  { [protocol |-> "v3", bytes |-> << {}, {2}, {2}, {7, 3}, {}, {0}, {0, 1, 2, 3, 4, 5, 6, 7} >>],
    [protocol |-> "v3", bytes |-> << {0, 1, 2}, {2}, {1}, {}, {} >>],
    [protocol |-> "v3 request", device |-> 0, function |-> 4, start |-> \h2000, count |-> \h1A],
    [protocol |-> "v3 request", device |-> 224, function |-> 1, start |-> \h1400, count |-> \h50],
    [protocol |-> "v2", function |-> 97, payload |-> << {} >>],
    [protocol |-> "v2", function |-> 81, payload |-> << >>] }

\* Every burst of up to five bits, and some of each longer length.
MCBursts ==
  { s \in SUBSET (0 .. 4) : 0 \in s }
  \cup { {0, n} : n \in 5 .. 15 } \cup { 0 .. n : n \in 5 .. 15 }
  \cup { { b \in 0 .. n : b % 2 = 0 \/ b = n } : n \in 5 .. 15 }
  \cup { { b \in 0 .. n : b % 3 = 0 \/ b = n } : n \in 5 .. 15 }
=============================================================================
