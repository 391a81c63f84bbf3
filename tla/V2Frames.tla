------------------------------- MODULE V2Frames -------------------------------
(***************************************************************************)
(* The answers of the V2 BMS whose values have fixed places: manufacturer  *)
(* information, settings and parallel data. assemble() passes on a frame   *)
(* of any size up to 200 bytes, and decode() goes by its function alone.   *)
(***************************************************************************)
EXTENDS Integers, Sequences

Texts == Seq(Seq(0 .. 255))

\* Two fields of text and 36 bytes; the custom alarm volume of parallel data.
V2Frame ==
  [function : {"manufacturer"}, size : 10 .. 200, texts : Texts]
    \cup [function : {"settings"}, size : 10 .. 200]
    \cup [function : {"parallel"}, size : 10 .. 200, alarms : 0 .. 255]

Blank == 32

-----------------------------------------------------------------------------
(* What the code does *)

\* Slip: the header is not counted.
LongEnoughWithoutHeader(frame) ==
  frame.size >= CASE frame.function = "manufacturer" -> 38
                  [] frame.function = "settings" -> 138
                  [] frame.function = "parallel" -> 51

\* The guards of the three decoders.
LongEnough(frame) ==
  frame.size >= CASE frame.function = "manufacturer" -> 45
                  [] frame.function = "settings" -> 145
                  [] frame.function = "parallel" -> 58

\* Fields are << first byte, last byte >>.
OneByte(places) == { << p, p >> : p \in places }
Words(first, count) == { << first + 2 * k, first + 2 * k + 1 >> : k \in 0 .. count - 1 }

\* Model, hardware version, software version, protocols, battery type, secondaries.
ManufacturerFields == { << 7, 26 >>, << 27, 36 >> } \cup OneByte(37 .. 42)

\* Bytes of eight bits each, which are logged one by one.
FunctionSwitches == OneByte(136 .. 143)

\* Group and number of parameters, sixty words, six bytes, and the function switches.
SettingsFields == OneByte({7, 8}) \cup Words(9, 60) \cup OneByte(130 .. 135) \cup FunctionSwitches

\* The last eight bytes are the alarm events.
ParallelFields ==
  OneByte({7, 8, 9, 14, 29}) \cup Words(10, 2) \cup Words(15, 7) \cup Words(30, 7)
    \cup OneByte({44, 45, 46}) \cup OneByte(47 .. 54)

\* Events beyond the eighth, when the frame has them all.
CustomEvents(frame) ==
  IF frame.alarms > 8 /\ frame.size > 47 + frame.alarms
  THEN OneByte({ 47 + i : i \in 8 .. frame.alarms - 1 } \cap (0 .. frame.size - 1)) ELSE {}

FieldsOf(frame) ==
  CASE frame.function = "manufacturer" -> ManufacturerFields
    [] frame.function = "settings" -> SettingsFields
    [] frame.function = "parallel" -> ParallelFields \cup CustomEvents(frame)

\* Slip: everything behind the first blank is erased.
TrimmedAtFirst(text) ==
  LET blanks == { n \in 1 .. Len(text) : text[n] = Blank } \cup { Len(text) + 1 }
      first == CHOOSE n \in blanks : \A m \in blanks : n <= m
  IN SubSeq(text, 1, first - 1)

\* erase(find_last_not_of(' ') + 1)
Trimmed(text) ==
  LET others == { n \in 1 .. Len(text) : text[n] # Blank } \cup {0}
      last == CHOOSE n \in others : \A m \in others : m <= n
  IN SubSeq(text, 1, last)

-----------------------------------------------------------------------------
(* The frames esp32-ble-example-faker.yaml has recorded *)

RecordedSize(frame) ==
  CASE frame.function = "manufacturer" -> 46
    [] frame.function = "settings" -> 179
    [] frame.function = "parallel" -> 50 + frame.alarms

\* The places of a field.
Places(field) == field[1] .. field[2]

\* Places of the CRC and the end marker.
Trailer(frame) == frame.size - 3 .. frame.size - 1
=============================================================================
