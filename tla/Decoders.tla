------------------------------ MODULE Decoders ------------------------------
(***************************************************************************)
(* The functions that turn bytes into sensor values, and values into bytes *)
(* on the wire. Each behaviour gives one of them one input: the telemetry  *)
(* decoder of the RS485 BMS; the status decoder of the V2 Bluetooth BMS,   *)
(* its alarm texts and other answers; the loop over the cell voltages and  *)
(* the power, which both have; the register blocks and the event codes of  *)
(* the V3 BMS; a request of the RS485 bus, and a frame of one of the       *)
(* Bluetooth protocols, each perhaps damaged on its way to a receiver.     *)
(***************************************************************************)
EXTENDS Telemetry, CellStatistics

CONSTANTS
  TelemetryInputs,  \* frames of the RS485 BMS and override_cell_count
  StatusInputs,     \* status frames of the V2 BMS, drawn as documented
  CellInputs,       \* cell voltages of a frame
  PowerInputs,      \* current and voltage of a frame
  RegisterInputs,   \* register blocks of the V3 BMS
  EventInputs,      \* event bytes of the V3 BMS
  AlarmInputs,      \* alarm event bytes of the V2 BMS
  AnswerInputs,     \* other answers of the V2 BMS
  RequestInputs,    \* arguments of SeplosModbus::send
  OtherChars,       \* characters another one is damaged to
  FrameInputs,      \* frames of the Bluetooth protocols
  Bursts            \* bits that are damaged, relative to the first of them

VARIABLES stage, input, output

vars == << stage, input, output >>

Status == INSTANCE SingleMachine
Registers == INSTANCE V3RegisterTable
Events == INSTANCE V3Events
Powers == INSTANCE PowerSplit
Texts == INSTANCE AlarmTexts
Answers == INSTANCE V2Frames
Wire == INSTANCE Checksums

ASSUME TelemetryAssumption ==
  TelemetryInputs \subseteq [frame : TelemetryFrame, override : { n \in Nat : n <= 16 }]
\* Two of the temperatures are those of the ambient and the MOSFETs; eight alarm events are
\* always there.
ASSUME StatusAssumption ==
  StatusInputs \subseteq { f \in Status!StatusFrame :
                             f.temps >= 2 /\ f.alarms >= 8 /\ f.size >= Status!DrawnSize(f) }
ASSUME CellAssumption == CellInputs \subseteq CellInput
ASSUME PowerAssumption == PowerInputs \subseteq Powers!PowerInput
ASSUME RegisterAssumption ==
  \A i \in RegisterInputs :
    /\ i.block \in Registers!RegisterBlocks
    /\ i.data \in [0 .. Registers!BlockSize[i.block] - 1 -> Bytes]
ASSUME EventAssumption == EventInputs \subseteq Events!EventBytes
ASSUME AlarmAssumption == AlarmInputs \subseteq Texts!EventSet
ASSUME AnswerAssumption == AnswerInputs \subseteq Answers!V2Frame
\* Where char is signed is up to the compiler.
ASSUME RequestAssumption ==
  RequestInputs \subseteq
    [version : Bytes, address : Bytes, function : Bytes, value : Bytes, signed : BOOLEAN]
\* '\r' would end the frame.
ASSUME CharAssumption == OtherChars \subseteq Bytes \ {Wire!End}
ASSUME FrameAssumption == FrameInputs \subseteq Wire!Frames
ASSUME BurstAssumption == Bursts \subseteq (SUBSET (0 .. 15)) \ {{}}

Init ==
  /\ \/ stage = "telemetry" /\ input \in TelemetryInputs
     \/ stage = "status" /\ input \in StatusInputs
     \/ stage = "cells" /\ input \in CellInputs
     \/ stage = "power" /\ input \in PowerInputs
     \/ stage = "registers" /\ input \in RegisterInputs
     \/ stage = "events" /\ input \in EventInputs
     \/ stage = "alarms" /\ input \in AlarmInputs
     \/ stage = "answer" /\ input \in AnswerInputs
     \/ stage = "request" /\ input \in RequestInputs
     \/ stage = "frame" /\ input \in FrameInputs
  /\ output = << >>

-----------------------------------------------------------------------------
DecodeTelemetry ==
  /\ stage = "telemetry"
  /\ IsTelemetry(input.frame)
  /\ stage' = "telemetry decoded"
  /\ output' = ReadAt(input.frame, input.override)
  /\ UNCHANGED input

LeaveUnhandled ==
  /\ stage = "telemetry"
  /\ ~IsTelemetry(input.frame)
  /\ stage' = "unhandled"
  /\ UNCHANGED << input, output >>

DecodeStatus ==
  /\ stage = "status"
  /\ Status!LongEnough(input)
  /\ stage' = "status decoded"
  /\ output' = Status!Read(input)
  /\ UNCHANGED input

TooShort ==
  /\ stage = "status"
  /\ ~Status!LongEnough(input)
  /\ stage' = "too short"
  /\ UNCHANGED << input, output >>

StartCells ==
  /\ stage = "cells"
  /\ stage' = "cell loop"
  /\ output' = LoopStart(input)
  /\ UNCHANGED input

NextCell ==
  /\ stage = "cell loop"
  /\ output.cell < LastCell(input)
  /\ output' = LoopStep(output, input.voltages[output.cell + 1])
  /\ UNCHANGED << stage, input >>

PublishCells ==
  /\ stage = "cell loop"
  /\ output.cell = LastCell(input)
  /\ stage' = "cells published"
  /\ output' = Statistics(input, output)
  /\ UNCHANGED input

DecodePower ==
  /\ stage = "power"
  /\ stage' = "power decoded"
  /\ output' = Powers!PublishedPower(input)
  /\ UNCHANGED input

DecodeRegisters ==
  /\ stage = "registers"
  /\ stage' = "registers decoded"
  /\ output' = Registers!PublishedOf(input.block, input.data)
  /\ UNCHANGED input

DecodeEvents ==
  /\ stage = "events"
  /\ stage' = "events decoded"
  /\ output' = Events!PublishedEvents(input)
  /\ UNCHANGED input

TellAlarms ==
  /\ stage = "alarms"
  /\ stage' = "alarms told"
  /\ output' = Texts!AlarmText(input)
  /\ UNCHANGED input

DecodeAnswer ==
  /\ stage = "answer"
  /\ Answers!LongEnough(input)
  /\ stage' = "answer decoded"
  /\ output' = Answers!FieldsOf(input)
  /\ UNCHANGED input

\* The texts of the manufacturer information.
PublishTexts ==
  /\ stage = "answer decoded"
  /\ input.function = "manufacturer"
  /\ stage' = "texts published"
  /\ output' = [n \in DOMAIN input.texts |-> Answers!Trimmed(input.texts[n])]
  /\ UNCHANGED input

DropAnswer ==
  /\ stage = "answer"
  /\ ~Answers!LongEnough(input)
  /\ stage' = "answer dropped"
  /\ UNCHANGED << input, output >>

SendRequest ==
  /\ stage = "request"
  /\ stage' = "sent"
  /\ output' = Wire!Send(input.version, input.address, input.function, input.value)
  /\ UNCHANGED input

\* One character between '~' and '\r' arrives as another one.
DamageCharacter ==
  /\ stage = "sent"
  /\ \E k \in 2 .. Len(output) - 1, c \in OtherChars :
       /\ c # output[k]
       /\ output' = [output EXCEPT ![k] = c]
  /\ stage' = "damaged"
  /\ UNCHANGED input

ParseRequest ==
  /\ \/ stage = "sent" /\ stage' = "parsed"
     \/ stage = "damaged" /\ stage' = "damaged parsed"
  /\ output' = Wire!Parsed(output, input.signed)
  /\ UNCHANGED input

SendFrame ==
  /\ stage = "frame"
  /\ stage' = "frame sent"
  /\ output' = Wire!FrameOf(input)
  /\ UNCHANGED input

\* Up to sixteen bits in a row, some of them damaged, in the order the CRC takes them.
DamageFrame ==
  /\ stage = "frame sent"
  /\ \E place \in 0 .. 8 * Len(output) - 1, burst \in Bursts :
       LET bits == { place + b : b \in burst }
       IN /\ Wire!Covered(input.protocol, output, bits)
          /\ output' = Wire!Damaged(input.protocol, output, bits)
  /\ stage' = "frame damaged"
  /\ UNCHANGED input

CheckFrame ==
  /\ \/ stage = "frame sent" /\ stage' = "frame checked"
     \/ stage = "frame damaged" /\ stage' = "damaged frame checked"
  /\ output' = Wire!Checked(input.protocol, output)
  /\ UNCHANGED input

Next ==
  \/ DecodeTelemetry \/ LeaveUnhandled \/ DecodeStatus \/ TooShort
  \/ StartCells \/ NextCell \/ PublishCells \/ DecodePower
  \/ DecodeRegisters \/ DecodeEvents \/ TellAlarms
  \/ DecodeAnswer \/ PublishTexts \/ DropAnswer
  \/ SendRequest \/ DamageCharacter \/ ParseRequest
  \/ SendFrame \/ DamageFrame \/ CheckFrame

Spec == Init /\ [][Next]_vars

-----------------------------------------------------------------------------
\* Every field of a telemetry frame like those the comments quote is read from its place,
\* and no other field is published but the rated capacity: the uint8_t offset never wraps
\* on a frame the bus lets through, and the size guards publish exactly the optional
\* fields that are there.
ReadWhereDocumented ==
  stage = "telemetry decoded" /\ WellFormed(input.frame) /\ CountKnown(input.frame, input.override)
    => AgreesWithDrawing(output, input.frame)

\* The table of on_seplos_modbus_data, cells to frame size; such a frame carries six
\* temperatures and all the optional fields.
DocumentedSizes == { <<8, 65>>, <<14, 77>>, <<15, 79>>, <<16, 81>> }

OfTheTable(frame) ==
  frame.announced = frame.cells /\ <<frame.cells, frame.size>> \in DocumentedSizes /\ frame.temps = 6

\* Every frame of that table is decoded, to its last field, whatever count is configured.
DocumentedSizesAreDecoded ==
  stage \in {"telemetry decoded", "unhandled"} /\ OfTheTable(input.frame)
    /\ CountKnown(input.frame, input.override)
    => stage = "telemetry decoded" /\ OptionalFields \subseteq DOMAIN output

\* on_telemetry_data_ reads every value a frame carries as its comments draw it, and
\* on_seplos_modbus_data passes on to it every frame it knows of.
TelemetryAsDocumented == ReadWhereDocumented /\ DocumentedSizesAreDecoded

\* Every value of a status frame that is decoded is read from where the drawing has it,
\* for every number of cells, temperatures and alarm events, and none is left out for
\* which there is a sensor: no offset of the code forgets a count.
StatusReadWhereDrawn ==
  stage = "status decoded" => output = { v \in Status!Drawn(input) : Status!HasSensor(v) }

\* The test's frame of 8 cells and 4 temperatures, and any other that is as drawn, is
\* decoded without bytes to spare.
StatusAsDrawnIsDecoded == stage # "too short"

\* The numbers published as lowest and highest cell are those of the first cells with the
\* published voltages, and no cell is outside: never those of the frame before.
ExtremesAreCells ==
  stage = "cells published" /\ Fits(input) => TellsExtremes(input.voltages, output)

\* The average lies between the lowest and the highest cell: as many voltages are summed
\* as the sum is divided by.
AverageIsBetween == stage = "cells published" /\ Fits(input) => TellsAverage(output)

\* Both decoders publish of each frame the lowest, highest and average of its own cells.
StatisticsAreOfCells == ExtremesAreCells /\ AverageIsBetween

\* What is published shows a register of the tables: a text fills its field, a number has
\* the table's data type and unit, or does not fit where the decoder reads a signed one.
ShowsRegister(block, data, row, published) ==
  LET shown == Registers!Shown(block, data, row)
  IN /\ row[3] = "ASCII" =>
          \E v \in published :
            v[1] = row[1] /\ Registers!FillsField(block, data, row, v[2])
     /\ row[3] # "ASCII" =>
          \/ << row[1], shown, Registers!FactorOf(row[4]) >> \in published
          \/ row[1] \in Registers!ReadAsSigned /\ shown >= 32768

\* Every register the tables list with a sensor is published with its value and its unit,
\* and no sensor gets two values: no decoder is one register off, takes the words of a
\* 32-bit register the wrong way round or scales by the wrong power of ten.
RegistersAsDocumented ==
  stage = "registers decoded" =>
    /\ \A v, w \in output : v[1] = w[1] => v = w
    /\ \A row \in Registers!Rows[input.block] :
         ShowsRegister(input.block, input.data, row, output)

\* What the two decoders with a voltage and a current of one word publish: the two parts
\* make up the power, and a sensor that tells a direction is not contradicted by a power.
SplitByDirection(published) ==
  LET charged == published.charging_power
      discharged == published.discharging_power
      voltage == published.power[1]
  IN /\ charged[2] >= 0 /\ discharged[2] >= 0 /\ (charged[2] = 0 \/ discharged[2] = 0)
     /\ voltage > 0 => charged[2] - discharged[2] = published.power[2]
     /\ published.directions # << >> =>
          /\ published.directions.charging => discharged[2] = 0
          /\ published.directions.discharging => charged[2] = 0
          /\ ~(published.directions.charging /\ published.directions.discharging)

\* What decode_eia_data_ publishes of the current: its binary sensors say the same as its
\* powers, and a runtime is only given for a battery that is being emptied.
SplitByCurrent(published) ==
  LET value(sensor) == (CHOOSE v \in published : v[1] = sensor)[2]
      charged == value("charging_power")
      discharged == value("discharging_power")
  IN /\ charged[2] >= 0 /\ discharged[2] >= 0
     /\ charged[2] - discharged[2] = value("current")
     /\ value("charging") <=> charged[2] > 0
     /\ value("discharging") <=> discharged[2] > 0
     /\ ~(value("charging") /\ value("discharging"))
     /\ \A v \in published :
          v[1] = "runtime" => value("discharging") /\ v[2][2] = discharged[2] /\ v[2][2] > 0

\* Charging and discharging power are the power, split by its direction: never both, and
\* none at exactly 0 A, which the comment of the V3 decoder calls idle.
PowerIsSplit ==
  /\ stage = "power decoded" => SplitByDirection(output)
  /\ stage = "registers decoded" /\ input.block = "EIA" => SplitByCurrent(output)

\* Every alarm, protection or fault the status tables define, but for the two of the
\* battery state, raises the problem; no state of normal operation does, heating among
\* them, and neither do those two.
AlarmsAreProblems ==
  stage = "events decoded" =>
    LET alarms == Events!Alarms(input) \ Events!BatteryStateAlarms(input)
    IN /\ alarms # {} => output.problem_text = "Problem detected"
       /\ alarms = {} /\ Events!OnlyDefined(input)
            => output.problem_text = "No problems" /\ output.problem_code = {}

\* The four protection flags and the bits of the problem code tell the same story; only
\* the capacity bit has no flag.
FlagsAgreeWithCode ==
  stage = "events decoded" =>
    LET code == output.problem_code
    IN /\ output.voltage_protection <=> 0 \in code
       /\ output.temperature_protection <=> code \cap {1, 2} # {}
       /\ output.current_protection <=> code \cap {3, 4} # {}
       /\ output.system_fault <=> 6 \in code
       /\ output.temperature_event_code \ {6, 7} # {} <=> output.temperature_protection

\* decode_eic_data_ reports what the status tables TB02 to TB06, TB15 and TB16 call an
\* alarm, nothing else, and the same by its text, its code and its flags. The low state of
\* charge of TB08 it does not report.
EventsAsDocumented == AlarmsAreProblems /\ FlagsAgreeWithCode

\* The text names every alarm of the eight events once, in order, with single separators.
AlarmsNamedOnce == stage = "alarms told" => Texts!NamesAlarms(output, input)

\* No decoder reads behind the end of a frame, whatever its size and the number of alarms
\* it announces; of a frame as recorded every alarm event is read, no byte twice, and
\* neither CRC nor end marker is taken for a value; only with fewer than eight alarm
\* events it is dropped.
FieldsAreInFrame ==
  /\ stage = "answer decoded" =>
       /\ \A f \in output : f[2] < input.size
       /\ \A f, g \in output : f # g => Answers!Places(f) \cap Answers!Places(g) = {}
       /\ input.size = Answers!RecordedSize(input) =>
            /\ \A f \in output : Answers!Places(f) \cap Answers!Trailer(input) = {}
            /\ input.function = "parallel" =>
                 \A n \in 1 .. input.alarms : << 46 + n, 46 + n >> \in output
  /\ stage = "answer dropped" /\ input.size = Answers!RecordedSize(input)
       => input.function = "parallel" /\ input.alarms < 8

\* A published text is the field without the blanks that fill it, and keeps those inside.
OnlyPaddingIsTrimmed ==
  stage = "texts published" =>
    \A n \in DOMAIN input.texts :
      LET text == output[n]
          field == input.texts[n]
      IN /\ text = SubSeq(field, 1, Len(text))
         /\ text # << >> => text[Len(text)] # Answers!Blank
         /\ \A k \in Len(text) + 1 .. Len(field) : field[k] = Answers!Blank

\* The bytes of a request, with the length field of the README's example.
BytesSent(request) ==
  << request.version, request.address, 70, request.function, 224, 2, request.value >>

\* A request passes the receiver's own checksum and is read back as the bytes that were
\* sent; with one character damaged it is dropped or still read as those bytes.
RequestReadOrDropped ==
  /\ stage = "parsed" => output = BytesSent(input)
  /\ stage = "damaged parsed" => output \in { << >>, BytesSent(input) }

\* The check of a Bluetooth frame takes what has the CRC in the place and order the
\* sender gives it, and no frame in which up to sixteen bits in a row are damaged.
DamageIsNoticed ==
  /\ stage = "frame checked" => output = TRUE
  /\ stage = "damaged frame checked" => output = FALSE

\* What one side writes the other side takes, and damage is not published as a value: the
\* checksums of the three protocols agree in range, place and order of their bytes.
TransmissionIsChecked == RequestReadOrDropped /\ DamageIsNoticed
=============================================================================
