# TLA+ models of the Seplos BMS components for ESPHome

The repository turns an ESP32 into a gateway between Seplos battery management
systems (BMS) and Home Assistant. Three generations of the protocol have a
component of their own; all of them ask, wait for an answer that comes in
pieces over an unreliable medium, take it apart and publish sensors.
This directory holds specifications of that behaviour, instances of them for TLC
and proofs checked by TLAPS.

ESPHome calls every component from one main loop, and each callback runs to
completion. A handler is therefore one atomic action; what interleaves are
handlers with one another, with the timers of `PollingComponent`, with the
events of the Bluetooth stack or the bytes of the serial line, and with the BMS.

## 1. Inventory

| part | source | state | operations | talks to |
|---|---|---|---|---|
| V3 BLE client | `components/seplos_bms_v3_ble` | `node_state`, handles, `frame_buffer_`, `next_command_`, `pending_reg_start_`, `dynamic_command_queue_`, `pack_count_`, online sensor | `update`, `gattc_event_handler` (open, search complete, register for notify, notify, disconnect), `assemble`, `decode`, `send_command_`, `build_dynamic_command_queue_` | BLE stack, packs |
| V3 pack | `components/seplos_bms_v3_ble_pack` | address, its sensors | `on_frame_data`, `decode_pack_pi{a,b,c}_data_` | called by the V3 client |
| V2 BLE client | `components/seplos_bms_ble` | `frame_buffer_`, `next_command_`, handles, switch | the same events, `assemble`, `decode`, settings, parallel and single machine decoders, `send_command` | BLE stack, switch |
| V2 switch | `components/seplos_bms_ble/switch` | `state` | `write_state` | V2 client |
| serial bus | `components/seplos_modbus` | `rx_buffer_`, `last_seplos_modbus_byte_`, devices | `loop`, `parse_seplos_modbus_byte_`, `send` | UART, devices |
| RS485 BMS | `components/seplos_bms` | `no_response_count_`, sensors | `update`, `on_seplos_modbus_data`, `on_telemetry_data_`, `track_online_status_` | serial bus |
| configuration | `__init__.py`, `sensor.py`, ... of each | none at run time | code generation; unique pack addresses | - |
| emulator, examples, docs, CI | the rest | - | - | - |

### What is hard in this code

* **V3 client.** An answer does not say which registers it carries: `decode()`
  believes `pending_reg_start_`. That belief must survive polls in the middle of
  a chain, reconnects, lost fragments, exceptions. `next_command_` is moved by three
  handlers. A lost answer leaves the chain hanging until the next poll.
* **V3 pack.** The decoder is picked by device and by payload length only.
* **V2 client.** Any valid frame, the answer to a switch command included, moves the
  chain on; a fragment starting with `0x7E` throws the buffer away.
* **Serial bus.** A frame ends at a carriage return and starts at a `~`, but a
  `~` in the middle does not restart it; the time-out is taken once per
  `loop()`, before bytes that may have waited in the UART; polls of several
  devices are written without regard to one another.
* **RS485 BMS.** Each value behind the cells sits where the frame's own counts
  put it; the size is looked at only before the last three values. Offline is
  decided by counting polls, reset by any frame from the address.

What makes each part correct:

* a client asks the commands of its queue in order, one at a time, for ever, and
  publishes an answer under the right name, whatever was lost before;
* a lost connection leaves nothing for the next one;
* a frame that arrives undisturbed reaches the devices of its address, a broken one
  is forgotten and costs no more than the frames it ran into;
* a device is offline exactly when its BMS is silent, and then shows nothing;
* every value is read where the protocol puts it.

`PROJECT.json` lists the hazards line by line, each with the properties that cover it.

## 2. Plan

| module | what | state |
|---|---|---|
| `V3Protocol`, `SeplosBmsV3Ble`, `PollChain` | V3 client with packs, and the abstract poll chain it implements | modelled, checked, proved |
| `SeplosModbus` | the serial line character by character: UART, time-out, framing | modelled, checked, proved |
| `SeplosBms` | online status and published values of RS485 devices | modelled, checked, proved |
| `Rs485` | polls, bus and devices composed; implements both | modelled, checked, proved |
| `SeplosBmsBle` | V2 client and switch | modelled, checked, safety proved |
| `Decoders` | every function between bytes and values, one input each; uses the modules below | modelled, checked, proved |
| `Telemetry` | layout of the RS485 telemetry frame | modelled, checked, proved |
| `SingleMachine` | layout of the V2 status frame | modelled, checked, proved |
| `CellStatistics` | lowest, highest and average cell (RS485, V2) | modelled, checked, proved |
| `PowerSplit` | charging and discharging power (RS485, V2) | modelled, checked, proved |
| `V3Registers`, `V3RegisterTable` | values of the V3 system and pack blocks, and the tables of the documentation | modelled, checked, proved |
| `V3Events` | flags and problem code of the V3 event bytes | modelled, checked, proved |
| `AlarmTexts` | text of the V2 alarm bytes | modelled, checked, proved |
| `V2Frames` | the other answers of the V2 BMS, and their texts | modelled, checked, proved |
| `Checksums` | LENID, CHKSUM, CRC-16, CRC-XMODEM and hex, as senders and receivers use them | modelled, checked, proved |

The `...Proofs` modules hold the theorems, the `MC...` modules and `.cfg` files the instances
for TLC.

## 3. Modules and code

Every module models handlers as actions. What follows says where the state and the
actions come from; `PROJECT.json` maps each definition to its lines.

### `SeplosBmsV3Ble` (with `V3Protocol`)

State: `node_state`, `frame_buffer`, `next_command`, `pending_reg_start`,
`command_queue`, `pack_count`, `online` are the fields of the class; `sensors` says for
each group of sensors which command's answer it shows. `link`, `requests`, `air`,
`taken` belong to the Bluetooth stack and the BMS.

| action | code |
|---|---|
| `Update` (`PacedUpdate`) | `update()`: builds the queue once, writes command 0, position 1 |
| `Connect`, `SearchComplete`, `RegForNotify`, `Disconnect` | the cases of `gattc_event_handler`; `Disconnect` ends with `ForgetProgress` |
| `Notify` | `ESP_GATTC_NOTIFY_EVT`: `assemble()`, `decode()`, packs' `on_frame_data()`, next command |
| `Answer`, `StaySilent`, `LoseNotification` | BMS and radio |

A buffer is its size, the length its header announces and the frame it is a prefix of.
A CRC is right exactly when the announced bytes are one whole frame. An answer carries what the
BMS has of its block (`DataBytes`): registers as many as were asked for, coils as recorded, 10 bytes
for SFA and 18 for PIC. Neither is what the decoder wants.

### `SeplosBmsBle`

The same events for V2, and `WriteState` for `SeplosSwitch::write_state()`. `switches` is
what the switches show, `mosfets` what the BMS has. An answer carries the state the
switches had when it was made and the places where a notification begins with the data
byte `0x7E` (`false_starts`). It is not an instance of `PollChain`: the answer to a switch
command moves the queue on, so two commands may be under way and a command may be asked
before the one before it was answered.

### `SeplosModbus`

Characters go through `line` (being sent), `uart` (waiting) and `rx_buffer`. `loop()` is
`LoopBegin` (takes the time, clears the buffer after the time-out), a `ReadChar` for every
character and `LoopEnd`. `age` is `now - last_seplos_modbus_byte_`, `lap` the time since
`loop()` began, which is the age of every stamp made in it. `quiet` and `seen` are history:
they exist so that properties can say "arrived without a gap" and have no influence.
`EndFragment` is the `'\r'` that comes too early for a checksum: `data_len` wraps and the sum
runs behind the buffer, which either drops the fragment or restarts the program.

### `SeplosBms`

`Update(d)` is `update()` of a device with `track_online_status_()`, `Receive(f)` is
`on_seplos_modbus_data()` of all devices with the address of the frame. `silent` and `notices`
are history. A value is represented by the frame `f` it was read from, by `Overread(f)` if part of it
lies beyond the end of `f`, or by `NaN`. A frame may say anything of its cells and temperatures;
`WellFormed` are those that reach at least to the state of charge, as both frames do that the
comments of the decoder quote. `Restart` sets everything back: the program starts anew.

### `Rs485`

Instances of `SeplosModbus` and `SeplosBms` on one half-duplex line: `Poll` is `update()` of a
device, which writes whatever the line is doing; `Read` is a character and, when it
completes a frame, the dispatch in the same step. When the fragment of a frame restarts the
program (`EndFragment`), the devices start anew with the bus.

### `Decoders`

The decoders are functions: what could be wrong in them is the place, the sign, the unit or the
condition of a value. Each behaviour of `Decoders` takes one input (a frame, a block, a set of
event bytes), applies one function of the code to it and stops; the invariants compare the
result with an independent statement of what it should be. Three functions take several
steps: the loop over the cells (`NextCell`), a request and a frame, which are written, perhaps
damaged, and checked by the receiver.

| module | what the code does | what it is compared with |
|---|---|---|
| `Telemetry` | `ReadAt`: places `on_telemetry_data_()` computes with its 8-bit `offset` | `DocumentedAt`: the layout its comments draw (`AgreesWithDrawing`) |
| `SingleMachine` | `Read`: places of `decode_single_machine_data_()` | `Drawn`: the frame drawn in its comments and test |
| `CellStatistics` | `LoopStep`, `Statistics`: the loop with `min_cell_voltage_`, ... | `TellsExtremes`, `TellsAverage`: the cells themselves |
| `PowerSplit` | `PublishedPower` | `SplitByDirection`: parts make up the power, directions agree |
| `V3Registers` | `PublishedOf`: offset, sign, word order, factor of every sensor of EIA, EIB, VIA, PCT, SPA1, SPA2, PIA, PIB | `V3RegisterTable`: address, type and unit in `docs/XZH BMS Modbus-RTU Protocol.md` |
| `V3Events` | `PublishedEvents`: the flags and codes of `decode_eic_data_()` | status tables TB02 to TB09, TB15 and TB16 of the same document, TB08 included |
| `AlarmTexts` | `AlarmText`: `decode_all_alarm_events_()`, its loops over bits and bytes | `NamesAlarms`: each active alarm once, in order |
| `V2Frames` | guards and fields of the manufacturer, settings and parallel decoders; `Trimmed` | frames recorded in `esp32-ble-example-faker.yaml`: fields inside, apart, not in the CRC |
| `Checksums` | `Send`, `Parsed`, `crc16`, `crc_xmodem`, ... | what a checksum is for: read back as sent, damage noticed |

In `V3Events`, `AlarmTexts` and the CRCs a byte is the set of its bits and exclusive or a symmetric
difference, which the provers handle; in the character sum a byte is a number.

## 4. Runs

Numbers are distinct states on the bounds of the configuration.

| run | states | what it shows |
|---|---|---|
| `v3_any_poll` | 167 000 | polls at any moment, split answers, losses, exceptions, reconnects: position in the queue, pending block is the last one written, nothing survives a disconnect, buffer below a frame, a pack shows only its own answers |
| `v3_paced_poll` | 88 000 | full command table, three packs, polls that wait for the answers: one command under way, system values are of their own block, the client implements `PollChain`, stale bytes do not stay, the chain completes again and again, every group but SFA, PIC and those of the pack at address 0 is filled |
| `v3_coils` | violated | neither SFA nor PIC answers are ever decoded (two findings) |
| `decoders` | 225 000 | counted frames (RS485 telemetry, V2 status) read where they are drawn; lowest, highest and average are those of the cells; power split by direction; register blocks and event codes of V3 as in the tables; alarm texts; the other V2 answers read inside the frame; requests and frames arrive as sent or are noticed as damaged |
| `modbus_any` | 562 000 | an undisturbed frame is delivered, a broken one is forgotten after the time-out, the inductive invariant holds |
| `bms_devices` | 24 000 | three devices, two with one address, and restarts: offline exactly when silent, noticed once, nothing shown while offline, values of one frame, read beyond its end only where nothing guards them |
| `bms_quoted_frame` | violated | a rated capacity is read beyond the end of a frame the comments quote (finding) |
| `rs485_any_poll` | 873 000 | two devices polling into one another's answers: an undisturbed answer takes its devices online at once |
| `rs485_liveness` | 273 000 | a BMS that is there ends up online, one that is gone ends up offline, one fault costs at most two answers |
| `v2_client` | 115 000 | an undamaged answer is decoded whatever came before; the chain completes again and again and the switches converge |
| `v2_flush` | violated | a data byte `0x7E` flushes the buffer in the middle of a frame (finding) |
| `v2_status_size` | violated | status frames of fewer than 16 cells, as drawn, are dropped (finding) |

### Bounds

* *Faults* (`MaxFaults`, 1 to 3): two are enough to meet a fault while recovering from
  another; the invariants that are proved hold for any number. They are finite because an
  endless stream of faults justifies any silence.
* *Outstanding commands* (`MaxOutstanding`, `MaxRequests`): two allow every order of a late
  answer and a newer command, three a poll on top. A write beyond them is lost, as a
  full link loses it.
* *Notification sizes* (`Mtu` 60, 87, 260): chosen against the answer lengths, so that
  answers take one to four notifications. V2's settings answer of 179 bytes takes
  87 + 87 + 5, a last one shorter than a header.
* *Stray lengths*: what bytes that are no header announce: less than is there, something
  plausible, more than a frame may have.
* *Serial line*: frames of four characters with a checksum of one are shorter than the
  code's (22 at least, checksum 4); nothing depends on the length but the comparison with
  `ChecksumChars` and `MAX_RESPONSE_SIZE`, and both sides of both occur. Time-out 2 or 3 ticks
  with a loop of 1: pauses fall before, into and behind the doubtful zone. UART of 1, 2, 4
  characters: characters wait over a `loop()`; one that finds the UART full counts as lost.
* *Clocks* are capped where no guard tells values apart (`MaxAge`, `MaxQuiet`).
* *Telemetry and status*: all cell counts; sizes around every guard; counts at which the 8-bit
  offset would wrap.
* *Frames of the devices*: the two quoted ones, one that ends inside its first optional value, one that
  is shorter than its counts say, one that is no telemetry; cell counts announced, configured right
  and configured wrong.
* *Cells*: none to four cells in every order of an empty, a usual and the largest voltage; 8
  to 25 cells with the lowest and highest at either end and at the end of the code's room (16, 24).
* *Registers*: every word of every block with each byte 0, 1, 127, 128, 255 while all other
  bytes differ, so that a wrong place, order or sign shows; currents around 0 A, with
  and without capacity and cycles (the quotients' guards).
* *Power*: currents around zero, around the 0.1 A of the V2 decoder and at the ends of a word.
* *Event and alarm bytes*: up to two (three) bytes with up to two bits each or all of them.
* *Other answers*: every size around the guards and the recorded sizes; alarm counts from 0 to 255;
  texts with blanks in front, inside and behind, and a `'\0'`.
* *Damage*: any character between `~` and `\r` of a request replaced by digits, their
  neighbours, lower case or a character above 127, with `char` signed (host tests) and unsigned
  (ESP32); any burst of up to five bits and several of each length up to sixteen at every
  place of a Bluetooth frame that the CRC covers.

### Fairness

* `update()`: `PollingComponent` sets an interval timer that fires for ever: weak fairness
  for the clients. In `Rs485` polls are possible only between two rounds of `loop()` and when
  the line is settled, which comes and goes: strong fairness, for a timer that stays due
  until it is served.
* BMS: `Answer \/ StaySilent`, stack: `Notify \/ LoseNotification`; either may choose the bad
  outcome as long as it has faults left. No fairness brings a connection up: liveness
  properties of the clients have the premise `<>[]Healthy`.
* main loop, UART: `LoopEdge`, `Read`, `Transfer` weakly fair.
* V2's premise `Undisturbed` also asks that in the end polls wait for the answers and
  nobody presses a switch; V3 has the same as `PacedUpdate`.

Paced polls are an assumption about the configuration: the update intervals of the
examples are seconds, answers take milliseconds. Without it `SystemValuesAreTheirOwn` is
false for V3: the poll moves `pending_reg_start_` under an answer that is on its way, and the
answer is decoded as another block. This is listed as a hazard, not as a finding, since
nothing in the repository promises otherwise.

## 5. Proofs

| theorem | says |
|---|---|
| `SeplosBmsV3BleProofs!TypeCorrect` | `TypeOK` |
| `SeplosBmsV3BleProofs!PendingCorrect`, `OfflineClean`, `BufferBounded`, `PackValuesCorrect` | the invariants of `v3_any_poll` |
| `SeplosBmsV3BleProofs!OneUnderWay`, `SystemValuesCorrect`, `ImplementsPollChain` | the safety part of `v3_paced_poll`, refinement included |
| `SeplosBmsBleProofs!TypeCorrect`, `ClientCorrect`, `UndamagedDecoded` | the safety part of `v2_client` |
| `SeplosModbusProofs!TypeCorrect`, `LineCorrect`, `BrokenFramesForgotten`, `UndisturbedDelivered` | all of `modbus_any` |
| `SeplosBmsProofs!DeviceTypeCorrect`, `OfflineExactlyWhenSilent`, `UnavailableOnce`, `NothingShownOffline`, `OverreadsOnlyUnguarded`, `OneFrame` | all of `bms_devices` |
| `TelemetryProofs!DecodesAsDocumented` | `AgreesWithDrawing` for every frame that reaches to the state of charge: each value it carries is read from its place, and nothing else but the rated capacity |
| `TelemetryProofs!GuardedReadsInside`, `DocumentedReadsInside` | which fields are never read beyond the end of a frame, of any telemetry frame and of a documented one |
| `DecodersProofs!TelemetryCorrect` | the telemetry part of `decoders` |
| `DecodersProofs!CellsCorrect` | the cell loop, for any number of cells and any voltages |
| `DecodersProofs!EventsCorrect` | the V3 events, for all ten bytes; TB08 is not reported |
| `DecodersProofs!RegistersCorrect` | `RegistersAsDocumented`, for every block and all bytes of its answer |
| `DecodersProofs!PowerCorrect` | `PowerIsSplit`, for every voltage and current |
| `DecodersProofs!TextsCorrect` | `OnlyPaddingIsTrimmed`, for texts of any length |
| `DecodersProofs!AnswersAreReadInside` | `FieldsAreInFrame`, for every size and alarm count |
| `DecodersProofs!StatusCorrect` | `StatusReadWhereDrawn`, for every number of cells, temperatures and alarm events |
| `DecodersProofs!AlarmsCorrect` | `AlarmsNamedOnce`, for all eight event bytes |
| `TransmissionProofs!TransmissionCorrect` | `TransmissionIsChecked`, for every request and frame, either kind of `char`, every damaged character and every burst of up to sixteen bits |
| `Rs485Proofs!ImplementsBus`, `ImplementsDevices`, `DevicesBehave`, `DeliveredOnline` | the composition implements its parts, and `rs485_any_poll` |
| `Rs485Proofs!SilenceExcused` | `FaultsExcuseSilence`, the safety part of `rs485_liveness` |
| `Rs485Proofs!NeverGivenUp` | with few faults (below) the device of a BMS that is there never goes offline |

Assumptions are those named in the modules: types of the constants, a notification of at
least 20 bytes (smallest ATT MTU), answers of 10 to 200 bytes (V2), unique pack addresses,
a queue below 256 commands (V3, `next_command_` is a `uint8_t`), registers of switches among
1, 2, 4, 8 (V2), addresses below 256 and a limit of at least one unanswered poll (RS485).
`SilenceExcused` and `NeverGivenUp` have a premise of their own, `RoomAndTime`: a request is heard,
every answer fits the buffer, and the time-out is at least two rounds of `loop()` (by default 150 ms
against some 16 ms). `NeverGivenUp` also asks for `FewFaults`, `2 * MaxFaults + 1 <
MAX_NO_RESPONSE_COUNT`: with the five polls of the code, one fault. Both speak of `LiveSpec`,
of polls that wait for the answers.

Along which argument:

* **V3.** `ConnectionInv` = the client believes in a connection exactly while there is one /\
  `OfflineIsClean` /\ `PendingIsLastWritten`. The last one needs the other two: REG_FOR_NOTIFY
  writes command 0 without counting it, which is right only because the disconnect reset the
  position. `PackValuesAreItsOwn` needs only that an intact buffer is a prefix of one frame
  (in `TypeOK`). For paced polls `PacedInv` adds `AtMostOneUnderWay` (a
  request or an answer, of the pending block) and that nothing is under way offline; the refinement maps
  `position <- next_command`, `waiting <- ~Quiet`.
* **V2.** `ClientInv` = `LinkAgrees` /\ `OfflineIsClean` /\ `PartInBuffer`. The first
  notification of a frame flushes the buffer; each following one is appended to exactly the
  bytes before it; so when the last one of an undamaged answer comes, the buffer is
  that answer, whatever was there before it began. V3 has no such start mark and no such
  theorem.
* **Bus.** `LineInv` = `Clocks` /\ `SeenIsBuffered`. `Clocks` relates the time since the last
  arrival (`quiet`), the stamp (`age`) and the round of `loop()` (`lap`): a pause of at most
  `rx_timeout - 2 * LoopTime` never times out, one of more than `rx_timeout + 2 * LoopTime`
  always does, in between either. `SeenIsBuffered` says what came without a gap is in
  the buffer.
* **Devices.** `TrackerInv`: the counter equals the number of unanswered polls, and is past
  its limit exactly when the device was given up. For what is shown, `StepShows` says what a step can
  make of a device's sensors; `OverreadsOnlyUnguarded` then rests on `GuardedReadsInside` (the 44 bytes
  that make a frame telemetry hold sixteen cells, the last three values are looked for) and on
  `DocumentedReadsInside`. Neither it nor `OneFrame` assumes anything of the frames.
* **Composition.** Each step of `Rs485` is a step or stutter of the bus and of the devices, so
  their theorems carry over; `DeliveredOnline` then combines both in the step of `Read`.
* **What a fault costs.** `FaultsExcuseSilence` is not inductive: that the count of unanswered
  polls is within its bound does not say that the next answer arrives. `ExcuseInv` says in which of
  three situations a device is: a fault is still to its credit (`FaultLeft`); or its next answer
  will not run into the rest of something else (`InStep`, on a line that is `Settling`: what is
  received and waits in the UART leaves nothing behind); or the answer to the last poll is
  due and cannot be spoiled but by a new fault (`AnswerDue`, with `OnItsWay`: what is in the buffer, in
  the UART and still to be sent is the whole frame, and no pause in it is long enough for the
  time-out). So a fault costs the answer it spoils and the one that runs into what it left.
  `SentIsOnItsWay`, `OnItsWayArrives`, `OnItsWayLoops`, `OnItsWayTicks` and `OnItsWayRead` are
  the steps of the bus. `NeverGivenUp` follows with `OfflineExactlyWhenSilent` of the devices.
* **Decoders.** `StageInv` says for each stage what the output is: the function applied to the
  input, and for the cell loop `LoopKnows`: after `cell` rounds minimum and maximum bound the first
  `cell` voltages, are taken at the smallest such cell, and the total lies between `cell` times
  either. The other theorems are then facts about the operators: the telemetry
  layout from `TelemetryProofs`, the events by going through bits, the places of an answer
  from arithmetic on its fields. For the registers, `RowsHaveFields` finds for each row of the
  tables the decoder's field with its place, type and unit, `FieldShows` and `TextFills` compute
  what such a field reads from any bytes, and `FieldsUnique` and `DerivedUnique` show that no
  two values have one name, on which the directions of the power (`EiaSplit`) rest too.

* **Recursive functions.** `AlarmText`, the places of the status frame and the checksums are
  recursive functions over a range of numbers. Induction over the naturals as the library
  states it takes an operator and cannot be used; instead `Smallest` gives the least member of a set of
  naturals (from the well-foundedness of `<` on them), `Onward` that a set with 0 and the successor of
  each member has them all, and `Recursion` that a function defined by such a recursion exists, is unique and
  follows its steps. The theorems below rest on these three.
* **Status frame.** `CodeRead` and `DrawnRead` say of code and drawing, value by value, in which
  group it is and at which place (`GroupPlace`, the sum of the sizes of the groups before it);
  both then are one formula (`OneRead`).
* **Alarm texts.** `NamesMore`: behind a text that names the alarms of a set, a separator
  and a text that names later alarms make a text that names all of them. The loop over the bits
  keeps "a text of the bits so far, a separator behind it", the one over the events "a text of the
  events so far"; that the count of tokens fits the number of alarms needs the sets to be apart.
* **Transmission.** `TransmissionInv` says for each stage what is on the wire. The character sum:
  one other character changes the sum by less than 256 and so the 16-bit sum and its complement
  (`SumsDiffer`); a damaged checksum either is read as the same number, and the data with it, or the
  frame is dropped. The CRCs: a shift of a symmetric difference is the difference of the shifts
  and loses nothing. The registers behind a message and behind the damaged one are equal up to
  the damage; from there on their difference never is what the damage still to come would cancel
  (`Differ`), because sixteen bits in a row stand in different places of the register; behind the
  last damaged bit the registers therefore differ, and nothing behind it makes them equal again.
  `TrailerNoticed` does the same where the damage reaches into the CRC itself.

Only model-checked: liveness (`AliveComesOnline` and `GoneGoesOffline` of
`rs485_liveness`, the liveness part of `v3_paced_poll` and `v2_client`), because the prover does not reason about fairness, and the
violations. Every invariant of every passing run is a theorem.

## 6. Findings

* `v3_coils`, PIC: `on_frame_data()` is told the one-byte length of the answer and compares it with 288. A
  PIC answer carries 18 bytes; no answer is decoded as PIC.
* `v3_coils`, SFA: the guard of `decode_sfa_data_()` asks for 20 bytes; the block has ten switches of one
  byte each, and the recorded answers carry ten or are exceptions. (The request asks for 16 times the
  coils of the block, like that of PIC.) Nothing but the log depends on it.
* `v2_flush`: "Flush buffer on every preamble (start of frame)" flushes on a data byte as
  well. With settings that have the byte `0x7E` where a notification begins, settings never
  arrive and nothing behind them in the queue is ever asked; `ChainKeepsCompleting`
  holds only because the model counts such an answer as one of finitely many faults.
* `bms_quoted_frame`: the second frame quoted in the comments (Boqiang, 65 bytes, 16 cells and 6
  temperatures) ends behind the state of charge; the code takes it for telemetry and publishes a
  rated capacity from the two bytes behind its end. `OnlyUnguardedOverread` says that of such frames
  this is the only value, and of frames shorter than their own counts say, which values are.
* `v2_status_size`: the guard of the status decoder asks for the bytes of 16 cells
  whatever the number of cells.

Seen while modelling, without a run of their own: the warning that the queue "was not
completely processed" appears at every poll after a complete chain, in V2 and V3 (a log
line); the `errors` text stays "Offline" after a device came back; a pack left at address 0
is polled, but decoded as the ECU; a comment at `seplos_bms_v3_ble.h:288` speaks of
building the queue at another moment than the code does; a status answer that was under
way when a switch was pressed turns the shown state back until the next poll; V3
has no start mark, so after a lost notification answers of several notifications can
stay out of step with the buffer: it is emptied again and again
(`StaleBytesAreFlushed`), but but that the chain completes holds only
where the answer to EIA, the first of the chain, fits one notification (57 bytes; `v3_paced_poll` has 60). With
less, the part of it that a flush leaves may announce, by a data byte, a length at which the
same part is left again, at every poll.

In the decoders:

* *V2 averages.* With more than 24 cells the sum stops at 24 but is divided by the
  count (`StatisticsAreOfCells` assumes that every cell has a sensor). The average of the
  temperatures has the same shape (not modelled). With no cells V2 publishes 100 V, -100 V, a delta
  of -200 V and the cell numbers of the frame before.
* *V2 direction.* Up to 0.1 A the battery is neither charging nor discharging while
  charging or discharging power is not zero. `PowerIsSplit` asks only that they never contradict.
* *V2 parallel data.* The guard asks for eight alarm events; a frame with fewer would be
  dropped, as `FieldsAreInFrame` says. In a status frame with fewer than eight, balancing bytes
  would be read as events; the assumption on `StatusInputs` leaves such frames out.
* *V2 settings.* The function switches of the recorded frame of 179 bytes are at 158 to 165, the
  code logs 136 to 143; in a frame as short as its guard allows the last two would be bytes
  of the CRC. Log only.
* *V2 manufacturer information.* The comment counts 35 bytes of data, the code reads 36; the guard
  asks for the 45 bytes of the former, of which the last one read would be a byte of the CRC; the
  recorded frame has 46.
* *V3 pack events.* `decode_pack_pic_data_()` takes byte 0 for TB09, which the document has at byte 8 (never
  reached, see `v3_coils`).
* *V3 battery state.* A comment takes TB08 for states of normal operation (`seplos_bms_v3_ble.cpp:447`); bits
  0 and 5, low state of charge and its protection, are alarms in the document and raise no problem. All
  other alarms of the tables do (`EventsAsDocumented`, which leaves these two out).
* *V3 signs.* Temperatures of EIB and two current limits are read as signed words where the
  tables have unsigned ones, which differ from 32768 on (`ReadAsSigned`).
* *RS485 values of several frames.* `OneFrameAtATime` leaves out cells, temperatures and the last three
  values: a frame with fewer cells or temperatures, or without those values, leaves what the frame
  before it had, as long as the device is online.
* *RS485.* The receiver looks neither at LENID nor at the length, and a sum of characters
  cannot notice two that changed places.

## 7. Not modelled

* Multiplying a value with a constant factor in the RS485 and V2 decoders (for V3 the factors are
  compared with the tables' units), the average of the V2 temperatures, the wording of log lines and
  messages (`interpret_...`, message tables: a message is a token).
* `decode_sfa_data_()`, `decode_pack_pic_data_()` and the settings decoder of V2 only log; the
  first two are present by their guards, the last by its guard and the places it reads.
* In the clients and on the bus a checksum is taken to reject everything that is not a whole
  frame; how far that is true is `TransmissionIsChecked`.
* Flow control pin of the bus: raised and lowered inside one call of `send()`.
* Python schemas: they fix constants (addresses, override, time-out). `dump_config`, sensor
  lists, examples, emulators and tests.
* A BMS that answers EIA or EIB (V3) with fewer bytes than asked for: these two decoders do not look at
  the size, and `SystemValuesAreTheirOwn` covers only the shorter answers to other blocks.
* The count of temperatures `decode_single_machine_data_()` reads before its size guard
  (`seplos_bms_ble.cpp:884`): in a frame shorter than its cells say it is behind the end.
* Noise on the line that forms a valid frame by chance.
