----------------------------- MODULE SeplosBms -----------------------------
(***************************************************************************)
(* The RS485 battery devices (SeplosBms): each polls its BMS, counts the   *)
(* polls nobody answered, and publishes what a telemetry frame from its    *)
(* address says. The bus hands a frame to every device with its address.   *)
(*                                                                         *)
(* A published value is represented by the answer it was read from.        *)
(***************************************************************************)
EXTENDS Telemetry

CONSTANTS
  Devices,
  Address,              \* address of each device
  Override,             \* override_cell_count of each device, 0 if none
  Answers,              \* frames: an address and the layout of what follows
  MAX_NO_RESPONSE_COUNT \* 5

ASSUME DevicesAssumption ==
  /\ Address \in [Devices -> { n \in Nat : n < 256 }]
  /\ Override \in [Devices -> { n \in Nat : n <= 16 }]
ASSUME AnswersAssumption == Answers \subseteq [address : Nat, layout : TelemetryFrame]
ASSUME CountAssumption == MAX_NO_RESPONSE_COUNT \in Nat \ {0}

VARIABLES
  no_response_count,  \* no_response_count_
  online_status,      \* the online_status binary sensor
  errors,             \* the errors text sensor
  shown,              \* the other sensors
  silent,             \* polls since the last frame from the address
  notices             \* publish_device_unavailable_() calls since that frame

bmsVars == << no_response_count, online_status, errors, shown, silent, notices >>

\* Computed from the cell voltages.
Statistics ==
  {"min_cell_voltage", "max_cell_voltage", "min_voltage_cell", "max_voltage_cell",
   "delta_cell_voltage", "average_cell_voltage"} \X {0}
\* Computed from the current and, behind it, the voltage.
Powers == {"power", "charging_power", "discharging_power"} \X {0}
Derived == Statistics \cup Powers
Sensors == Fields \cup Derived

Unpublished == [address |-> "none"]
NaN == [address |-> "nan"]
\* Read, in part at least, beyond the end of frame f.
Overread(f) == [beyond |-> f]
Values == Answers \cup {Unpublished, NaN} \cup { Overread(f) : f \in Answers }

\* The field a sensor is published from, the last one if there are several.
LastField(sensor) == IF sensor \in Powers THEN <<"total_voltage", 2>> ELSE sensor

\* What a sensor shows after a telemetry frame. The cells are within the 44 bytes that
\* make a frame telemetry.
Read(f, d, sensor) ==
  LET at == ReadAt(f.layout, Override[d])
      field == LastField(sensor)
  IN IF field \in Published(f.layout, Override[d])
     THEN IF at[field] + 1 < f.layout.size THEN f ELSE Overread(f)
     ELSE IF sensor \in Statistics THEN f ELSE shown[d][sensor]

-----------------------------------------------------------------------------
\* Slip: the second increment, past the limit, is missing.
TrackedWithoutLatch(count) == IF count < MAX_NO_RESPONSE_COUNT THEN count + 1 ELSE count

\* no_response_count_ after track_online_status_().
Tracked(count) ==
  IF count + 1 < MAX_NO_RESPONSE_COUNT THEN count + 1 ELSE MAX_NO_RESPONSE_COUNT + 1

\* This poll is the one that gives the device up.
GivesUp(count) ==
  count = MAX_NO_RESPONSE_COUNT \/ count + 1 = MAX_NO_RESPONSE_COUNT

\* Slip: what is computed from other values keeps its last value.
ClearedExceptDerived(sensors) ==
  [s \in Sensors |-> IF s \in Derived THEN sensors[s] ELSE NaN]

\* publish_device_unavailable_() sets every sensor to NAN.
Cleared(sensors) == [s \in Sensors |-> NaN]

\* update(), but for the request it sends.
Update(d) ==
  /\ no_response_count' = [no_response_count EXCEPT ![d] = Tracked(@)]
  /\ silent' = [silent EXCEPT ![d] = AtMost(@ + 1, MAX_NO_RESPONSE_COUNT)]
  /\ IF GivesUp(no_response_count[d])
     THEN /\ online_status' = [online_status EXCEPT ![d] = "off"]
          /\ errors' = [errors EXCEPT ![d] = "Offline"]
          /\ shown' = [shown EXCEPT ![d] = Cleared(@)]
          /\ notices' = [notices EXCEPT ![d] = AtMost(@ + 1, 2)]
     ELSE UNCHANGED << online_status, errors, shown, notices >>

\* Slip: only a telemetry frame counts as an answer.
TelemetryListeners(f) ==
  { d \in Devices : Address[d] = f.address /\ IsTelemetry(f.layout) }

\* The devices a frame is handed to.
Listeners(f) == { d \in Devices : Address[d] = f.address }

\* on_seplos_modbus_data() of every device with the address of the frame.
Receive(f) ==
  /\ no_response_count' =
       [d \in Devices |-> IF d \in Listeners(f) THEN 0 ELSE no_response_count[d]]
  /\ online_status' =
       [d \in Devices |-> IF d \in Listeners(f) THEN "on" ELSE online_status[d]]
  /\ silent' = [d \in Devices |-> IF Address[d] = f.address THEN 0 ELSE silent[d]]
  /\ notices' = [d \in Devices |-> IF Address[d] = f.address THEN 0 ELSE notices[d]]
  /\ shown' =
       [d \in Devices |->
          IF d \in Listeners(f) /\ IsTelemetry(f.layout)
          THEN [s \in Sensors |-> Read(f, d, s)] ELSE shown[d]]
  /\ UNCHANGED errors

Init ==
  /\ no_response_count = [d \in Devices |-> 0]
  /\ online_status = [d \in Devices |-> "unknown"]
  /\ errors = [d \in Devices |-> "none"]
  /\ shown = [d \in Devices |-> [s \in Sensors |-> Unpublished]]
  /\ silent = [d \in Devices |-> 0]
  /\ notices = [d \in Devices |-> 0]

\* The program starts anew.
Restart ==
  /\ no_response_count' = [d \in Devices |-> 0]
  /\ online_status' = [d \in Devices |-> "unknown"]
  /\ errors' = [d \in Devices |-> "none"]
  /\ shown' = [d \in Devices |-> [s \in Sensors |-> Unpublished]]
  /\ silent' = [d \in Devices |-> 0]
  /\ notices' = [d \in Devices |-> 0]

Next == (\E d \in Devices : Update(d)) \/ (\E f \in Answers : Receive(f)) \/ Restart

Spec == Init /\ [][Next]_bmsVars

-----------------------------------------------------------------------------
\* Types; no_response_count_ is never left at the limit, only below or past it.
TypeOK ==
  /\ no_response_count \in
       [Devices -> 0 .. MAX_NO_RESPONSE_COUNT + 1 \ {MAX_NO_RESPONSE_COUNT}]
  /\ online_status \in [Devices -> {"unknown", "on", "off"}]
  /\ errors \in [Devices -> {"none", "Offline"}]
  /\ shown \in [Devices -> [Sensors -> Values]]
  /\ silent \in [Devices -> 0 .. MAX_NO_RESPONSE_COUNT]
  /\ notices \in [Devices -> 0 .. 2]

\* A device is offline exactly while its last MAX_NO_RESPONSE_COUNT polls were not
\* answered by anybody with its address, whatever else came over the bus.
OfflineIffSilent ==
  \A d \in Devices : online_status[d] = "off" <=> silent[d] = MAX_NO_RESPONSE_COUNT

\* It says so once per silence, not at every poll.
NoticedOnce ==
  \A d \in Devices : notices[d] = IF silent[d] = MAX_NO_RESPONSE_COUNT THEN 1 ELSE 0

\* An offline device shows no old value in any sensor a frame can fill.
OfflineShowsNothing ==
  \A d \in Devices : online_status[d] = "off" => shown[d] = [s \in Sensors |-> NaN]

\* Sensors whose place no comparison with the size of the frame covers: the cells and
\* their statistics are within the smallest telemetry frame, the last three values are
\* looked for before they are read.
Unguarded == { Temperature(i) : i \in 1 .. 6 } \cup MainFields \cup Powers

\* Whatever a frame says of its cells and temperatures, and however the cells are
\* counted, no cell, no statistic and none of the last three values is read beyond its
\* end. Of a frame like those the comments quote nothing is, but the rated capacity.
OnlyUnguardedOverread ==
  \A d \in Devices : \A s \in Sensors : \A f \in Answers :
    shown[d][s] = Overread(f) =>
      /\ s \in Unguarded
      /\ WellFormed(f.layout) /\ CountKnown(f.layout, Override[d]) => s = RatedCapacity

\* Voltage, current, capacities, power and the statistics of the cells always come from
\* one frame, never some from before an outage or from an older frame. The values of
\* single cells, the temperatures and the last three may: a frame without them leaves
\* those of the frame before.
OneFrameAtATime ==
  \A d \in Devices : \E v \in Answers \cup {Unpublished, NaN} :
    \A s \in MainFields \cup Derived : shown[d][s] \in {v, Overread(v)}

-----------------------------------------------------------------------------
(* What the comments of on_telemetry_data_ say, and the code does not do *)

\* Of a frame like those quoted, with the cell count in use, nothing is read beyond its
\* end.
NothingOverread ==
  \A d \in Devices : \A s \in Sensors : \A f \in Answers :
    WellFormed(f.layout) /\ CountKnown(f.layout, Override[d]) => shown[d][s] # Overread(f)

-----------------------------------------------------------------------------
\* Why OfflineIffSilent and NoticedOnce hold: the counter runs with the silence, and
\* is past its limit, where it stays, exactly when the device has been given up.
CounterFollowsSilence ==
  \A d \in Devices :
    no_response_count[d] =
      IF silent[d] = MAX_NO_RESPONSE_COUNT THEN MAX_NO_RESPONSE_COUNT + 1 ELSE silent[d]

TrackerInv == CounterFollowsSilence /\ OfflineIffSilent /\ NoticedOnce
=============================================================================
