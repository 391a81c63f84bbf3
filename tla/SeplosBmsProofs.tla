-------------------------- MODULE SeplosBmsProofs --------------------------
(***************************************************************************)
(* The devices know when they are offline and show nothing then, for any   *)
(* number of devices and answers.                                          *)
(***************************************************************************)
EXTENDS SeplosBms, TelemetryProofs, TLAPS

-----------------------------------------------------------------------------
(* The devices. *)

LEMMA InitType == Init => TypeOK
BY CountAssumption DEF Init, TypeOK, Values

\* A sensor shows one of the values there are.
LEMMA ReadType ==
  ASSUME TypeOK, NEW f \in Answers, NEW d \in Devices, NEW s \in Sensors
  PROVE  Read(f, d, s) \in Values
<1>1. shown[d][s] \in Values
  BY DEF TypeOK
<1>2. Read(f, d, s) \in {f, Overread(f), shown[d][s]}
  BY DEF Read
<1> QED
  BY <1>1, <1>2 DEF Values

LEMMA UpdateType ==
  ASSUME TypeOK, NEW d \in Devices, Update(d)
  PROVE  TypeOK'
<1> USE CountAssumption
<1>1. no_response_count' \in
        [Devices -> 0 .. MAX_NO_RESPONSE_COUNT + 1 \ {MAX_NO_RESPONSE_COUNT}]
  <2>1. Tracked(no_response_count[d])
          \in 0 .. MAX_NO_RESPONSE_COUNT + 1 \ {MAX_NO_RESPONSE_COUNT}
    BY DEF TypeOK, Tracked
  <2> QED
    BY <2>1 DEF TypeOK, Update
<1>2. silent' \in [Devices -> 0 .. MAX_NO_RESPONSE_COUNT]
  <2>1. AtMost(silent[d] + 1, MAX_NO_RESPONSE_COUNT) \in 0 .. MAX_NO_RESPONSE_COUNT
    BY DEF TypeOK, AtMost
  <2> QED
    BY <2>1 DEF TypeOK, Update
<1>3. CASE GivesUp(no_response_count[d])
  <2>1. AtMost(notices[d] + 1, 2) \in 0 .. 2
    BY DEF TypeOK, AtMost
  <2>2. Cleared(shown[d]) \in [Sensors -> Values]
    BY DEF Cleared, Values
  <2>3. /\ online_status' \in [Devices -> {"unknown", "on", "off"}]
        /\ errors' \in [Devices -> {"none", "Offline"}]
    BY <1>3 DEF TypeOK, Update
  <2>4. shown' \in [Devices -> [Sensors -> Values]]
    BY <1>3, <2>2 DEF TypeOK, Update
  <2>5. notices' \in [Devices -> 0 .. 2]
    BY <1>3, <2>1 DEF TypeOK, Update
  <2> QED
    BY <1>1, <1>2, <2>3, <2>4, <2>5 DEF TypeOK
<1>4. CASE ~GivesUp(no_response_count[d])
  BY <1>1, <1>2, <1>4 DEF TypeOK, Update
<1> QED
  BY <1>3, <1>4

LEMMA ReceiveType ==
  ASSUME TypeOK, NEW f \in Answers, Receive(f)
  PROVE  TypeOK'
<1>1. shown' \in [Devices -> [Sensors -> Values]]
  <2>1. \A d \in Devices : [s \in Sensors |-> Read(f, d, s)] \in [Sensors -> Values]
    BY ReadType
  <2>2. \A d \in Devices : shown[d] \in [Sensors -> Values]
    BY DEF TypeOK
  <2> QED
    BY <2>1, <2>2 DEF Receive
<1>2. /\ no_response_count' \in
           [Devices -> 0 .. MAX_NO_RESPONSE_COUNT + 1 \ {MAX_NO_RESPONSE_COUNT}]
      /\ silent' \in [Devices -> 0 .. MAX_NO_RESPONSE_COUNT]
      /\ notices' \in [Devices -> 0 .. 2]
  BY CountAssumption DEF TypeOK, Receive
<1>3. /\ online_status' \in [Devices -> {"unknown", "on", "off"}]
      /\ errors' \in [Devices -> {"none", "Offline"}]
  BY DEF TypeOK, Receive
<1> QED
  BY <1>1, <1>2, <1>3 DEF TypeOK

LEMMA RestartType == Restart => TypeOK'
BY CountAssumption DEF Restart, TypeOK, Values

LEMMA NextType == TypeOK /\ [Next]_bmsVars => TypeOK'
<1> SUFFICES ASSUME TypeOK, [Next]_bmsVars PROVE TypeOK'
  OBVIOUS
<1>1. ASSUME NEW d \in Devices, Update(d) PROVE TypeOK'
  BY <1>1, UpdateType
<1>2. ASSUME NEW f \in Answers, Receive(f) PROVE TypeOK'
  BY <1>2, ReceiveType
<1>3. CASE Restart
  BY <1>3, RestartType
<1>4. CASE UNCHANGED bmsVars
  BY <1>4 DEF TypeOK, bmsVars
<1> QED
  BY <1>1, <1>2, <1>3, <1>4 DEF Next

\* The counter of unanswered polls is never left at its limit.
THEOREM DeviceTypeCorrect == Spec => []TypeOK
<1>1. Init => TypeOK
  BY InitType
<1>2. TypeOK /\ [Next]_bmsVars => TypeOK'
  BY NextType
<1> QED
  BY <1>1, <1>2, PTL DEF Spec

-----------------------------------------------------------------------------
(* Online status. *)

LEMMA InitTracker == Init => TrackerInv
BY CountAssumption
DEF Init, TrackerInv, CounterFollowsSilence, OfflineIffSilent, NoticedOnce

LEMMA UpdateTracker ==
  ASSUME TypeOK, TrackerInv, NEW d \in Devices, Update(d)
  PROVE  TrackerInv'
<1> USE CountAssumption
<1>1. /\ no_response_count[d] \in 0 .. MAX_NO_RESPONSE_COUNT + 1
      /\ silent[d] \in 0 .. MAX_NO_RESPONSE_COUNT
      /\ no_response_count[d] =
           IF silent[d] = MAX_NO_RESPONSE_COUNT THEN MAX_NO_RESPONSE_COUNT + 1 ELSE silent[d]
  BY DEF TypeOK, TrackerInv, CounterFollowsSilence
<1>2. /\ no_response_count' = [no_response_count EXCEPT ![d] = Tracked(no_response_count[d])]
      /\ silent' = [silent EXCEPT ![d] = AtMost(silent[d] + 1, MAX_NO_RESPONSE_COUNT)]
  BY DEF Update
<1>3. /\ no_response_count'[d] = Tracked(no_response_count[d])
      /\ silent'[d] = AtMost(silent[d] + 1, MAX_NO_RESPONSE_COUNT)
      /\ \A e \in Devices \ {d} :
           no_response_count'[e] = no_response_count[e] /\ silent'[e] = silent[e]
  BY <1>2 DEF TypeOK
<1>4. \A e \in Devices \ {d} : online_status'[e] = online_status[e] /\ notices'[e] = notices[e]
  BY DEF TypeOK, Update
<1>5. CASE GivesUp(no_response_count[d])
  <2>1. silent[d] + 1 = MAX_NO_RESPONSE_COUNT
    BY <1>1, <1>5 DEF GivesUp
  <2>2. silent'[d] = MAX_NO_RESPONSE_COUNT
    BY <1>3, <2>1 DEF AtMost
  <2>3. no_response_count'[d] = MAX_NO_RESPONSE_COUNT + 1
    BY <1>1, <1>3, <2>1 DEF Tracked
  <2>4. online_status'[d] = "off" /\ notices'[d] = AtMost(notices[d] + 1, 2)
    BY <1>5 DEF TypeOK, Update
  <2>5. notices'[d] = 1
    <3>1. notices[d] = 0
      BY <2>1, <1>1 DEF TrackerInv, NoticedOnce
    <3> QED
      BY <2>4, <3>1 DEF AtMost
  <2> QED
    BY <1>3, <1>4, <2>2, <2>3, <2>4, <2>5
    DEF TrackerInv, CounterFollowsSilence, OfflineIffSilent, NoticedOnce
<1>6. CASE ~GivesUp(no_response_count[d])
  <2>1. online_status'[d] = online_status[d] /\ notices'[d] = notices[d]
    BY <1>6 DEF Update
  <2>2. CASE silent[d] = MAX_NO_RESPONSE_COUNT
    <3>1. silent'[d] = MAX_NO_RESPONSE_COUNT
          /\ no_response_count'[d] = MAX_NO_RESPONSE_COUNT + 1
      BY <1>1, <1>3, <2>2 DEF AtMost, Tracked
    <3> QED
      BY <1>3, <1>4, <2>1, <2>2, <3>1
      DEF TrackerInv, CounterFollowsSilence, OfflineIffSilent, NoticedOnce
  <2>3. CASE silent[d] # MAX_NO_RESPONSE_COUNT
    <3>1. silent[d] + 1 < MAX_NO_RESPONSE_COUNT
      BY <1>1, <1>6, <2>3 DEF GivesUp
    <3>2. silent'[d] = silent[d] + 1 /\ no_response_count'[d] = silent[d] + 1
      BY <1>1, <1>3, <3>1 DEF AtMost, Tracked
    <3>3. silent'[d] # MAX_NO_RESPONSE_COUNT
      BY <1>1, <3>1, <3>2
    <3> QED
      BY <1>3, <1>4, <2>1, <2>3, <3>2, <3>3
      DEF TrackerInv, CounterFollowsSilence, OfflineIffSilent, NoticedOnce
  <2> QED
    BY <2>2, <2>3
<1> QED
  BY <1>5, <1>6

LEMMA ReceiveTracker ==
  ASSUME TypeOK, TrackerInv, NEW f \in Answers, Receive(f)
  PROVE  TrackerInv'
BY CountAssumption
DEF Receive, Listeners, TrackerInv, CounterFollowsSilence, OfflineIffSilent, NoticedOnce

LEMMA RestartTracker == Restart => TrackerInv'
BY CountAssumption
DEF Restart, TrackerInv, CounterFollowsSilence, OfflineIffSilent, NoticedOnce

LEMMA NextTracker == TypeOK /\ TrackerInv /\ [Next]_bmsVars => TrackerInv'
<1> SUFFICES ASSUME TypeOK, TrackerInv, [Next]_bmsVars PROVE TrackerInv'
  OBVIOUS
<1>1. ASSUME NEW d \in Devices, Update(d) PROVE TrackerInv'
  BY <1>1, UpdateTracker
<1>2. ASSUME NEW f \in Answers, Receive(f) PROVE TrackerInv'
  BY <1>2, ReceiveTracker
<1>3. CASE Restart
  BY <1>3, RestartTracker
<1>4. CASE UNCHANGED bmsVars
  BY <1>4
  DEF bmsVars, TrackerInv, CounterFollowsSilence, OfflineIffSilent, NoticedOnce
<1> QED
  BY <1>1, <1>2, <1>3, <1>4 DEF Next

LEMMA TrackerCorrect == Spec => [](TypeOK /\ TrackerInv)
<1>1. Init => TypeOK /\ TrackerInv
  BY InitType, InitTracker
<1>2. TypeOK /\ TrackerInv /\ [Next]_bmsVars => TypeOK' /\ TrackerInv'
  BY NextType, NextTracker
<1> QED
  BY <1>1, <1>2, PTL DEF Spec

\* Offline exactly while the last MAX_NO_RESPONSE_COUNT polls were not answered.
THEOREM OfflineExactlyWhenSilent == Spec => []OfflineIffSilent
<1>1. TrackerInv => OfflineIffSilent
  BY DEF TrackerInv
<1> QED
  BY <1>1, TrackerCorrect, PTL

\* Said once per silence.
THEOREM UnavailableOnce == Spec => []NoticedOnce
<1>1. TrackerInv => NoticedOnce
  BY DEF TrackerInv
<1> QED
  BY <1>1, TrackerCorrect, PTL

-----------------------------------------------------------------------------
(* What the sensors show. *)

\* No sensor of an offline device shows an old value.
THEOREM NothingShownOffline == Spec => []OfflineShowsNothing
<1>1. Init => OfflineShowsNothing
  BY DEF Init, OfflineShowsNothing
<1>2. TypeOK /\ OfflineShowsNothing /\ [Next]_bmsVars => OfflineShowsNothing'
  <2> SUFFICES ASSUME TypeOK, OfflineShowsNothing, [Next]_bmsVars PROVE OfflineShowsNothing'
    OBVIOUS
  <2>1. ASSUME NEW d \in Devices, Update(d) PROVE OfflineShowsNothing'
    <3>1. CASE GivesUp(no_response_count[d])
      <4>1. /\ shown' = [shown EXCEPT ![d] = Cleared(shown[d])]
            /\ online_status' = [online_status EXCEPT ![d] = "off"]
        BY <2>1, <3>1 DEF Update
      <4>2. shown'[d] = [s \in Sensors |-> NaN]
        BY <4>1 DEF TypeOK, Cleared
      <4>3. \A e \in Devices \ {d} : shown'[e] = shown[e] /\ online_status'[e] = online_status[e]
        BY <4>1 DEF TypeOK
      <4> QED
        BY <4>2, <4>3 DEF OfflineShowsNothing
    <3>2. CASE ~GivesUp(no_response_count[d])
      BY <2>1, <3>2 DEF Update, OfflineShowsNothing
    <3> QED
      BY <3>1, <3>2
  <2>2. ASSUME NEW f \in Answers, Receive(f) PROVE OfflineShowsNothing'
    BY <2>2 DEF Receive, OfflineShowsNothing
  <2>3. CASE Restart
    BY <2>3 DEF Restart, OfflineShowsNothing
  <2>4. CASE UNCHANGED bmsVars
    BY <2>4 DEF bmsVars, OfflineShowsNothing
  <2> QED
    BY <2>1, <2>2, <2>3, <2>4 DEF Next
<1> QED
  BY <1>1, <1>2, DeviceTypeCorrect, PTL DEF Spec

LEMMA UpdateShows ==
  ASSUME TypeOK, NEW d \in Devices, Update(d), NEW e \in Devices
  PROVE  shown'[e] = shown[e] \/ shown'[e] = [s \in Sensors |-> NaN]
BY DEF Update, Cleared, TypeOK

\* What a step can make of a sensor: nothing, an empty value, or what a telemetry frame
\* from the address of its device says.
LEMMA StepShows ==
  ASSUME TypeOK, [Next]_bmsVars, NEW e \in Devices
  PROVE  \/ shown'[e] = shown[e]
         \/ shown'[e] = [s \in Sensors |-> NaN]
         \/ shown'[e] = [s \in Sensors |-> Unpublished]
         \/ \E f \in Answers :
              IsTelemetry(f.layout) /\ shown'[e] = [s \in Sensors |-> Read(f, e, s)]
<1>1. ASSUME NEW d \in Devices, Update(d)
      PROVE  shown'[e] = shown[e] \/ shown'[e] = [s \in Sensors |-> NaN]
  BY <1>1, UpdateShows
<1>2. ASSUME NEW f \in Answers, Receive(f)
      PROVE  \/ shown'[e] = shown[e]
             \/ IsTelemetry(f.layout) /\ shown'[e] = [s \in Sensors |-> Read(f, e, s)]
  BY <1>2 DEF Receive
<1>3. CASE Restart
  BY <1>3 DEF Restart
<1>4. CASE UNCHANGED bmsVars
  BY <1>4 DEF bmsVars
<1> QED
  BY <1>1, <1>2, <1>3, <1>4 DEF Next

\* A value read beyond the end of a frame is none of the others.
LEMMA OverreadIsItself ==
  /\ \A f \in Answers : Overread(f) \notin Answers \cup {Unpublished, NaN}
  /\ \A f, g \in Answers : Overread(f) = Overread(g) => f = g
<1>1. \A f \in Answers : DOMAIN f = {"address", "layout"}
  BY AnswersAssumption
<1>2. \A f : DOMAIN Overread(f) = {"beyond"} /\ Overread(f).beyond = f
  BY DEF Overread
<1>3. DOMAIN Unpublished = {"address"} /\ DOMAIN NaN = {"address"}
  BY DEF Unpublished, NaN
<1>4. "beyond" # "address"
  OBVIOUS
<1> QED
  BY <1>1, <1>2, <1>3, <1>4

LEMMA MainAreSensors == MainFields \subseteq Sensors /\ Derived \subseteq Sensors
BY DEF Sensors, Fields

\* A sensor left with a value from beyond the end of the frame is one whose place is
\* not compared with its size, and the rated capacity if the frame is as documented.
LEMMA ReadBeyond ==
  ASSUME NEW f \in Answers, IsTelemetry(f.layout), NEW d \in Devices, NEW s \in Sensors,
         Read(f, d, s) = Overread(f), shown[d][s] # Overread(f)
  PROVE  /\ s \in Unguarded
         /\ WellFormed(f.layout) /\ CountKnown(f.layout, Override[d]) => s = RatedCapacity
<1>1. f.layout \in TelemetryFrame /\ Override[d] \in { n \in Nat : n <= 16 }
  BY AnswersAssumption, DevicesAssumption
<1>2. Overread(f) # f
  BY OverreadIsItself
<1> DEFINE field == LastField(s)
<1>3. /\ field \in Published(f.layout, Override[d])
      /\ ~(ReadAt(f.layout, Override[d])[field] + 1 < f.layout.size)
  BY <1>2 DEF Read
<1>4. field \notin { Cell(i) : i \in 1 .. 16 } \cup OptionalFields
  <2> HIDE DEF field
  <2> QED
    BY <1>1, <1>3, GuardedReadsInside
<1>5. WellFormed(f.layout) /\ CountKnown(f.layout, Override[d]) => field = RatedCapacity
  <2> HIDE DEF field
  <2> QED
    BY <1>1, <1>3, DocumentedReadsInside
<1>6. CASE s \in Powers
  <2>1. field # RatedCapacity
    BY <1>6 DEF LastField, RatedCapacity
  <2> QED
    BY <1>5, <1>6, <2>1 DEF Unguarded
<1>7. CASE s \notin Powers
  <2>1. field = s
    BY <1>7 DEF LastField
  <2>2. s \in Fields
    <3>1. ASSUME s \in Statistics PROVE FALSE
      <4>1. /\ s[1] # "cell_voltage" /\ s[1] # "temperature"
            /\ s \notin MainFields \cup OptionalFields
        BY <3>1 DEF Statistics, MainFields, OptionalFields
      <4>2. s \notin Present(f.layout, Override[d])
        BY <4>1 DEF Present
      <4>3. s \notin Published(f.layout, Override[d])
        BY <4>1, <4>2 DEF Published, Cell, Temperature
      <4> QED
        BY <1>3, <2>1, <4>3
    <3> QED
      BY <1>7, <3>1 DEF Sensors, Derived
  <2>3. s \in { Temperature(i) : i \in 1 .. 6 } \cup MainFields
    BY <1>4, <2>1, <2>2 DEF Fields
  <2> QED
    BY <1>5, <2>1, <2>3 DEF Unguarded
<1> QED
  BY <1>6, <1>7

\* Only the fields whose place is not compared with the size of a frame are ever read
\* beyond its end, and of a documented frame only the rated capacity.
THEOREM OverreadsOnlyUnguarded == Spec => []OnlyUnguardedOverread
<1>1. Init => OnlyUnguardedOverread
  BY OverreadIsItself DEF Init, OnlyUnguardedOverread
<1>2. TypeOK /\ OnlyUnguardedOverread /\ [Next]_bmsVars => OnlyUnguardedOverread'
  <2> SUFFICES ASSUME TypeOK, OnlyUnguardedOverread, [Next]_bmsVars,
                      NEW e \in Devices, NEW s \in Sensors, NEW g \in Answers,
                      shown'[e][s] = Overread(g)
               PROVE  /\ s \in Unguarded
                      /\ WellFormed(g.layout) /\ CountKnown(g.layout, Override[e]) =>
                           s = RatedCapacity
    BY DEF OnlyUnguardedOverread
  <2>1. CASE shown[e][s] = Overread(g)
    BY <2>1 DEF OnlyUnguardedOverread
  <2>2. CASE shown[e][s] # Overread(g)
    <3>1. Overread(g) # NaN /\ Overread(g) # Unpublished
      BY OverreadIsItself
    <3>2. PICK f \in Answers :
            IsTelemetry(f.layout) /\ shown'[e] = [t \in Sensors |-> Read(f, e, t)]
      BY <2>2, <3>1, StepShows
    <3>3. Read(f, e, s) = Overread(g)
      BY <3>2
    <3>4. Read(f, e, s) \in {f, Overread(f), shown[e][s]}
      BY DEF Read
    <3>5. f = g
      BY <2>2, <3>3, <3>4, OverreadIsItself
    <3> QED
      BY <2>2, <3>2, <3>3, <3>5, ReadBeyond
  <2> QED
    BY <2>1, <2>2
<1> QED
  BY <1>1, <1>2, DeviceTypeCorrect, PTL DEF Spec

\* A telemetry frame fills all of the main and the derived sensors.
LEMMA ReadsOwnValues ==
  ASSUME NEW f \in Answers, NEW d \in Devices, NEW s \in MainFields \cup Derived
  PROVE  Read(f, d, s) \in {f, Overread(f)}
<1>1. MainFields \subseteq Published(f.layout, Override[d])
  BY DEF Published, Present
<1>2. LastField(s) \in MainFields \/ s \in Statistics
  BY DEF LastField, MainFields, Derived
<1> QED
  BY <1>1, <1>2 DEF Read

\* Current, voltage, power and cell statistics come from one frame.
THEOREM OneFrame == Spec => []OneFrameAtATime
<1>1. Init => OneFrameAtATime
  BY MainAreSensors DEF Init, OneFrameAtATime
<1>2. TypeOK /\ OneFrameAtATime /\ [Next]_bmsVars => OneFrameAtATime'
  <2> SUFFICES ASSUME TypeOK, OneFrameAtATime, [Next]_bmsVars, NEW e \in Devices
               PROVE  \E v \in Answers \cup {Unpublished, NaN} :
                        \A s \in MainFields \cup Derived : shown'[e][s] \in {v, Overread(v)}
    BY DEF OneFrameAtATime
  <2>1. CASE shown'[e] = shown[e]
    BY <2>1 DEF OneFrameAtATime
  <2>2. CASE shown'[e] = [s \in Sensors |-> NaN]
    BY <2>2, MainAreSensors
  <2>3. CASE shown'[e] = [s \in Sensors |-> Unpublished]
    BY <2>3, MainAreSensors
  <2>4. ASSUME NEW f \in Answers, shown'[e] = [s \in Sensors |-> Read(f, e, s)]
        PROVE  \A s \in MainFields \cup Derived : shown'[e][s] \in {f, Overread(f)}
    <3> SUFFICES ASSUME NEW s \in MainFields \cup Derived
                 PROVE  shown'[e][s] \in {f, Overread(f)}
      OBVIOUS
    <3>1. Read(f, e, s) \in {f, Overread(f)}
      BY ReadsOwnValues
    <3>2. shown'[e][s] = Read(f, e, s)
      BY <2>4, MainAreSensors
    <3> QED
      BY <3>1, <3>2
  <2> QED
    BY <2>1, <2>2, <2>3, <2>4, StepShows
<1> QED
  BY <1>1, <1>2, DeviceTypeCorrect, PTL DEF Spec
=============================================================================
