---------------------------- MODULE Rs485Proofs ----------------------------
(***************************************************************************)
(* Proofs about Rs485: every behaviour of the composition is one of the    *)
(* bus and one of the devices, so what is proved of them holds here, and   *)
(* a frame the bus delivers takes its devices online in the same step.     *)
(* When polls are apart, a fault excuses two unanswered polls and no more. *)
(***************************************************************************)
EXTENDS Rs485, TLAPS

BusProofs == INSTANCE SeplosModbusProofs WITH Frames <- Answers
BmsProofs == INSTANCE SeplosBmsProofs

-----------------------------------------------------------------------------
(* The bus of the composition and the bus of the proofs are the same. *)

LEMMA SameInit == Bus!Init => BusProofs!Init
BY DEF Bus!Init, BusProofs!Init, Bus!Idle, BusProofs!Idle, Bus!Boundary, BusProofs!Boundary

LEMMA SameSend ==
  ASSUME NEW f \in Answers, Bus!Send(f)
  PROVE  BusProofs!Send(f)
BY DEF Bus!Send, BusProofs!Send, Bus!Idle, BusProofs!Idle, Bus!history, BusProofs!history

LEMMA SameCollide == Bus!Collide => BusProofs!Collide
BY DEF Bus!Collide, BusProofs!Collide, Bus!history, BusProofs!history

LEMMA SameQueue ==
  ASSUME NEW c, Bus!Queue(c)
  PROVE  BusProofs!Queue(c)
BY DEF Bus!Queue, BusProofs!Queue, Bus!Pause, BusProofs!Pause

LEMMA SamePassed == Bus!Passed = BusProofs!Passed
BY DEF Bus!Passed, BusProofs!Passed, Bus!Idle, BusProofs!Idle

LEMMA SameChars ==
  /\ \A f, i : Bus!CharOf(f, i) = BusProofs!CharOf(f, i)
  /\ \A kind : Bus!Noise(kind) = BusProofs!Noise(kind)
  /\ Bus!Kinds = BusProofs!Kinds
BY DEF Bus!CharOf, BusProofs!CharOf, Bus!Noise, BusProofs!Noise, Bus!Kinds, BusProofs!Kinds

LEMMA SameArrive == Bus!Arrive => BusProofs!Arrive
<1> SUFFICES ASSUME Bus!Arrive PROVE BusProofs!Arrive
  OBVIOUS
<1>1. CASE line.frame # NoFrame
  BY <1>1, SameQueue, SamePassed, SameChars DEF Bus!Arrive, BusProofs!Arrive, Bus!Idle,
     BusProofs!Idle
<1>2. CASE line.frame = NoFrame
  BY <1>2, SameQueue, SamePassed, SameChars DEF Bus!Arrive, BusProofs!Arrive, Bus!Idle,
     BusProofs!Idle
<1> QED
  BY <1>1, <1>2

LEMMA SameLose == Bus!Lose => BusProofs!Lose
BY SamePassed DEF Bus!Lose, BusProofs!Lose, Bus!Idle, BusProofs!Idle, Bus!history,
   BusProofs!history

LEMMA SameDisturb == Bus!Disturb => BusProofs!Disturb
BY SameQueue, SameChars DEF Bus!Disturb, BusProofs!Disturb

LEMMA SameTick == Bus!Tick => BusProofs!Tick
BY DEF Bus!Tick, BusProofs!Tick, Bus!Capped, BusProofs!Capped, Bus!MaxAge, BusProofs!MaxAge,
       Bus!MaxQuiet, BusProofs!MaxQuiet

LEMMA SameLoopEdge ==
  /\ Bus!LoopBegin => BusProofs!LoopBegin
  /\ Bus!LoopEnd => BusProofs!LoopEnd
BY DEF Bus!LoopBegin, BusProofs!LoopBegin, Bus!LoopEnd, BusProofs!LoopEnd, Bus!TimedOut,
       BusProofs!TimedOut, Bus!AgeAfterCheck, BusProofs!AgeAfterCheck, Bus!history,
       BusProofs!history

LEMMA SameAccepted ==
  /\ \A c : Bus!Accepted(c) = BusProofs!Accepted(c)
  /\ \A f : Bus!Whole(f) = BusProofs!Whole(f)
<1>1. \A c : Bus!Accepted(c) = BusProofs!Accepted(c)
  BY DEF Bus!Accepted, BusProofs!Accepted
<1>2. \A f : Bus!Whole(f) = BusProofs!Whole(f)
  BY SameChars DEF Bus!Whole, BusProofs!Whole
<1> QED
  BY <1>1, <1>2

LEMMA SameReadChar == Bus!ReadChar => BusProofs!ReadChar
<1> SUFFICES ASSUME Bus!ReadChar PROVE BusProofs!ReadChar
  OBVIOUS
<1> DEFINE c == Head(uart).char
<1>1. Bus!Keep(c) => BusProofs!Keep(c)
  BY SameAccepted DEF Bus!Keep, BusProofs!Keep, Bus!Stamped, BusProofs!Stamped
<1>2. Bus!Reject(c) => BusProofs!Reject(c)
  BY SameAccepted DEF Bus!Reject, BusProofs!Reject
<1>3. Bus!EndFrame(c) => BusProofs!EndFrame(c)
  BY SameAccepted DEF Bus!EndFrame, BusProofs!EndFrame, Bus!Rest, BusProofs!Rest
<1>4. Bus!EndFragment(c) => BusProofs!EndFragment(c)
  BY SameAccepted DEF Bus!EndFragment, BusProofs!EndFragment
<1>5. Bus!Follow(c, Head(uart).pause) => BusProofs!Follow(c, Head(uart).pause)
  BY DEF Bus!Follow, BusProofs!Follow, Bus!Boundary, BusProofs!Boundary, Bus!Disturbed,
         BusProofs!Disturbed
<1> HIDE DEF c
<1>6. BusProofs!ReadChar <=>
        /\ looping /\ uart # << >>
        /\ BusProofs!Keep(c) \/ BusProofs!Reject(c) \/ BusProofs!EndFrame(c) \/ BusProofs!EndFragment(c)
        /\ BusProofs!Follow(c, Head(uart).pause)
        /\ UNCHANGED << line, quiet, faults >>
  BY DEF BusProofs!ReadChar, c
<1>7. /\ looping /\ uart # << >>
      /\ Bus!Keep(c) \/ Bus!Reject(c) \/ Bus!EndFrame(c) \/ Bus!EndFragment(c)
      /\ Bus!Follow(c, Head(uart).pause)
      /\ UNCHANGED << line, quiet, faults >>
  BY DEF Bus!ReadChar, c
<1> QED
  BY <1>1, <1>2, <1>3, <1>4, <1>5, <1>6, <1>7

\* Every step of the composition is one of the bus or leaves the bus alone.
LEMMA StepOfBus == [Next]_vars => [BusProofs!Next]_(BusProofs!vars)
<1> SUFFICES ASSUME [Next]_vars PROVE BusProofs!Next \/ UNCHANGED bus
  BY DEF bus, BusProofs!vars
<1>1. ASSUME NEW d \in Devices, Poll(d) PROVE BusProofs!Next \/ UNCHANGED bus
  BY <1>1, SameCollide DEF Poll, BusProofs!Next, BusProofs!Wire
<1>2. CASE Read
  BY <1>2, SameReadChar DEF Read, BusProofs!Next, BusProofs!Loop
<1>3. CASE Answer
  <2>1. (\E f \in Answers : Bus!Send(f)) \/ Bus!Collide \/ UNCHANGED bus
    BY <1>3 DEF Answer
  <2>2. CASE \E f \in Answers : Bus!Send(f)
    BY <2>2, SameSend DEF BusProofs!Next
  <2> QED
    BY <2>1, <2>2, SameCollide DEF BusProofs!Next, BusProofs!Wire
<1>4. CASE Switch
  BY <1>4 DEF Switch
<1>5. CASE Transfer
  BY <1>5, SameArrive, SameLose DEF Transfer, BusProofs!Next, BusProofs!Wire
<1>6. CASE Disturb
  BY <1>6, SameDisturb DEF Disturb, BusProofs!Next, BusProofs!Wire
<1>7. CASE LoopEdge
  BY <1>7, SameLoopEdge DEF LoopEdge, BusProofs!Next, BusProofs!Loop
<1>8. CASE Time
  BY <1>8, SameTick DEF Time, BusProofs!Next
<1>9. CASE UNCHANGED vars
  BY <1>9 DEF vars
<1> QED
  BY <1>1, <1>2, <1>3, <1>4, <1>5, <1>6, <1>7, <1>8, <1>9 DEF Next

\* The composition implements its bus: whatever the devices and the BMSs do, the bus
\* behaves as SeplosModbus says.
THEOREM ImplementsBus == Spec => BusProofs!Spec
<1>1. Init => BusProofs!Init
  BY SameInit DEF Init
<1> QED
  BY <1>1, StepOfBus, PTL DEF Spec, BusProofs!Spec

-----------------------------------------------------------------------------
(* The devices *)

\* Every step of the composition is one of the devices or leaves them alone.
LEMMA StepOfDevices ==
  ASSUME BusProofs!TypeOK, [Next]_vars
  PROVE  [Bms!Next]_(Bms!bmsVars)
<1> SUFFICES Bms!Next \/ UNCHANGED bms
  BY DEF bms, Bms!bmsVars
<1>1. ASSUME NEW d \in Devices, Poll(d) PROVE Bms!Next
  BY <1>1 DEF Poll, Bms!Next
<1>2. CASE Read
  <2>1. dispatched' \in Answers \cup {NoFrame}
    BY <1>2, SameReadChar, LineAssumption
    DEF Read, BusProofs!ReadChar, BusProofs!Keep, BusProofs!Reject, BusProofs!EndFrame,
        BusProofs!EndFragment
  <2> QED
    BY <1>2, <2>1 DEF Read, Bms!Next
<1>3. CASE Answer
  BY <1>3 DEF Answer
<1>4. CASE Switch
  BY <1>4 DEF Switch
<1>5. CASE Transfer \/ Disturb \/ LoopEdge \/ Time
  BY <1>5 DEF Transfer, Disturb, LoopEdge, Time
<1>6. CASE UNCHANGED vars
  BY <1>6 DEF vars
<1> QED
  BY <1>1, <1>2, <1>3, <1>4, <1>5, <1>6 DEF Next

\* The composition implements its devices.
THEOREM ImplementsDevices == Spec => Bms!Spec
<1>1. Init => Bms!Init
  BY DEF Init
<1>2. BusProofs!Spec => []BusProofs!TypeOK
  BY BusProofs!TypeCorrect, LineAssumption
<1>3. BusProofs!TypeOK /\ [Next]_vars => [Bms!Next]_(Bms!bmsVars)
  BY StepOfDevices
<1> QED
  BY <1>1, <1>2, <1>3, ImplementsBus, PTL DEF Spec, Bms!Spec

\* The devices of the composition and those of the proofs are the same.
LEMMA SameListeners == \A f : Bms!Listeners(f) = BmsProofs!Listeners(f)
BY DEF Bms!Listeners, BmsProofs!Listeners

LEMMA SameSensors ==
  /\ Bms!Fields = BmsProofs!Fields
  /\ Bms!Sensors = BmsProofs!Sensors
  /\ Bms!Statistics = BmsProofs!Statistics
  /\ Bms!Powers = BmsProofs!Powers
BY DEF Bms!Statistics, BmsProofs!Statistics, Bms!Powers, BmsProofs!Powers, Bms!Fields, BmsProofs!Fields, Bms!Sensors, BmsProofs!Sensors, Bms!Derived,
   BmsProofs!Derived,
   Bms!Cell, BmsProofs!Cell, Bms!Temperature, BmsProofs!Temperature, Bms!MainFields,
   BmsProofs!MainFields,
   Bms!OptionalFields, BmsProofs!OptionalFields

LEMMA SameOffsets ==
  ASSUME NEW l, NEW o
  PROVE  /\ Bms!TempsOffset(l, o) = BmsProofs!TempsOffset(l, o)
         /\ Bms!TempCount(l, o) = BmsProofs!TempCount(l, o)
         /\ Bms!MainOffset(l, o) = BmsProofs!MainOffset(l, o)
         /\ Bms!CellCount(l, o) = BmsProofs!CellCount(l, o)
BY DEF Bms!TempsOffset, BmsProofs!TempsOffset, Bms!TempCount, BmsProofs!TempCount,
   Bms!MainOffset, BmsProofs!MainOffset, Bms!CellCount, BmsProofs!CellCount

LEMMA SamePublished ==
  ASSUME NEW l, NEW o
  PROVE  Bms!Published(l, o) = BmsProofs!Published(l, o)
BY SameOffsets DEF Bms!Published, BmsProofs!Published, Bms!Present, BmsProofs!Present,
   Bms!Cell, BmsProofs!Cell, Bms!Temperature, BmsProofs!Temperature, Bms!MainFields,
   BmsProofs!MainFields, Bms!OptionalFields, BmsProofs!OptionalFields, Bms!AtMost,
   BmsProofs!AtMost

LEMMA SameReadAt ==
  ASSUME NEW l, NEW o
  PROVE  Bms!ReadAt(l, o) = BmsProofs!ReadAt(l, o)
BY SameOffsets, SamePublished DEF Bms!ReadAt, BmsProofs!ReadAt, Bms!Cell, BmsProofs!Cell,
   Bms!Temperature, BmsProofs!Temperature

LEMMA SameRead ==
  ASSUME NEW f, NEW d, NEW s
  PROVE  Bms!Read(f, d, s) = BmsProofs!Read(f, d, s)
BY SameReadAt, SamePublished, SameSensors DEF Bms!Read, BmsProofs!Read, Bms!Overread,
   BmsProofs!Overread, Bms!LastField, BmsProofs!LastField

LEMMA SameUpdate ==
  ASSUME NEW d, Bms!Update(d)
  PROVE  BmsProofs!Update(d)
BY SameSensors DEF Bms!Update, BmsProofs!Update, Bms!Tracked, BmsProofs!Tracked, Bms!AtMost,
   BmsProofs!AtMost, Bms!GivesUp, BmsProofs!GivesUp, Bms!Cleared, BmsProofs!Cleared, Bms!NaN,
   BmsProofs!NaN

LEMMA SameReceive ==
  ASSUME NEW f, Bms!Receive(f)
  PROVE  BmsProofs!Receive(f)
<1>1. \A d \in Devices :
        [s \in Bms!Sensors |-> Bms!Read(f, d, s)] = [s \in BmsProofs!Sensors |-> BmsProofs!Read(f, d, s)]
  BY SameRead, SameSensors
<1>2. \A l : Bms!IsTelemetry(l) = BmsProofs!IsTelemetry(l)
  BY DEF Bms!IsTelemetry, BmsProofs!IsTelemetry
<1> QED
  BY <1>1, <1>2, SameListeners DEF Bms!Receive, BmsProofs!Receive

LEMMA SameDevicesInit == Bms!Init => BmsProofs!Init
BY SameSensors DEF Bms!Init, BmsProofs!Init, Bms!Unpublished, BmsProofs!Unpublished

LEMMA SameRestart == Bms!Restart => BmsProofs!Restart
BY SameSensors DEF Bms!Restart, BmsProofs!Restart, Bms!Unpublished, BmsProofs!Unpublished

\* What is proved of the devices is proved of those behind the bus.
THEOREM DevicesBehave == Spec => BmsProofs!Spec
<1>1. Bms!Init => BmsProofs!Init
  BY SameDevicesInit
<1>2. [Bms!Next]_(Bms!bmsVars) => [BmsProofs!Next]_(BmsProofs!bmsVars)
  BY SameUpdate, SameReceive, SameRestart DEF Bms!Next, BmsProofs!Next, Bms!bmsVars, BmsProofs!bmsVars
<1> QED
  BY <1>1, <1>2, ImplementsDevices, PTL DEF Bms!Spec, BmsProofs!Spec

LEMMA OfflineMeansSilent ==
  Spec => [](BmsProofs!OfflineIffSilent)
<1>1. Bms!TelemetryFrame = BmsProofs!TelemetryFrame
  BY DEF Bms!TelemetryFrame, BmsProofs!TelemetryFrame, Bms!MaxFrameSize,
     BmsProofs!MaxFrameSize, Bms!Bytes, BmsProofs!Bytes
<1>2. BmsProofs!Spec => []BmsProofs!OfflineIffSilent
  BY <1>1, BmsProofs!OfflineExactlyWhenSilent, DevicesAssumption, AnswersAssumption,
     CountAssumption
<1> QED
  BY <1>2, DevicesBehave, PTL

-----------------------------------------------------------------------------
(* Delivery *)

\* A character that is read leaves the UART.
LEMMA ReadTakes ==
  ASSUME BusProofs!TypeOK, BusProofs!ReadChar
  PROVE  uart' # uart /\ Len(uart') # Len(uart) + 1
<1>1. uart # << >> /\ (uart' = Tail(uart) \/ uart' = << >>)
  BY DEF BusProofs!ReadChar, BusProofs!Keep, BusProofs!Reject, BusProofs!EndFrame,
         BusProofs!EndFragment
<1>2. uart \in Seq(BusProofs!Pending)
  BY DEF BusProofs!TypeOK
<1> QED
  BY <1>1, <1>2

\* Nothing but Read does it.
LEMMA OnlyRead ==
  ASSUME BusProofs!TypeOK, [Next]_vars, BusProofs!ReadChar
  PROVE  Read
<1>1. looping /\ uart # << >> /\ UNCHANGED << line, quiet, faults >>
  BY DEF BusProofs!ReadChar
<1>2. uart \in Seq(BusProofs!Pending) /\ faults \in Nat
  BY DEF BusProofs!TypeOK
<1>3. uart' # uart /\ Len(uart') # Len(uart) + 1
  BY ReadTakes
<1>4. ~Bus!Collide /\ ~Bus!Lose /\ ~Bus!Disturb
  <2>1. faults' = faults /\ faults + 1 # faults
    BY <1>1, <1>2
  <2>2. (Bus!Collide \/ Bus!Lose \/ Bus!Disturb) => faults' = faults + 1
    BY Zenon DEF Bus!Collide, Bus!Lose, Bus!Disturb
  <2> QED
    BY <2>1, <2>2
<1>5. ~Bus!LoopBegin /\ ~Bus!LoopEnd /\ ~Bus!Tick /\ \A f \in Answers : ~Bus!Send(f)
  BY <1>1, <1>3 DEF Bus!LoopBegin, Bus!LoopEnd, Bus!Tick, Bus!Send
<1>6. ~Bus!Arrive
  <2>1. ASSUME NEW c, Bus!Queue(c) PROVE FALSE
    <3>1. uart' = Append(uart, [char |-> c, pause |-> Bus!Pause])
      BY <2>1 DEF Bus!Queue
    <3>2. Len(uart') = Len(uart) + 1
      BY <3>1, <1>2
    <3> QED
      BY <3>2, <1>3
  <2> QED
    BY <2>1 DEF Bus!Arrive
<1>7. uart' # uart => ~(UNCHANGED bus) /\ ~(UNCHANGED vars)
  BY DEF bus, vars
<1>8. \A d \in Devices : ~Poll(d)
  BY <1>1 DEF Poll
<1>9. ~Answer
  BY <1>3, <1>4, <1>5, <1>7 DEF Answer
<1>10. ~Switch /\ ~Transfer /\ ~Disturb /\ ~LoopEdge /\ ~Time
  BY <1>3, <1>4, <1>5, <1>6, <1>7 DEF Switch, Transfer, Disturb, LoopEdge, Time
<1> QED
  BY <1>3, <1>7, <1>8, <1>9, <1>10 DEF Next

LEMMA SameUndisturbed == \A f : Bus!Undisturbed(f) = BusProofs!Undisturbed(f)
BY SameChars DEF Bus!Undisturbed, BusProofs!Undisturbed

\* An undisturbed frame takes every device with its address online in the step that
\* reads its last character.
THEOREM DeliveredOnline == Spec => DeliveredMeansOnline
<1> DEFINE Delivered ==
      BusProofs!ReadChar => \A f \in Answers : BusProofs!Undisturbed(f) => dispatched' = f
    TakenOnline ==
      Bus!ReadChar =>
        \A f \in Answers : \A d \in Devices :
          Bus!Undisturbed(f) /\ Address[d] = f.address =>
            online_status'[d] = "on" /\ silent'[d] = 0
<1>1. BusProofs!Spec => []BusProofs!TypeOK
  BY BusProofs!TypeCorrect, LineAssumption
<1>2. BusProofs!Spec => [][Delivered]_(BusProofs!vars)
  BY BusProofs!UndisturbedDelivered, LineAssumption DEF BusProofs!FrameDelivered
<1>3. BusProofs!TypeOK /\ [Next]_vars /\ [Delivered]_(BusProofs!vars) => [TakenOnline]_vars
  <2> SUFFICES ASSUME BusProofs!TypeOK, [Next]_vars, [Delivered]_(BusProofs!vars), Bus!ReadChar,
                      NEW f \in Answers, NEW d \in Devices,
                      Bus!Undisturbed(f), Address[d] = f.address
               PROVE  online_status'[d] = "on" /\ silent'[d] = 0
    OBVIOUS
  <2>1. BusProofs!ReadChar /\ BusProofs!Undisturbed(f)
    BY SameReadChar, SameUndisturbed
  <2>2. Read
    BY <2>1, OnlyRead
  <2>3. dispatched' = f
    <3>1. uart' # uart
      BY <2>1, ReadTakes
    <3> QED
      BY <2>1, <3>1 DEF BusProofs!vars
  <2>4. Bms!Receive(f)
    BY <2>2, <2>3, LineAssumption DEF Read
  <2> QED
    BY <2>4 DEF Bms!Receive, Bms!Listeners
<1> QED
  BY <1>1, <1>2, <1>3, ImplementsBus, PTL DEF Spec, DeliveredMeansOnline

-----------------------------------------------------------------------------
(* What faults excuse *)

\* Every request is heard, a frame has room in the buffer, and the time-out is longer than
\* two rounds of loop().
RoomAndTime ==
  /\ MaxRequests > 0
  /\ 2 * LoopTime <= rx_timeout
  /\ \A f \in Answers : Chars[f] - 1 <= MAX_RESPONSE_SIZE

\* Requests, answers and the line take turns when polls wait for the answers.
TakingTurns ==
  /\ \/ requests = << >>
     \/ /\ line = Bus!Idle
        /\ \E d \in Devices : requests = << Address[d] >>
  /\ line.frame = NoFrame => line = Bus!Idle

\* The polls of a device that went unanswered, of which every fault excuses two.
Excused(d) == silent[d] <= 2 * faults
FaultLeft(d) == silent[d] + 1 <= 2 * faults

\* The next answer will not run into the rest of something else, or is the one that does.
InStep(d) ==
  line # Bus!Idle \/ BusProofs!Settling \/ requests = << Address[d] >>

\* An answer to the last poll is awaited, and nothing is in its way.
AnswerDue(d) ==
  \/ requests = << Address[d] >> /\ uart = << >> /\ rx_buffer = << >>
  \/ /\ requests = << >>
     /\ \E f \in Answers : f.address = Address[d] /\ BusProofs!OnItsWay(f)

ExcuseInv(d) ==
  /\ TakingTurns
  /\ silent \in [Devices -> Nat]
  /\ \/ FaultLeft(d)
     \/ Excused(d) /\ InStep(d)
     \/ silent[d] <= 2 * faults + 1 /\ AnswerDue(d)

\* What is known of the bus in every state.
BusKnown == BusProofs!TypeOK /\ BusProofs!LineInv

LEMMA SameIdle == Bus!Idle = BusProofs!Idle /\ BusProofs!Idle.frame = NoFrame
BY DEF Bus!Idle, BusProofs!Idle

LEMMA ExcuseInit ==
  ASSUME NEW d \in Devices, Init
  PROVE  ExcuseInv(d)
<1>1. silent = [e \in Devices |-> 0] /\ faults = 0 /\ requests = << >>
      /\ line = Bus!Idle /\ uart = << >> /\ rx_buffer = << >>
  BY DEF Init, Bus!Init, Bms!Init
<1>2. TakingTurns /\ InStep(d)
  <2>1. TakingTurns
    BY Zenon, <1>1 DEF TakingTurns
  <2>2. InStep(d)
    BY Zenon, <1>1 DEF InStep, BusProofs!Settling
  <2> QED
    BY <2>1, <2>2
<1>3. silent \in [Devices -> Nat] /\ silent[d] = 0
  BY <1>1
<1>4. Excused(d)
  BY <1>1, <1>3 DEF Excused
<1> QED
  BY <1>2, <1>3, <1>4 DEF ExcuseInv

LEMMA FaultsType == BusKnown => faults \in Nat
BY DEF BusKnown, BusProofs!TypeOK

\* A fault excuses two polls.
LEMMA FaultExcuses ==
  ASSUME NEW d \in Devices, ExcuseInv(d), BusKnown,
         TakingTurns', faults' = faults + 1, silent' = silent
  PROVE  ExcuseInv(d)'
<1>1. silent[d] \in Nat /\ faults \in Nat
  BY FaultsType DEF ExcuseInv
<1>2. silent[d] <= 2 * faults + 1
  BY <1>1 DEF ExcuseInv, FaultLeft, Excused
<1>3. silent[d] + 1 <= 2 * (faults + 1)
  BY <1>1, <1>2
<1>4. FaultLeft(d)'
  BY <1>3 DEF FaultLeft
<1> QED
  BY <1>4 DEF ExcuseInv

\* A step without a fault and a poll, in which what is to come stays what it was or a frame
\* has come.
LEMMA StillExcused ==
  ASSUME NEW d \in Devices, ExcuseInv(d), BusKnown,
         TakingTurns', faults' = faults, silent' \in [Devices -> Nat], silent'[d] <= silent[d],
         InStep(d) => InStep(d)',
         AnswerDue(d) => AnswerDue(d)' \/ (silent'[d] = 0 /\ InStep(d)')
  PROVE  ExcuseInv(d)'
<1>1. silent[d] \in Nat /\ silent'[d] \in Nat /\ faults \in Nat
  BY FaultsType DEF ExcuseInv
<1>2. CASE FaultLeft(d)
  <2>1. silent'[d] + 1 <= 2 * faults
    BY <1>1, <1>2 DEF FaultLeft
  <2>2. FaultLeft(d)'
    BY <2>1 DEF FaultLeft
  <2> QED
    BY <2>2 DEF ExcuseInv
<1>3. CASE Excused(d) /\ InStep(d)
  <2>1. silent'[d] <= 2 * faults
    BY <1>1, <1>3 DEF Excused
  <2>2. Excused(d)'
    BY <2>1 DEF Excused
  <2> QED
    BY <1>3, <2>2 DEF ExcuseInv
<1>4. CASE silent[d] <= 2 * faults + 1 /\ AnswerDue(d)
  <2>1. silent'[d] <= 2 * faults' + 1
    BY <1>1, <1>4
  <2>2. CASE AnswerDue(d)'
    BY <2>1, <2>2 DEF ExcuseInv
  <2>3. CASE silent'[d] = 0 /\ InStep(d)'
    <3>1. Excused(d)'
      BY <1>1, <2>3 DEF Excused
    <3> QED
      BY <2>3, <3>1 DEF ExcuseInv
  <2> QED
    BY <1>4, <2>2, <2>3
<1> QED
  BY <1>2, <1>3, <1>4 DEF ExcuseInv

\* A poll that waits for the line.
LEMMA PollExcused ==
  ASSUME NEW d \in Devices, ExcuseInv(d), BusKnown, RoomAndTime, NEW e \in Devices, PacedPoll(e)
  PROVE  ExcuseInv(d)'
<1>1. /\ requests = << >> /\ line = Bus!Idle /\ uart = << >>
      /\ UNCHANGED bus /\ requests' = << Address[e] >> /\ Bms!Update(e)
  <2>1. Len(<< >>) < MaxRequests /\ Append(<< >>, Address[e]) = << Address[e] >>
    BY MaxRequestsAssumption DEF RoomAndTime
  <2>2. Settled /\ Poll(e)
    BY DEF PacedPoll
  <2>3. requests = << >> /\ line = Bus!Idle /\ uart = << >>
    BY <2>2 DEF Settled
  <2>4. Bms!Update(e) /\ Heard(Address[e]) /\ UNCHANGED bus
    BY Zenon, <2>2, <2>3 DEF Poll
  <2> QED
    BY <2>1, <2>3, <2>4 DEF Heard
<1>2. UNCHANGED << line, uart, rx_buffer, faults >>
  BY <1>1 DEF bus
<1>3. TakingTurns'
  BY <1>1, <1>2 DEF TakingTurns, Bus!Idle
<1>4. silent \in [Devices -> Nat] /\ silent[d] \in Nat /\ faults \in Nat
  BY FaultsType DEF ExcuseInv
<1>5. silent' = [silent EXCEPT ![e] = Bms!AtMost(silent[e] + 1, MAX_NO_RESPONSE_COUNT)]
  BY <1>1 DEF Bms!Update
<1>6. silent' \in [Devices -> Nat]
  BY <1>4, <1>5, CountAssumption DEF Bms!AtMost
<1>7. ~(\E f \in Answers : BusProofs!OnItsWay(f))
  BY <1>1, SameIdle, LineAssumption DEF BusProofs!OnItsWay
<1>8. CASE e = d
  <2>1. silent'[d] <= silent[d] + 1
    BY <1>4, <1>5, <1>8, CountAssumption DEF Bms!AtMost
  <2>2. CASE FaultLeft(d)
    <3>1. silent'[d] <= 2 * faults
      BY <1>4, <1>6, <2>1, <2>2 DEF FaultLeft
    <3>2. Excused(d)' /\ InStep(d)'
      BY <1>1, <1>2, <1>8, <3>1 DEF Excused, InStep
    <3> QED
      BY <1>3, <1>6, <3>2 DEF ExcuseInv
  <2>3. CASE ~FaultLeft(d)
    <3>1. Excused(d) /\ rx_buffer = << >>
      <4>1. Excused(d) /\ InStep(d)
        BY <1>1, <1>7, <2>3 DEF ExcuseInv, AnswerDue
      <4> QED
        BY <1>1, <4>1 DEF InStep, BusProofs!Settling
    <3>2. silent'[d] <= 2 * faults' + 1
      BY <1>2, <1>4, <1>6, <2>1, <3>1 DEF Excused
    <3>3. AnswerDue(d)'
      BY <1>1, <1>2, <1>8, <3>1 DEF AnswerDue
    <3> QED
      BY <1>3, <1>6, <3>2, <3>3 DEF ExcuseInv
  <2> QED
    BY <2>2, <2>3
<1>9. CASE e # d
  <2>1. silent'[d] <= silent[d]
    BY <1>4, <1>5, <1>9
  <2>2. InStep(d) => InStep(d)'
    BY <1>1, <1>2 DEF InStep, BusProofs!Settling
  <2>3. ~AnswerDue(d)
    BY <1>1, <1>7 DEF AnswerDue
  <2> QED
    BY <1>2, <1>3, <1>6, <2>1, <2>2, <2>3, StillExcused
<1> QED
  BY <1>8, <1>9

\* A character that is read.
LEMMA ReadExcused ==
  ASSUME NEW d \in Devices, ExcuseInv(d), BusKnown, RoomAndTime, Read
  PROVE  ExcuseInv(d)'
<1>1. /\ BusProofs!ReadChar /\ UNCHANGED << line, faults, requests >> /\ uart # << >>
      /\ dispatched' # NoFrame => Bms!Receive(dispatched')
      /\ dispatched' = NoFrame => UNCHANGED silent \/ silent' = [e \in Devices |-> 0]
  BY SameReadChar DEF Read, BusProofs!ReadChar, bms, Bms!Restart
<1>2. silent \in [Devices -> Nat]
  BY DEF ExcuseInv
<1>3. silent' \in [Devices -> Nat] /\ silent'[d] <= silent[d]
  <2>1. CASE dispatched' = NoFrame
    BY <1>1, <1>2, <2>1
  <2>2. CASE dispatched' # NoFrame
    <3>1. silent' = [e \in Devices |-> IF Address[e] = dispatched'.address THEN 0 ELSE silent[e]]
      BY <1>1, <2>2 DEF Bms!Receive
    <3> QED
      BY <1>2, <3>1
  <2> QED
    BY <2>1, <2>2
<1>4. TakingTurns'
  BY <1>1 DEF ExcuseInv, TakingTurns, Bus!Idle
<1>5. BusProofs!Settling => BusProofs!Settling'
  BY <1>1, BusProofs!ReadSettles, LineAssumption DEF BusKnown
<1>6. InStep(d) => InStep(d)'
  BY <1>1, <1>5 DEF InStep, Bus!Idle
<1>7. ASSUME AnswerDue(d) PROVE AnswerDue(d)' \/ (silent'[d] = 0 /\ InStep(d)')
  <2>1. PICK f \in Answers : f.address = Address[d] /\ BusProofs!OnItsWay(f) /\ requests = << >>
    BY <1>1, <1>7 DEF AnswerDue
  <2>2. CASE BusProofs!OnItsWay(f)'
    BY <1>1, <2>1, <2>2 DEF AnswerDue
  <2>3. CASE dispatched' = f /\ uart' = << >> /\ rx_buffer' = << >>
    <3>1. Bms!Receive(f)
      BY <1>1, <2>3, LineAssumption
    <3>2. silent'[d] = 0
      BY <2>1, <3>1 DEF Bms!Receive
    <3> QED
      BY <2>3, <3>2 DEF InStep, BusProofs!Settling
  <2>4. Chars[f] - 1 <= MAX_RESPONSE_SIZE
    BY DEF RoomAndTime
  <2> QED
    BY <1>1, <2>1, <2>2, <2>3, <2>4, BusProofs!OnItsWayRead, LineAssumption DEF BusKnown
<1> QED
  BY <1>1, <1>3, <1>4, <1>6, <1>7, StillExcused

\* The answer of a BMS that is there.
LEMMA AnswerExcused ==
  ASSUME NEW d \in Devices, ExcuseInv(d), BusKnown, Address[d] \in alive, Answer
  PROVE  ExcuseInv(d)'
<1>1. PICK e \in Devices : requests = << Address[e] >> /\ line = Bus!Idle
  BY DEF Answer, ExcuseInv, TakingTurns
<1>2. requests' = << >> /\ Head(requests) = Address[e] /\ UNCHANGED silent
  BY <1>1 DEF Answer, bms
<1>3. silent \in [Devices -> Nat] /\ silent' = silent /\ silent'[d] <= silent[d]
  BY <1>2 DEF ExcuseInv
<1>4. \/ \E f \in Answers : f.address = Address[e] /\ Bus!Send(f)
      \/ Address[e] \notin alive /\ UNCHANGED bus
  BY Zenon, <1>1, <1>2, SameIdle DEF Answer
<1>5. CASE \E f \in Answers : f.address = Address[e] /\ Bus!Send(f)
  <2>1. PICK f \in Answers : f.address = Address[e] /\ Bus!Send(f)
    BY <1>5
  <2>2. line'.frame = f /\ f # NoFrame /\ faults' = faults
    BY <2>1, LineAssumption DEF Bus!Send
  <2>3. line' # Bus!Idle
    BY <2>2 DEF Bus!Idle
  <2>4. TakingTurns' /\ InStep(d)'
    BY <1>2, <2>2, <2>3 DEF TakingTurns, InStep, Bus!Idle
  <2>5. ASSUME AnswerDue(d) PROVE AnswerDue(d)'
    <3>1. requests = << Address[d] >> /\ uart = << >> /\ rx_buffer = << >>
      BY <1>1, <2>5 DEF AnswerDue
    <3>2. Address[e] = Address[d]
      BY <1>1, <3>1
    <3>3. BusProofs!OnItsWay(f)'
      BY <2>1, <3>1, SameSend, BusProofs!SentIsOnItsWay, LineAssumption
    <3> QED
      BY <1>2, <2>1, <3>2, <3>3 DEF AnswerDue
  <2> QED
    BY <1>3, <2>2, <2>4, <2>5, StillExcused
<1>6. CASE Address[e] \notin alive /\ UNCHANGED bus
  <2>1. UNCHANGED << line, uart, rx_buffer, faults >>
    BY <1>6 DEF bus
  <2>2. requests # << Address[d] >>
    BY <1>1, <1>6
  <2>3. TakingTurns'
    BY <1>1, <1>2, <2>1 DEF TakingTurns, Bus!Idle
  <2>4. InStep(d) => InStep(d)'
    BY <1>1, <2>1, <2>2 DEF InStep, BusProofs!Settling
  <2>5. ~AnswerDue(d)
    BY <1>1, <2>2 DEF AnswerDue
  <2> QED
    BY <1>3, <2>1, <2>3, <2>4, <2>5, StillExcused
<1> QED
  BY <1>4, <1>5, <1>6

\* A character that arrives or is lost.
LEMMA TransferExcused ==
  ASSUME NEW d \in Devices, ExcuseInv(d), BusKnown, RoomAndTime, Transfer
  PROVE  ExcuseInv(d)'
<1>1. /\ line # Bus!Idle /\ line' = Bus!Passed /\ UNCHANGED << silent, requests >>
      /\ requests = << >> /\ line.frame # NoFrame
  BY DEF Transfer, Bus!Arrive, Bus!Lose, bms, ExcuseInv, TakingTurns
<1>2. line' = Bus!Idle \/ line'.frame = line.frame
  BY <1>1 DEF Bus!Passed, BusKnown, BusProofs!TypeOK
<1>3. TakingTurns'
  BY <1>1, <1>2 DEF TakingTurns, Bus!Idle
<1>4. silent \in [Devices -> Nat] /\ silent' = silent /\ silent'[d] <= silent[d]
  BY <1>1 DEF ExcuseInv
<1>5. CASE Bus!Lose
  BY <1>1, <1>3, <1>5, FaultExcuses DEF Bus!Lose
<1>6. CASE Bus!Arrive
  <2>1. BusProofs!Arrive /\ faults' = faults /\ rx_buffer' = rx_buffer
    BY <1>6, SameArrive DEF Bus!Arrive
  <2>2. line.frame \in Answers
    BY <1>1 DEF BusKnown, BusProofs!TypeOK
  <2>3. InStep(d)'
    <3>1. CASE line' # Bus!Idle
      BY <3>1 DEF InStep, Bus!Idle
    <3>2. CASE line' = Bus!Idle
      <4>1. BusProofs!Settling'
        BY <2>1, <2>2, <3>2, SameIdle, BusProofs!LastSettles, LineAssumption DEF BusKnown
      <4> QED
        BY <4>1 DEF InStep
    <3> QED
      BY <3>1, <3>2
  <2>4. ASSUME AnswerDue(d) PROVE AnswerDue(d)'
    <3>1. PICK f \in Answers : f.address = Address[d] /\ BusProofs!OnItsWay(f)
      BY <1>1, <2>4 DEF AnswerDue
    <3>2. BusProofs!OnItsWay(f)'
      BY <2>1, <3>1, BusProofs!OnItsWayArrives, LineAssumption DEF BusKnown, RoomAndTime
    <3> QED
      BY <1>1, <3>1, <3>2 DEF AnswerDue
  <2> QED
    BY <1>3, <1>4, <2>1, <2>3, <2>4, StillExcused
<1> QED
  BY <1>5, <1>6 DEF Transfer

\* The main loop and the clock.
LEMMA LoopExcused ==
  ASSUME NEW d \in Devices, ExcuseInv(d), BusKnown, LoopEdge \/ SteadyTime
  PROVE  ExcuseInv(d)'
<1>1. /\ BusProofs!LoopBegin \/ BusProofs!LoopEnd \/ BusProofs!Tick
      /\ UNCHANGED << silent, requests >>
  BY SameLoopEdge, SameTick DEF LoopEdge, SteadyTime, Time, bms
<1>2. UNCHANGED << line, uart, faults >> /\ (rx_buffer' = rx_buffer \/ rx_buffer' = << >>)
  BY <1>1 DEF BusProofs!LoopBegin, BusProofs!LoopEnd, BusProofs!Tick, BusProofs!history
<1>3. TakingTurns'
  BY <1>1, <1>2 DEF ExcuseInv, TakingTurns, Bus!Idle
<1>4. silent \in [Devices -> Nat] /\ silent' = silent /\ silent'[d] <= silent[d]
  BY <1>1 DEF ExcuseInv
<1>5. BusProofs!Settling => BusProofs!Settling'
  BY <1>1, BusProofs!LoopSettles, LineAssumption
<1>6. InStep(d) => InStep(d)'
  BY <1>1, <1>2, <1>5 DEF InStep, Bus!Idle
<1>7. ASSUME AnswerDue(d) PROVE AnswerDue(d)'
  <2>1. CASE requests = << Address[d] >> /\ uart = << >> /\ rx_buffer = << >>
    BY <1>1, <1>2, <2>1 DEF AnswerDue
  <2>2. ASSUME NEW f \in Answers, f.address = Address[d], BusProofs!OnItsWay(f), requests = << >>
        PROVE  AnswerDue(d)'
    <3>1. CASE BusProofs!LoopBegin \/ BusProofs!LoopEnd
      <4>1. BusProofs!OnItsWay(f)'
        BY <2>2, <3>1, BusProofs!OnItsWayLoops, LineAssumption DEF BusKnown, BusProofs!LineInv
      <4> QED
        BY <1>1, <2>2, <4>1 DEF AnswerDue
    <3>2. CASE SteadyTime
      <4>1. BusProofs!Tick /\ (line.sent > 0 => quiet + 1 + 2 * LoopTime <= rx_timeout)
        BY <3>2, SameTick DEF SteadyTime, Time
      <4>2. BusProofs!OnItsWay(f)'
        BY <2>2, <4>1, BusProofs!OnItsWayTicks, LineAssumption DEF BusKnown
      <4> QED
        BY <1>1, <2>2, <4>2 DEF AnswerDue
    <3> QED
      BY <3>1, <3>2, SameLoopEdge DEF LoopEdge
  <2> QED
    BY <1>7, <2>1, <2>2 DEF AnswerDue
<1> QED
  BY <1>2, <1>3, <1>4, <1>6, <1>7, StillExcused

LEMMA ExcuseNext ==
  ASSUME NEW d \in Devices, ExcuseInv(d), BusKnown, RoomAndTime, Address[d] \in alive,
         [PacedNext]_vars
  PROVE  ExcuseInv(d)'
<1>1. CASE Switch
  <2>1. UNCHANGED << bus, bms, requests >>
    BY <1>1 DEF Switch
  <2> QED
    BY <2>1 DEF bus, bms, ExcuseInv, TakingTurns, FaultLeft, Excused, InStep, AnswerDue,
                BusProofs!Settling, BusProofs!OnItsWay, BusProofs!Prefix, Bus!Idle, BusProofs!Idle
<1>2. CASE Disturb
  <2>1. faults' = faults + 1 /\ silent' = silent /\ UNCHANGED << line, requests >>
    BY <1>2 DEF Disturb, Bus!Disturb, bms
  <2>2. TakingTurns'
    BY <2>1 DEF ExcuseInv, TakingTurns, Bus!Idle
  <2> QED
    BY <2>1, <2>2, FaultExcuses
<1>3. CASE UNCHANGED vars
  BY <1>3 DEF vars, bus, bms, ExcuseInv, TakingTurns, FaultLeft, Excused, InStep, AnswerDue,
              BusProofs!Settling, BusProofs!OnItsWay, BusProofs!Prefix, Bus!Idle, BusProofs!Idle
<1> QED
  BY <1>1, <1>2, <1>3, PollExcused, ReadExcused, AnswerExcused, TransferExcused, LoopExcused
  DEF PacedNext

LEMMA PacedIsNext == [PacedNext]_vars => [Next]_vars
BY DEF PacedNext, Next, PacedPoll, SteadyTime

\* While its BMS is there, the polls of a device that went unanswered are at most two for
\* each fault and the one under way.
THEOREM SilenceExcused == RoomAndTime => (LiveSpec => FaultsExcuseSilence)
<1> SUFFICES ASSUME RoomAndTime, NEW d \in Devices
             PROVE  LiveSpec => ([](Address[d] \in alive) => [](silent[d] <= 2 * faults + 1))
  BY DEF FaultsExcuseSilence
<1>1. Init => ExcuseInv(d)
  BY ExcuseInit
<1>2. ExcuseInv(d) /\ BusKnown /\ Address[d] \in alive /\ [PacedNext]_vars => ExcuseInv(d)'
  BY ExcuseNext
<1>3. ExcuseInv(d) /\ BusKnown => silent[d] <= 2 * faults + 1
  BY FaultsType DEF ExcuseInv, FaultLeft, Excused
<1>4. [PacedNext]_vars => [Next]_vars
  BY PacedIsNext
<1>5. BusProofs!Spec => []BusKnown
  BY BusProofs!LineCorrect, LineAssumption DEF BusKnown
<1> HIDE DEF ExcuseInv
<1> QED
  BY <1>1, <1>2, <1>3, <1>4, <1>5, ImplementsBus, PTL DEF LiveSpec, Spec

\* With fewer faults than a device is patient, no device of a BMS that is there ever goes
\* offline: with one fault and a patience of five polls, as in the code, none does.
FewFaults == 2 * MaxFaults + 1 < MAX_NO_RESPONSE_COUNT

THEOREM NeverGivenUp ==
  RoomAndTime /\ FewFaults =>
    (LiveSpec =>
       \A d \in Devices : [](Address[d] \in alive) => [](online_status[d] # "off"))
<1> SUFFICES ASSUME RoomAndTime, FewFaults, NEW d \in Devices
             PROVE  LiveSpec => ([](Address[d] \in alive) => [](online_status[d] # "off"))
  OBVIOUS
<1>1. LiveSpec => ([](Address[d] \in alive) => [](silent[d] <= 2 * faults + 1))
  BY SilenceExcused DEF FaultsExcuseSilence
<1>2. BusKnown /\ BmsProofs!OfflineIffSilent /\ silent[d] <= 2 * faults + 1
        => online_status[d] # "off"
  <2> SUFFICES ASSUME BusKnown, BmsProofs!OfflineIffSilent, silent[d] <= 2 * faults + 1,
                      online_status[d] = "off"
               PROVE  FALSE
    OBVIOUS
  <2>1. silent[d] = MAX_NO_RESPONSE_COUNT
    BY DEF BmsProofs!OfflineIffSilent
  <2>2. faults \in Nat /\ faults <= MaxFaults
    BY DEF BusKnown, BusProofs!TypeOK
  <2> QED
    BY <2>1, <2>2, CountAssumption, LineAssumption DEF FewFaults
<1>3. [PacedNext]_vars => [Next]_vars
  BY PacedIsNext
<1>4. BusProofs!Spec => []BusKnown
  BY BusProofs!LineCorrect, LineAssumption DEF BusKnown
<1> QED
  BY <1>1, <1>2, <1>3, <1>4, ImplementsBus, OfflineMeansSilent, PTL DEF LiveSpec, Spec
=============================================================================
