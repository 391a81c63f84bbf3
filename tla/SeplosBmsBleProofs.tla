------------------------- MODULE SeplosBmsBleProofs -------------------------
(***************************************************************************)
(* Theorems about SeplosBmsBle, for every set of switches, every size of   *)
(* the answers, every notification size and every bound.                   *)
(***************************************************************************)
EXTENDS SeplosBmsBle, TLAPS

(* The queue and the frames. *)

LEMMA QueueCommands ==
  /\ Len(SEPLOS_COMMAND_QUEUE) = 4
  /\ \A n \in 0 .. 3 : Poll(SEPLOS_COMMAND_QUEUE[n + 1]) \in Requests
<1>1. \A n \in 0 .. 3 : SEPLOS_COMMAND_QUEUE[n + 1] \in Functions
  BY DEF SEPLOS_COMMAND_QUEUE, Functions
<1> QED BY <1>1 DEF SEPLOS_COMMAND_QUEUE, Requests

\* A switch is told by its register from a poll, which has register 0.
LEMMA RequestType ==
  ASSUME NEW request \in Requests
  PROVE  /\ request.function \in Functions
         /\ request.register \in Registers => request.state \in Positions
<1>1. CASE \E f \in Functions : request = Poll(f)
  BY <1>1, RegistersAssumption DEF Poll
<1>2. CASE \E r \in Registers, s \in Positions : request = MosfetControl(r, s)
  BY <1>2 DEF MosfetControl, Functions
<1> QED BY <1>1, <1>2 DEF Requests

LEMMA FrameType ==
  ASSUME NEW f \in Frames
  PROVE  /\ f.function \in Functions
         /\ f.mosfets \in [Registers -> Positions]
         /\ f.false_starts \subseteq Continuations(f.function)
         /\ AnswerSize[f.function] \in 10 .. MAX_RESPONSE_SIZE
<1>1. PICK g \in Functions :
        f \in [function : {g}, mosfets : [Registers -> Positions],
               false_starts : SUBSET Continuations(g)]
  BY DEF Frames
<1>2. f.function = g
  BY <1>1
<1> QED BY <1>1, <1>2, AnswerSizeAssumption

LEMMA AnswerRange ==
  ASSUME NEW f \in Frames
  PROVE  AnswerSize[f.function] \in FrameLengths /\ AnswerSize[f.function] <= 200
<1>1. AnswerSize[f.function] \in 10 .. MAX_RESPONSE_SIZE
  BY FrameType
<1> QED BY <1>1 DEF MAX_RESPONSE_SIZE, FrameLengths

LEMMA NewFrameType ==
  ASSUME NEW g \in Functions, NEW m \in [Registers -> Positions],
         NEW starts \in SUBSET Continuations(g)
  PROVE  [function |-> g, mosfets |-> m, false_starts |-> starts] \in Frames
  BY DEF Frames

\* The head of the air and how much of it the next notification carries.
LEMMA NotificationType ==
  ASSUME TypeOK, air # << >>
  PROVE  /\ Head(air) \in Frames
         /\ Tail(air) \in Seq(Frames)
         /\ AnswerSize[Head(air).function] \in FrameLengths
         /\ NotificationSize \in Nat \ {0}
         /\ taken + NotificationSize <= AnswerSize[Head(air).function]
<1> DEFINE bytes == AnswerSize[Head(air).function]
<1>1. Head(air) \in Frames /\ Tail(air) \in Seq(Frames)
  BY DEF TypeOK
<1>2. bytes \in FrameLengths /\ bytes \in Nat
  BY <1>1, AnswerRange DEF FrameLengths
<1>3. taken \in Nat /\ taken < bytes
  BY DEF TypeOK
<1>4. Mtu \in Nat /\ Mtu >= 20
  BY BoundsAssumption
<1>5. NotificationSize = IF bytes - taken <= Mtu THEN bytes - taken ELSE Mtu
  BY DEF NotificationSize
<1> HIDE DEF bytes
<1>6. NotificationSize \in Nat \ {0} /\ taken + NotificationSize <= bytes
  BY <1>2, <1>3, <1>4, <1>5
<1> QED BY <1>1, <1>2, <1>6 DEF bytes

-----------------------------------------------------------------------------
(* What each part of a handler leaves behind. *)

LEMMA SendType ==
  ASSUME TypeOK, NEW request \in Requests, NEW accepted \in BOOLEAN,
         send_command(request, accepted)
  PROVE  requests' \in Seq(Requests) /\ faults' \in 0 .. MaxFaults
<1>1. requests \in Seq(Requests) /\ faults \in 0 .. MaxFaults /\ MaxFaults \in Nat
  BY BoundsAssumption DEF TypeOK
<1> QED BY SMTT(20), <1>1 DEF send_command

LEMMA AskType ==
  ASSUME TypeOK, NEW n \in 0 .. 3, Ask(n)
  PROVE  requests' \in Seq(Requests) /\ faults' \in 0 .. MaxFaults
  BY SendType, QueueCommands DEF Ask

LEMMA AskNextType ==
  ASSUME TypeOK, AskNext
  PROVE  /\ next_command' \in 0 .. Len(SEPLOS_COMMAND_QUEUE)
         /\ requests' \in Seq(Requests)
         /\ faults' \in 0 .. MaxFaults
<1>1. next_command \in 0 .. 4
  BY QueueCommands DEF TypeOK
<1>2. CASE next_command < Len(SEPLOS_COMMAND_QUEUE)
  <2>1. next_command \in 0 .. 3 /\ Ask(next_command) /\ next_command' = next_command + 1
    BY <1>1, <1>2, QueueCommands DEF AskNext
  <2> QED BY <2>1, AskType, QueueCommands
<1>3. CASE ~(next_command < Len(SEPLOS_COMMAND_QUEUE))
  BY <1>3 DEF AskNext, TypeOK
<1> QED BY <1>2, <1>3

LEMMA PublishType ==
  ASSUME TypeOK, NEW f \in Frames, Publish(f)
  PROVE  /\ shown' \subseteq Publishing
         /\ switches' \in [Registers -> Positions \cup {Unknown}]
<1>1. f.mosfets \in [Registers -> Positions \cup {Unknown}]
  BY FrameType
<1> QED BY <1>1 DEF Publish, TypeOK

\* What one notification makes of the buffer.
Preamble == taken \in {0} \cup Head(air).false_starts
Received(stray) == Inserted(Kept(Preamble), Head(air), taken, NotificationSize, stray)

LEMMA EmptyBufferType == EmptyBuffer \in Buffers /\ HeadKnown(EmptyBuffer)
  BY DEF EmptyBuffer, Buffers, HeadKnown

LEMMA InsertedType ==
  ASSUME TypeOK, air # << >>, NEW stray \in StrayLengths
  PROVE  Received(stray) \in Buffers /\ HeadKnown(Received(stray))
<1> DEFINE b == Received(stray)
           k == Kept(Preamble)
<1>1. /\ Head(air) \in Frames
      /\ AnswerSize[Head(air).function] \in FrameLengths
      /\ NotificationSize \in Nat
  BY NotificationType
<1>2. k \in Buffers /\ HeadKnown(k)
  BY EmptyBufferType DEF Kept, TypeOK
<1>3. stray \in FrameLengths
  BY StrayLengthsAssumption
<1>4. CASE k.size = 0
  BY <1>1, <1>2, <1>3, <1>4 DEF Received, Inserted, Buffers, HeadKnown
<1>5. CASE k.size # 0
  <2> DEFINE more == k.intact /\ Head(air) = k.head /\ taken = k.size
  <2>1. b = [k EXCEPT !.size = k.size + NotificationSize, !.intact = more]
    BY <1>5 DEF Received, Inserted
  <2>2. more \in BOOLEAN /\ k.size + NotificationSize \in Nat
    BY <1>1, <1>2 DEF Buffers
  <2>3. /\ b \in Buffers
        /\ b.intact = more /\ b.head = k.head /\ b.expected = k.expected
    <3> HIDE DEF more, k
    <3> QED BY <2>1, <2>2, <1>2 DEF Buffers
  <2> QED BY <2>3, <1>2 DEF HeadKnown
<1> QED BY <1>4, <1>5

\* A notification leaves the buffer short of a frame, or empty.
LEMMA NotifyCases ==
  ASSUME Notify
  PROVE  \E stray \in StrayLengths :
           \/ /\ ~TooLarge(Received(stray)) /\ ~Complete(Received(stray))
              /\ frame_buffer' = Received(stray)
              /\ UNCHANGED << shown, switches, next_command, requests, faults >>
           \/ /\ Complete(Received(stray)) /\ ~TooLarge(Received(stray))
              /\ Received(stray).intact
              /\ Publish(Received(stray).head)
              /\ AskNext
              /\ frame_buffer' = EmptyBuffer
           \/ /\ \/ TooLarge(Received(stray))
                 \/ Complete(Received(stray)) /\ ~Received(stray).intact
              /\ frame_buffer' = EmptyBuffer
              /\ UNCHANGED << shown, switches, next_command, requests, faults >>
  BY DEF Notify, assemble, Received, Preamble

LEMMA AdvanceType ==
  ASSUME TypeOK, air # << >>, NEW delivered \in BOOLEAN, AdvanceAir(delivered)
  PROVE  /\ air' \in Seq(Frames)
         /\ taken' \in Nat
         /\ IF air' = << >> THEN taken' = 0 ELSE taken' < AnswerSize[Head(air').function]
         /\ whole' \in BOOLEAN
<1> DEFINE size == NotificationSize
           bytes == AnswerSize[Head(air).function]
<1>1. /\ Head(air) \in Frames
      /\ Tail(air) \in Seq(Frames)
      /\ bytes \in Nat
      /\ size \in Nat \ {0}
      /\ taken + size <= bytes
  BY NotificationType DEF FrameLengths
<1>2. taken \in Nat /\ air \in Seq(Frames)
  BY DEF TypeOK
<1>3. whole' \in BOOLEAN
  BY DEF AdvanceAir
<1>4. CASE LastNotification
  <2>1. air' = Tail(air) /\ taken' = 0
    BY <1>4 DEF AdvanceAir
  <2>2. air' # << >> => Head(air') \in Frames
    BY <2>1, <1>1
  <2>3. air' # << >> => AnswerSize[Head(air').function] \in FrameLengths
    BY <2>2, AnswerRange
  <2> QED BY <2>1, <2>3, <1>1, <1>3 DEF FrameLengths
<1>5. CASE ~LastNotification
  <2>1. taken' = taken + size /\ air' = air /\ taken + size # bytes
    BY <1>5 DEF AdvanceAir, LastNotification
  <2> QED BY <2>1, <1>1, <1>2, <1>3
<1> QED BY <1>4, <1>5

-----------------------------------------------------------------------------
(* Type correctness *)

LEMMA InitType == Init => TypeOK
<1> SUFFICES ASSUME Init PROVE TypeOK
  OBVIOUS
<1>1. frame_buffer \in Buffers /\ HeadKnown(frame_buffer)
      /\ frame_buffer.size < MAX_RESPONSE_SIZE
  BY EmptyBufferType DEF Init, EmptyBuffer, MAX_RESPONSE_SIZE
<1>2. faults \in 0 .. MaxFaults
  BY BoundsAssumption DEF Init
<1>3. /\ switches \in [Registers -> Positions \cup {Unknown}]
      /\ mosfets \in [Registers -> Positions]
  BY DEF Init
<1>4. next_command \in 0 .. Len(SEPLOS_COMMAND_QUEUE)
  BY QueueCommands DEF Init
<1>5. online \in BOOLEAN /\ whole \in BOOLEAN
  BY DEF Init
<1>6. /\ requests \in Seq(Requests) /\ air \in Seq(Frames) /\ taken \in Nat
      /\ IF air = << >> THEN taken = 0 ELSE taken < AnswerSize[Head(air).function]
      /\ shown \subseteq Publishing
  BY DEF Init
<1>7. /\ node_state \in {"IDLE", "ESTABLISHED"} /\ handles \subseteq {"notify", "command"}
      /\ link \in {"down", "open", "unsuitable", "subscribing", "up", "deaf"}
  BY DEF Init
<1> QED BY <1>1, <1>2, <1>3, <1>4, <1>5, <1>6, <1>7 DEF TypeOK

LEMMA UpdateType == TypeOK /\ Update => TypeOK'
<1> SUFFICES ASSUME TypeOK, Update PROVE TypeOK'
  OBVIOUS
<1>1. requests' \in Seq(Requests) /\ faults' \in 0 .. MaxFaults
  BY AskType DEF Update
<1>2. next_command' \in 0 .. Len(SEPLOS_COMMAND_QUEUE)
  BY QueueCommands DEF Update
<1> QED BY <1>1, <1>2 DEF Update, TypeOK

LEMMA PressType == TypeOK /\ Press => TypeOK'
<1> SUFFICES ASSUME TypeOK, NEW r \in Registers, NEW s \in Positions, WriteState(r, s)
             PROVE  TypeOK'
  BY DEF Press
<1>1. PICK accepted \in BOOLEAN :
        /\ send_command(MosfetControl(r, s), accepted)
        /\ switches' = IF accepted THEN [switches EXCEPT ![r] = s] ELSE switches
  BY DEF WriteState
<1>2. MosfetControl(r, s) \in Requests
  BY DEF Requests
<1>3. requests' \in Seq(Requests) /\ faults' \in 0 .. MaxFaults
  BY <1>1, <1>2, SendType
<1>4. switches' \in [Registers -> Positions \cup {Unknown}]
  BY <1>1 DEF TypeOK
<1> QED BY <1>3, <1>4 DEF WriteState, TypeOK

LEMMA RegForNotifyType == TypeOK /\ RegForNotify => TypeOK'
<1> SUFFICES ASSUME TypeOK, RegForNotify PROVE TypeOK'
  OBVIOUS
<1>1. requests' \in Seq(Requests) /\ faults' \in 0 .. MaxFaults
  BY AskType DEF RegForNotify
<1> QED BY <1>1 DEF RegForNotify, TypeOK

LEMMA NotifyType == TypeOK /\ Notify => TypeOK'
<1> SUFFICES ASSUME TypeOK, Notify PROVE TypeOK'
  OBVIOUS
<1>1. air # << >> /\ AdvanceAir(TRUE)
  BY DEF Notify
<1>2. /\ air' \in Seq(Frames)
      /\ taken' \in Nat
      /\ IF air' = << >> THEN taken' = 0 ELSE taken' < AnswerSize[Head(air').function]
      /\ whole' \in BOOLEAN
  BY <1>1, AdvanceType
<1>3. UNCHANGED << node_state, online, handles, link, mosfets >>
  BY DEF Notify
<1>4. EmptyBuffer.size < MAX_RESPONSE_SIZE
  BY DEF EmptyBuffer, MAX_RESPONSE_SIZE
<1>5. /\ frame_buffer' \in Buffers /\ HeadKnown(frame_buffer')
      /\ frame_buffer'.size < MAX_RESPONSE_SIZE
      /\ next_command' \in 0 .. Len(SEPLOS_COMMAND_QUEUE)
      /\ shown' \subseteq Publishing
      /\ switches' \in [Registers -> Positions \cup {Unknown}]
      /\ requests' \in Seq(Requests)
      /\ faults' \in 0 .. MaxFaults
  <2>1. PICK stray \in StrayLengths :
          \/ /\ ~TooLarge(Received(stray)) /\ ~Complete(Received(stray))
             /\ frame_buffer' = Received(stray)
             /\ UNCHANGED << shown, switches, next_command, requests, faults >>
          \/ /\ Received(stray).intact
             /\ Publish(Received(stray).head)
             /\ AskNext
             /\ frame_buffer' = EmptyBuffer
          \/ /\ frame_buffer' = EmptyBuffer
             /\ UNCHANGED << shown, switches, next_command, requests, faults >>
    BY NotifyCases
  <2>2. Received(stray) \in Buffers /\ HeadKnown(Received(stray))
    BY <1>1, InsertedType
  <2>3. CASE /\ ~TooLarge(Received(stray)) /\ ~Complete(Received(stray))
             /\ frame_buffer' = Received(stray)
             /\ UNCHANGED << shown, switches, next_command, requests, faults >>
    <3>1. Received(stray).size \in Nat /\ Received(stray).expected \in Nat
      BY <2>2 DEF Buffers, FrameLengths
    <3>2. Received(stray).size < MAX_RESPONSE_SIZE
      BY <2>3, <3>1 DEF TooLarge, Complete, MAX_RESPONSE_SIZE
    <3> QED BY <2>2, <2>3, <3>2 DEF TypeOK
  <2>4. CASE /\ Received(stray).intact
             /\ Publish(Received(stray).head)
             /\ AskNext
             /\ frame_buffer' = EmptyBuffer
    <3>1. Received(stray).head \in Frames
      BY <2>2, <2>4 DEF HeadKnown
    <3> QED BY <2>4, <3>1, <1>4, PublishType, AskNextType, EmptyBufferType
  <2>5. CASE /\ frame_buffer' = EmptyBuffer
             /\ UNCHANGED << shown, switches, next_command, requests, faults >>
    BY <2>5, <1>4, EmptyBufferType DEF TypeOK
  <2> QED BY <2>1, <2>3, <2>4, <2>5
<1> QED BY <1>2, <1>3, <1>5 DEF TypeOK

LEMMA AnswerType == TypeOK /\ Answer => TypeOK'
<1> SUFFICES ASSUME TypeOK, Answer PROVE TypeOK'
  OBVIOUS
<1> DEFINE h == Head(requests)
<1>1. requests # << >> /\ requests \in Seq(Requests) /\ air \in Seq(Frames)
  BY DEF Answer, TypeOK
<1>2. h \in Requests /\ Tail(requests) \in Seq(Requests)
  BY <1>1
<1>3. h.function \in Functions /\ (h.register \in Registers => h.state \in Positions)
  BY <1>2, RequestType
<1>4. mosfets' \in [Registers -> Positions]
  <2>1. mosfets \in [Registers -> Positions]
    BY DEF TypeOK
  <2>2. CASE mosfets' = mosfets
    BY <2>1, <2>2
  <2>3. CASE \E r \in Registers \cap {h.register} : mosfets' = [mosfets EXCEPT ![r] = h.state]
    <3>1. PICK r \in Registers \cap {h.register} : mosfets' = [mosfets EXCEPT ![r] = h.state]
      BY <2>3
    <3>2. h.state \in Positions
      BY <3>1, <1>3
    <3> HIDE DEF h
    <3> QED BY <2>1, <3>1, <3>2
  <2> QED BY <2>2, <2>3 DEF Answer
<1>5. PICK starts \in SUBSET Continuations(h.function) :
        /\ starts # {} => faults < MaxFaults
        /\ faults' = IF starts = {} THEN faults ELSE faults + 1
        /\ air' = IF link = "up"
                  THEN Append(air, [function |-> h.function, mosfets |-> mosfets',
                                    false_starts |-> starts])
                  ELSE air
  BY DEF Answer
<1>6. faults' \in 0 .. MaxFaults
  BY <1>5, BoundsAssumption DEF TypeOK
<1> DEFINE f == [function |-> h.function, mosfets |-> mosfets', false_starts |-> starts]
<1>7. f \in Frames
  BY <1>3, <1>4, <1>5, NewFrameType
<1>8. AnswerSize[f.function] \in Nat /\ 0 < AnswerSize[f.function]
  BY <1>7, AnswerRange DEF FrameLengths
<1>9. UNCHANGED << client, link, taken, whole >> /\ requests' = Tail(requests)
  BY DEF Answer
<1>10. /\ air' \in Seq(Frames)
       /\ IF air' = << >> THEN taken' = 0 ELSE taken' < AnswerSize[Head(air').function]
  <2> HIDE DEF f
  <2>1. CASE link # "up"
    BY <2>1, <1>5, <1>9 DEF TypeOK
  <2>2. CASE link = "up" /\ air = << >>
    <3>1. air' = << f >>
      BY <2>2, <1>5 DEF f
    <3>2. Head(air') = f /\ air' \in Seq(Frames) /\ taken' = 0
      BY <3>1, <2>2, <1>7, <1>9 DEF TypeOK
    <3> QED BY <3>1, <3>2, <1>8
  <2>3. CASE link = "up" /\ air # << >>
    <3>1. air' = Append(air, f)
      BY <2>3, <1>5 DEF f
    <3>2. Head(air') = Head(air) /\ air' \in Seq(Frames) /\ air' # << >>
      BY <3>1, <2>3, <1>1, <1>7
    <3> QED BY <3>2, <2>3, <1>9 DEF TypeOK
  <2> QED BY <2>1, <2>2, <2>3
<1> QED BY <1>2, <1>4, <1>6, <1>9, <1>10 DEF TypeOK, client

LEMMA PeerType == TypeOK /\ (StaySilent \/ LoseNotification \/ Protect) => TypeOK'
<1> SUFFICES ASSUME TypeOK PROVE StaySilent \/ LoseNotification \/ Protect => TypeOK'
  OBVIOUS
<1>1. ASSUME faults < MaxFaults, faults' = faults + 1
      PROVE  faults' \in 0 .. MaxFaults
  BY <1>1, BoundsAssumption DEF TypeOK
<1>2. ASSUME StaySilent PROVE TypeOK'
  <2>1. requests # << >> /\ requests \in Seq(Requests) /\ requests' = Tail(requests)
    BY <1>2 DEF StaySilent, TypeOK
  <2>2. requests' \in Seq(Requests)
    BY <2>1
  <2>3. faults' \in 0 .. MaxFaults
    BY <1>1, <1>2 DEF StaySilent
  <2> QED BY <1>2, <2>2, <2>3 DEF StaySilent, TypeOK, client
<1>3. ASSUME LoseNotification PROVE TypeOK'
  <2>1. /\ air' \in Seq(Frames)
        /\ taken' \in Nat
        /\ IF air' = << >> THEN taken' = 0 ELSE taken' < AnswerSize[Head(air').function]
        /\ whole' \in BOOLEAN
    BY <1>3, AdvanceType DEF LoseNotification
  <2>2. faults' \in 0 .. MaxFaults
    BY <1>1, <1>3 DEF LoseNotification
  <2> QED BY <1>3, <2>1, <2>2 DEF LoseNotification, TypeOK, client
<1>4. ASSUME Protect PROVE TypeOK'
  BY <1>4 DEF Protect, TypeOK, client
<1> QED BY <1>2, <1>3, <1>4

LEMMA NextType == TypeOK /\ [Next]_vars => TypeOK'
<1> SUFFICES ASSUME TypeOK, [Next]_vars PROVE TypeOK'
  OBVIOUS
<1>1. CASE Connect
  BY <1>1 DEF Connect, TypeOK, client
<1>2. CASE SearchComplete
  BY <1>2 DEF SearchComplete, TypeOK
<1>3. CASE Disconnect
  <2>1. /\ requests' \in Seq(Requests) /\ air' \in Seq(Frames) /\ taken' \in Nat
        /\ IF air' = << >> THEN taken' = 0 ELSE taken' < AnswerSize[Head(air').function]
    BY <1>3 DEF Disconnect
  <2>2. next_command' \in 0 .. Len(SEPLOS_COMMAND_QUEUE)
    BY <1>3, QueueCommands DEF Disconnect, ForgetProgress
  <2>3. frame_buffer' \in Buffers /\ HeadKnown(frame_buffer')
        /\ frame_buffer'.size < MAX_RESPONSE_SIZE
    BY <1>3, EmptyBufferType DEF Disconnect, ForgetProgress, EmptyBuffer, MAX_RESPONSE_SIZE
  <2>4. /\ node_state' \in {"IDLE", "ESTABLISHED"}
        /\ link' \in {"down", "open", "unsuitable", "subscribing", "up", "deaf"}
        /\ UNCHANGED << handles, shown, switches, mosfets, faults >>
    BY <1>3 DEF Disconnect
  <2>5. whole' \in BOOLEAN /\ online' \in BOOLEAN
    BY <1>3 DEF Disconnect
  <2> QED BY <2>1, <2>2, <2>3, <2>4, <2>5 DEF TypeOK
<1>4. CASE UNCHANGED vars
  BY <1>4 DEF vars, TypeOK
<1> QED BY <1>1, <1>2, <1>3, <1>4, UpdateType, PressType, RegForNotifyType, NotifyType,
           AnswerType, PeerType DEF Next, Events, Peer

(***************************************************************************)
(* Every reachable state of the V2 client is well typed: its position      *)
(* never leaves the queue, the buffer stays below MAX_RESPONSE_SIZE, and   *)
(* what is assembled intact is the beginning of a frame.                   *)
(***************************************************************************)
THEOREM TypeCorrect == Spec => []TypeOK
  BY InitType, NextType, PTL DEF Spec

-----------------------------------------------------------------------------
(* The connection and what came of the answer that is arriving *)

\* The two halves of PartInBuffer's invariance: a notification that is not the last one
\* of an undamaged answer is added to what came before it, or starts the buffer.
LEMMA PartReceived ==
  ASSUME TypeOK, PartInBuffer, air # << >>, Undamaged(Head(air)),
         NEW stray \in StrayLengths
  PROVE  Received(stray) =
           [size |-> taken + NotificationSize, expected |-> AnswerSize[Head(air).function],
            head |-> Head(air), intact |-> TRUE]
<1>1. taken \in Nat /\ NotificationSize \in Nat
  BY NotificationType DEF TypeOK
<1>2. CASE taken = 0
  <2>1. Kept(Preamble) = EmptyBuffer
    BY <1>2 DEF Kept, Preamble
  <2>2. EmptyBuffer.size = 0
    BY DEF EmptyBuffer
  <2> DEFINE first == taken = 0
  <2>3. Received(stray) =
          [size |-> NotificationSize,
           expected |-> IF first THEN AnswerSize[Head(air).function] ELSE stray,
           head |-> IF first THEN Head(air) ELSE NoFrame,
           intact |-> first]
    BY <2>1, <2>2 DEF Received, Inserted
  <2>4. first = TRUE /\ NotificationSize = taken + NotificationSize
    BY <1>1, <1>2
  <2> HIDE DEF first
  <2> QED BY <2>3, <2>4
<1>3. CASE taken > 0
  <2>1. frame_buffer = [size |-> taken, expected |-> AnswerSize[Head(air).function],
                        head |-> Head(air), intact |-> TRUE]
    BY <1>3 DEF PartInBuffer
  <2>2. ~Preamble
    BY <1>1, <1>3 DEF Preamble, Undamaged
  <2>3. frame_buffer.size = taken /\ ~(frame_buffer.size > MAX_RESPONSE_SIZE)
    BY <1>1, <2>1 DEF TypeOK, MAX_RESPONSE_SIZE
  <2>4. Kept(Preamble) = frame_buffer
    BY <2>2, <2>3 DEF Kept
  <2> DEFINE k == Kept(Preamble)
             more == k.intact /\ Head(air) = k.head /\ taken = k.size
  <2>5. k.size # 0
    BY <1>1, <1>3, <2>3, <2>4
  <2>6. Received(stray) = [k EXCEPT !.size = k.size + NotificationSize, !.intact = more]
    BY <2>5 DEF Received, Inserted
  <2>7. more = TRUE
    BY <2>1, <2>4
  <2>8. /\ k.size = taken
        /\ k = [size |-> taken, expected |-> AnswerSize[Head(air).function],
                head |-> Head(air), intact |-> TRUE]
    BY <2>1, <2>3, <2>4
  <2> HIDE DEF more, k
  <2>9. Received(stray) = [k EXCEPT !.size = taken + NotificationSize, !.intact = TRUE]
    BY <2>6, <2>7, <2>8
  <2>10. /\ Received(stray).size = taken + NotificationSize
         /\ Received(stray).expected = AnswerSize[Head(air).function]
         /\ Received(stray).head = Head(air)
         /\ Received(stray).intact = TRUE
    BY <2>8, <2>9
  <2>11. Received(stray) \in Buffers
    BY InsertedType
  <2> QED BY <2>10, <2>11 DEF Buffers
<1> QED BY <1>1, <1>2, <1>3

LEMMA NotifyClient == TypeOK /\ ClientInv /\ Notify => ClientInv'
<1> SUFFICES ASSUME TypeOK, ClientInv, Notify PROVE ClientInv'
  OBVIOUS
<1>1. /\ air # << >> /\ link = "up" /\ AdvanceAir(TRUE)
      /\ UNCHANGED << node_state, online, handles, link, mosfets >>
  BY DEF Notify
<1>2. node_state = "ESTABLISHED"
  BY <1>1 DEF ClientInv, LinkAgrees
<1>3. LinkAgrees' /\ OfflineIsClean'
  BY <1>1, <1>2 DEF ClientInv, LinkAgrees, OfflineIsClean
<1>4. PartInBuffer'
  <2> SUFFICES ASSUME air' # << >>, taken' > 0, whole', Head(air').false_starts = {}
               PROVE  frame_buffer' =
                        [size |-> taken', expected |-> AnswerSize[Head(air').function],
                         head |-> Head(air'), intact |-> TRUE]
    BY DEF PartInBuffer, Undamaged
  <2>1. ~LastNotification
    BY <1>1 DEF AdvanceAir
  <2>2. /\ air' = air /\ taken' = taken + NotificationSize /\ whole
        /\ taken + NotificationSize # AnswerSize[Head(air).function]
    BY <1>1, <2>1 DEF AdvanceAir, LastNotification
  <2>3. Undamaged(Head(air))
    BY <2>2 DEF Undamaged
  <2>4. PICK stray \in StrayLengths :
          \/ frame_buffer' = Received(stray)
          \/ Complete(Received(stray)) \/ TooLarge(Received(stray))
    BY NotifyCases
  <2>5. Received(stray) =
          [size |-> taken + NotificationSize, expected |-> AnswerSize[Head(air).function],
           head |-> Head(air), intact |-> TRUE]
    BY <1>1, <2>3, PartReceived DEF ClientInv
  <2>6. /\ taken + NotificationSize < AnswerSize[Head(air).function]
        /\ AnswerSize[Head(air).function] <= 200
        /\ taken + NotificationSize \in Nat
    BY <1>1, <2>2, NotificationType, AnswerRange DEF TypeOK, FrameLengths
  <2>7. ~Complete(Received(stray)) /\ ~TooLarge(Received(stray))
    BY <2>5, <2>6, NotificationType, <1>1 DEF Complete, TooLarge, MAX_RESPONSE_SIZE, FrameLengths
  <2> QED BY <2>2, <2>4, <2>5, <2>7
<1> QED BY <1>3, <1>4 DEF ClientInv

LEMMA NextClient == TypeOK /\ ClientInv /\ [Next]_vars => ClientInv'
<1> SUFFICES ASSUME TypeOK, ClientInv, [Next]_vars PROVE ClientInv'
  OBVIOUS
<1> USE DEF ClientInv
<1>1. CASE Update
  BY <1>1 DEF Update, MayPoll, LinkAgrees, OfflineIsClean, PartInBuffer, Undamaged
<1>2. CASE Press
  BY <1>2 DEF Press, WriteState, LinkAgrees, OfflineIsClean, PartInBuffer, Undamaged
<1>3. CASE Connect
  BY <1>3 DEF Connect, client, LinkAgrees, OfflineIsClean, PartInBuffer, Undamaged
<1>4. CASE SearchComplete
  BY <1>4 DEF SearchComplete, LinkAgrees, OfflineIsClean, PartInBuffer, Undamaged
<1>5. CASE RegForNotify
  BY <1>5 DEF RegForNotify, LinkAgrees, OfflineIsClean, PartInBuffer, Undamaged
<1>6. CASE Notify
  BY <1>6, NotifyClient
<1>7. CASE Disconnect
  BY <1>7 DEF Disconnect, ForgetProgress, LinkAgrees, OfflineIsClean, PartInBuffer
<1>8. CASE Answer
  <2>1. UNCHANGED << client, link, taken, whole >>
    BY <1>8 DEF Answer
  <2>2. LinkAgrees' /\ OfflineIsClean'
    BY <1>8, <2>1 DEF Answer, client, LinkAgrees, OfflineIsClean
  <2>3. CASE taken > 0
    <3>1. air # << >> /\ air \in Seq(Frames)
      BY <2>3 DEF TypeOK
    <3>2. air' = air \/ \E f : air' = Append(air, f)
      BY <1>8 DEF Answer
    <3>3. Head(air') = Head(air)
      BY <3>1, <3>2
    <3> QED BY <2>1, <2>2, <3>1, <3>3 DEF client, PartInBuffer, Undamaged
  <2>4. CASE ~(taken > 0)
    BY <2>1, <2>2, <2>4 DEF PartInBuffer
  <2> QED BY <2>3, <2>4
<1>9. CASE StaySilent
  BY <1>9 DEF StaySilent, client, LinkAgrees, OfflineIsClean, PartInBuffer, Undamaged
<1>10. CASE LoseNotification
  <2>1. UNCHANGED << client, link >> /\ air # << >> /\ AdvanceAir(FALSE)
    BY <1>10 DEF LoseNotification
  <2>2. LinkAgrees' /\ OfflineIsClean'
    BY <2>1 DEF client, LinkAgrees, OfflineIsClean
  <2>3. taken' = 0 \/ ~whole'
    BY <2>1 DEF AdvanceAir
  <2> QED BY <2>2, <2>3 DEF PartInBuffer, Undamaged
<1>11. CASE Protect
  BY <1>11 DEF Protect, client, LinkAgrees, OfflineIsClean, PartInBuffer, Undamaged
<1>12. CASE UNCHANGED vars
  BY <1>12 DEF vars, LinkAgrees, OfflineIsClean, PartInBuffer, Undamaged
<1> QED BY <1>1, <1>2, <1>3, <1>4, <1>5, <1>6, <1>7, <1>8, <1>9, <1>10, <1>11, <1>12
        DEF Next, Events, Peer

(***************************************************************************)
(* A lost connection leaves nothing behind, only a registered one carries  *)
(* answers, and what came of an undamaged answer so far is what is in the  *)
(* buffer.                                                                 *)
(***************************************************************************)
THEOREM ClientCorrect == Spec => []ClientInv
<1>1. Init => ClientInv
  BY DEF Init, ClientInv, LinkAgrees, OfflineIsClean, PartInBuffer
<1> QED BY <1>1, TypeCorrect, NextClient, PTL DEF Spec

-----------------------------------------------------------------------------
(* Decoding *)

LEMMA LastIsDecoded ==
  ASSUME TypeOK, ClientInv, Notify, LastNotification, Undamaged(Head(air))
  PROVE  frame_buffer' = EmptyBuffer /\ Publish(Head(air)) /\ AskNext
<1>1. air # << >>
  BY DEF Notify
<1>2. PICK stray \in StrayLengths :
        \/ ~Complete(Received(stray))
        \/ TooLarge(Received(stray))
        \/ ~Received(stray).intact
        \/ Publish(Received(stray).head) /\ AskNext /\ frame_buffer' = EmptyBuffer
  BY NotifyCases
<1>3. Received(stray) =
        [size |-> taken + NotificationSize, expected |-> AnswerSize[Head(air).function],
         head |-> Head(air), intact |-> TRUE]
  BY <1>1, PartReceived DEF ClientInv
<1>4. /\ taken + NotificationSize = AnswerSize[Head(air).function]
      /\ AnswerSize[Head(air).function] \in FrameLengths
      /\ AnswerSize[Head(air).function] <= 200
  BY <1>1, NotificationType, AnswerRange DEF LastNotification
<1>5. Complete(Received(stray)) /\ ~TooLarge(Received(stray))
  BY <1>3, <1>4 DEF Complete, TooLarge, MAX_RESPONSE_SIZE, FrameLengths
<1> QED BY <1>2, <1>3, <1>5

(***************************************************************************)
(* Whatever happened before, the step that delivers the last notification  *)
(* of an undamaged answer decodes it, publishes a status answer that is    *)
(* long enough, and moves the queue on by one.                             *)
(***************************************************************************)
THEOREM UndamagedDecoded == Spec => UndamagedIsDecoded
<1>1. ASSUME TypeOK, ClientInv, Notify, LastNotification, Undamaged(Head(air))
      PROVE  /\ frame_buffer' = EmptyBuffer
             /\ next_command' = IF next_command < Len(SEPLOS_COMMAND_QUEUE)
                                THEN next_command + 1 ELSE next_command
             /\ Head(air).function = "single_machine"
                  /\ AnswerSize["single_machine"] >= MinimalSize["single_machine"]
                  => switches' = Head(air).mosfets /\ "single_machine" \in shown'
  <2>1. frame_buffer' = EmptyBuffer /\ Publish(Head(air)) /\ AskNext
    BY <1>1, LastIsDecoded
  <2>2. next_command' = IF next_command < Len(SEPLOS_COMMAND_QUEUE)
                        THEN next_command + 1 ELSE next_command
    BY <2>1 DEF AskNext
  <2> QED BY <2>1, <2>2 DEF Publish, Publishing
<1>2. TypeOK /\ ClientInv /\ [Next]_vars =>
        [Notify /\ LastNotification /\ Undamaged(Head(air)) =>
           /\ frame_buffer' = EmptyBuffer
           /\ next_command' = IF next_command < Len(SEPLOS_COMMAND_QUEUE)
                              THEN next_command + 1 ELSE next_command
           /\ Head(air).function = "single_machine"
                /\ AnswerSize["single_machine"] >= MinimalSize["single_machine"]
                => switches' = Head(air).mosfets /\ "single_machine" \in shown']_vars
  BY <1>1
<1> QED BY <1>2, TypeCorrect, ClientCorrect, PTL DEF Spec, UndamagedIsDecoded
=============================================================================
