------------------------ MODULE SeplosBmsV3BleProofs ------------------------
(***************************************************************************)
(* Theorems about SeplosBmsV3Ble, for every command table, set of packs,   *)
(* notification size and bound.                                            *)
(***************************************************************************)
EXTENDS SeplosBmsV3Ble, SequenceTheorems, TLAPS

(***************************************************************************)
(* The queue build_dynamic_command_queue_ makes holds commands only, and   *)
(* at least one.                                                           *)
(***************************************************************************)
LEMMA QueueType ==
  /\ BuiltQueue \in Seq(Command)
  /\ Len(BuiltQueue) = Len(SystemCommands) + 3 * Len(PackAddresses)
  /\ Len(BuiltQueue) \in Nat \ {0}
  /\ BuiltQueue # << >>
  /\ BuiltQueue[1] \in Command
<1> DEFINE S == Len(SystemCommands)
           N == S + 3 * Len(PackAddresses)
<1>1. S \in Nat \ {0} /\ Len(PackAddresses) \in Nat /\ N \in Nat \ {0}
  BY SystemCommandsAssumption, PackAddressesAssumption
<1>2. ASSUME NEW i \in 1 .. N
      PROVE  BuiltQueue[i] \in Command
  <2>1. CASE i <= S
    <3>1. BuiltQueue[i] = SystemCommands[i]
      BY <2>1, <1>1 DEF BuiltQueue
    <3>2. SystemCommands[i] \in SystemCommand
      BY <2>1, <1>1, SystemCommandsAssumption
    <3> QED BY <3>1, <3>2 DEF Command
  <2>2. CASE i > S
    <3> DEFINE k == i - S - 1
               b == SEPLOS_V3_PACK_COMMANDS[(k % 3) + 1].reg_start
               a == PackAddresses[(k \div 3) + 1]
    <3>1. k \in Nat /\ k < 3 * Len(PackAddresses)
      BY <2>2, <1>1
    <3>2. k % 3 \in 0 .. 2 /\ k \div 3 \in 0 .. Len(PackAddresses) - 1
      BY <3>1, <1>1
    <3>3. a \in Devices
      BY <3>2, <1>1, PackAddressesAssumption
    <3>4. (k % 3) + 1 \in 1 .. 3
      BY <3>2
    <3>5. b \in PackBlocks
      BY <3>4 DEF SEPLOS_V3_PACK_COMMANDS, Cmd, PackBlocks
    <3>6. BuiltQueue[i] = Cmd(a, b)
      BY <2>2, <1>1 DEF BuiltQueue
    <3>7. Cmd(a, b) \in PackCommand
      BY <3>3, <3>5 DEF PackCommand, Cmd
    <3> QED BY <3>6, <3>7 DEF Command
  <2> QED BY <2>1, <2>2, <1>1
<1>3. DOMAIN BuiltQueue = 1 .. N
  BY DEF BuiltQueue
<1>4. BuiltQueue \in [1 .. N -> Command]
  BY <1>2, <1>3 DEF BuiltQueue
<1>5. BuiltQueue \in Seq(Command) /\ Len(BuiltQueue) = N
  BY <1>4, <1>1
<1> QED BY <1>5, <1>1, <1>2

(* The tables of the protocol. *)

LEMMA DataBytesRange == \A b \in Blocks : DataBytes[b] \in Nat /\ DataBytes[b] <= 255
  BY DEF DataBytes, RegCount, Blocks, SystemBlocks, PackBlocks

\* A frame needs a header and a CRC, and its length byte bounds it.
LEMMA FrameBytesRange == \A f \in Frame : FrameBytes(f) \in FrameLengths
<1> SUFFICES ASSUME NEW f \in Frame
             PROVE  FrameBytes(f) \in FrameLengths
  OBVIOUS
<1>1. f.cmd.reg_start \in Blocks
  BY DEF Frame, Command, SystemCommand, PackCommand, Blocks
<1>2. DataBytes[f.cmd.reg_start] \in Nat /\ DataBytes[f.cmd.reg_start] <= 255
  BY <1>1, DataBytesRange
<1> QED BY <1>2 DEF FrameBytes, FrameLengths

\* What Shown leaves in a sensor group is a command or one of the two marks.
LEMMA ShownType ==
  ASSUME NEW b, NEW cmd \in Command, NEW before \in Command \cup {Never, Overread}
  PROVE  Shown(b, cmd, before) \in Command \cup {Never, Overread}
  BY DEF Shown

LEMMA CommandBlock == \A cmd \in Command : cmd.reg_start \in Blocks
  BY DEF Command, SystemCommand, PackCommand, Blocks

\* The head of the air and how much of it the next notification carries.
LEMMA NotificationType ==
  ASSUME TypeOK, air # << >>
  PROVE  /\ Head(air) \in Frame
         /\ Tail(air) \in Seq(Frame)
         /\ FrameBytes(Head(air)) \in FrameLengths
         /\ NotificationSize \in Nat \ {0}
         /\ NotificationSize <= 260
         /\ taken + NotificationSize <= FrameBytes(Head(air))
<1>1. Head(air) \in Frame /\ Tail(air) \in Seq(Frame)
  BY DEF TypeOK
<1>2. FrameBytes(Head(air)) \in FrameLengths
  BY <1>1, FrameBytesRange
<1>3. taken \in Nat /\ taken < FrameBytes(Head(air))
  BY DEF TypeOK
<1> DEFINE bytes == FrameBytes(Head(air))
<1>4. bytes \in Nat /\ bytes <= 260 /\ bytes - taken \in Nat \ {0}
  BY <1>2, <1>3 DEF FrameLengths
<1>5. NotificationSize = IF bytes - taken <= Mtu THEN bytes - taken ELSE Mtu
  BY DEF NotificationSize
<1>6. Mtu \in Nat \ {0}
  BY BoundsAssumption
<1> HIDE DEF bytes
<1>7. taken \in Nat
  BY <1>3
<1>8. /\ NotificationSize \in Nat \ {0}
      /\ NotificationSize <= 260
      /\ taken + NotificationSize <= bytes
  BY <1>4, <1>5, <1>6, <1>7
<1> QED BY <1>1, <1>2, <1>8 DEF bytes

-----------------------------------------------------------------------------
(* What each part of a handler leaves behind. *)

LEMMA SendType ==
  ASSUME TypeOK, NEW cmd \in Command, send_command(cmd)
  PROVE  requests' \in Seq(Command) /\ faults' \in 0 .. MaxFaults
<1>1. requests \in Seq(Command) /\ faults \in 0 .. MaxFaults /\ MaxFaults \in Nat
  BY BoundsAssumption DEF TypeOK
<1> QED BY SMTT(20), <1>1 DEF send_command

LEMMA AskType ==
  ASSUME TypeOK, NEW cmd \in Command, Ask(cmd)
  PROVE  /\ pending_reg_start' \in Blocks
         /\ requests' \in Seq(Command)
         /\ faults' \in 0 .. MaxFaults
  BY SendType, CommandBlock DEF Ask

LEMMA AskNextType ==
  ASSUME TypeOK, AskNext
  PROVE  /\ pending_reg_start' \in Blocks \cup {"none"}
         /\ next_command' \in 0 .. Len(BuiltQueue)
         /\ requests' \in Seq(Command)
         /\ faults' \in 0 .. MaxFaults
<1>1. CASE next_command < Len(command_queue)
  <2>1. command_queue = BuiltQueue
    BY <1>1, QueueType DEF TypeOK
  <2>2. next_command + 1 \in 1 .. Len(BuiltQueue)
    BY <1>1, <2>1, QueueType DEF TypeOK
  <2>3. command_queue[next_command + 1] \in Command
    BY <2>1, <2>2, QueueType
  <2>4. Ask(command_queue[next_command + 1]) /\ next_command' = next_command + 1
    BY <1>1 DEF AskNext
  <2> QED BY <2>2, <2>3, <2>4, AskType
<1>2. CASE ~(next_command < Len(command_queue))
  BY <1>2 DEF AskNext, TypeOK
<1> QED BY <1>1, <1>2

LEMMA DecodeType ==
  ASSUME TypeOK, NEW f \in Frame, Decode(f)
  PROVE  /\ sensors' \in [Groups -> Command \cup {Never, Overread}]
         /\ pack_count' \in 0 .. 16
<1>1. f.cmd \in Command
  BY DEF Frame
<1>2. CASE DecodeSystem(f.cmd)
  <2>1. PublishedPackCounts \subseteq 0 .. 16
    <3> SUFFICES ASSUME NEW n \in ReportedPackCounts
                 PROVE  (IF n <= 16 THEN n ELSE 16) \in 0 .. 16
      BY DEF PublishedPackCounts
    <3>1. n \in Nat
      BY PackCountsAssumption
    <3> QED BY <3>1
  <2>2. CASE pending_reg_start \in SystemBlocks
    <3> DEFINE g == <<0, pending_reg_start>>
    <3>1. g \in Groups
      BY <2>2 DEF Groups
    <3>2. Shown(pending_reg_start, f.cmd, sensors[g]) \in Command \cup {Never, Overread}
      BY <1>1, <3>1, ShownType DEF TypeOK
    <3>3. sensors' = [sensors EXCEPT ![g] = Shown(pending_reg_start, f.cmd, sensors[g])]
      BY <1>2, <2>2 DEF DecodeSystem
    <3> QED BY <1>2, <2>1, <2>2, <3>1, <3>2, <3>3 DEF DecodeSystem, TypeOK
  <2>3. CASE pending_reg_start \notin SystemBlocks
    BY <1>2, <2>3 DEF DecodeSystem, TypeOK
  <2> QED BY <2>2, <2>3
<1>3. CASE DecodePack(f.cmd)
  <2>1. ASSUME NEW g \in Groups
        PROVE  Shown(g[2], f.cmd, sensors[g]) \in Command \cup {Never, Overread}
    BY <1>1, ShownType DEF TypeOK
  <2> QED BY <1>3, <2>1 DEF DecodePack, TypeOK
<1>4. CASE UNCHANGED << sensors, pack_count >>
  BY <1>4 DEF TypeOK
<1> QED BY <1>2, <1>3, <1>4 DEF Decode

\* What one notification makes of the buffer, and the three ways assemble() ends.
Kept == IF frame_buffer.size > MAX_RESPONSE_SIZE THEN EmptyBuffer ELSE frame_buffer
Received(stray) == Inserted(Kept, Head(air), taken, NotificationSize, stray)

LEMMA InsertedType ==
  ASSUME TypeOK, air # << >>, NEW stray \in StrayLengths
  PROVE  Received(stray) \in Buffers /\ HeadKnown(Received(stray))
<1> DEFINE b == Received(stray)
<1>1. /\ Head(air) \in Frame
      /\ FrameBytes(Head(air)) \in FrameLengths
      /\ NotificationSize \in Nat
  BY NotificationType
<1>2. Kept \in Buffers /\ HeadKnown(Kept)
  BY DEF Kept, TypeOK, EmptyBuffer, Buffers, HeadKnown, NoFrame
<1>3. stray \in FrameLengths
  BY StrayLengthsAssumption
<1>4. CASE Kept.size = 0
  BY <1>1, <1>2, <1>3, <1>4 DEF Received, Inserted, Buffers, HeadKnown
<1>5. CASE Kept.size # 0
  <2> DEFINE more == Kept.intact /\ Head(air) = Kept.head /\ taken = Kept.size
  <2>1. b = [Kept EXCEPT !.size = Kept.size + NotificationSize, !.intact = more]
    BY <1>5 DEF Received, Inserted
  <2>2. more \in BOOLEAN /\ Kept.size + NotificationSize \in Nat
    BY <1>1, <1>2 DEF Buffers
  <2>3. /\ b \in Buffers
        /\ b.intact = more /\ b.head = Kept.head /\ b.expected = Kept.expected
    <3> HIDE DEF more
    <3> QED BY <2>1, <2>2, <1>2 DEF Buffers
  <2> QED BY <2>3, <1>2 DEF HeadKnown
<1> QED BY <1>4, <1>5

\* Nothing was received yet.
LEMMA EmptyBufferType == EmptyBuffer \in Buffers /\ HeadKnown(EmptyBuffer)
  BY DEF EmptyBuffer, Buffers, HeadKnown

LEMMA NotifyCases ==
  ASSUME Notify
  PROVE  \E stray \in StrayLengths :
           \/ /\ ~Complete(Received(stray))
              /\ frame_buffer' = Received(stray)
              /\ UNCHANGED << sensors, pack_count, next_command, pending_reg_start,
                              requests, faults >>
           \/ /\ Complete(Received(stray)) /\ Received(stray).intact
              /\ Decode(Received(stray).head)
              /\ AskNext
              /\ frame_buffer' = EmptyBuffer
           \/ /\ frame_buffer' = EmptyBuffer
              /\ UNCHANGED << sensors, pack_count, next_command, pending_reg_start,
                              requests, faults >>
  BY DEF Notify, assemble, Received, Kept

LEMMA AdvanceType ==
  ASSUME TypeOK, air # << >>, AdvanceAir
  PROVE  /\ air' \in Seq(Frame)
         /\ taken' \in Nat
         /\ IF air' = << >> THEN taken' = 0 ELSE taken' < FrameBytes(Head(air'))
<1> DEFINE size == NotificationSize
           bytes == FrameBytes(Head(air))
<1>1. /\ Head(air) \in Frame
      /\ Tail(air) \in Seq(Frame)
      /\ bytes \in FrameLengths
      /\ size \in Nat \ {0}
      /\ taken + size <= bytes
  BY NotificationType
<1>2. taken \in Nat /\ air \in Seq(Frame)
  BY DEF TypeOK
<1>3. CASE taken + size = bytes
  <2>1. air' = Tail(air) /\ taken' = 0
    BY <1>3 DEF AdvanceAir
  <2>2. air' # << >> => FrameBytes(Head(air')) \in FrameLengths
    BY <2>1, <1>1, FrameBytesRange
  <2> QED BY <2>1, <2>2, <1>1 DEF FrameLengths
<1>4. CASE taken + size # bytes
  <2>1. taken' = taken + size /\ air' = air
    BY <1>4 DEF AdvanceAir
  <2> QED BY <2>1, <1>1, <1>2, <1>4 DEF FrameLengths
<1> QED BY <1>3, <1>4

-----------------------------------------------------------------------------
(* Type correctness *)

LEMMA InitType == Init => TypeOK
<1> SUFFICES ASSUME Init PROVE TypeOK
  OBVIOUS
<1>1. next_command \in 0 .. Len(BuiltQueue)
  BY QueueType DEF Init
<1>2. sensors \in [Groups -> Command \cup {Never, Overread}]
  BY DEF Init
<1>3. frame_buffer \in Buffers /\ HeadKnown(frame_buffer)
  BY EmptyBufferType DEF Init
<1>4. faults \in 0 .. MaxFaults
  BY BoundsAssumption DEF Init
<1>5. /\ requests \in Seq(Command) /\ air \in Seq(Frame) /\ taken \in Nat
      /\ IF air = << >> THEN taken = 0 ELSE taken < FrameBytes(Head(air))
  BY DEF Init
<1>6. online \in BOOLEAN
  BY DEF Init
<1>7. /\ node_state \in {"IDLE", "ESTABLISHED"}
      /\ handles \subseteq {"notify", "command"} /\ pending_reg_start \in Blocks \cup {"none"}
      /\ command_queue \in { << >>, BuiltQueue } /\ pack_count \in 0 .. 16
      /\ link \in {"down", "open", "unsuitable", "subscribing", "up", "deaf"}
  BY DEF Init
<1> QED BY <1>1, <1>2, <1>3, <1>4, <1>5, <1>6, <1>7 DEF TypeOK

LEMMA UpdateType == TypeOK /\ Update => TypeOK'
<1> SUFFICES ASSUME TypeOK, Update PROVE TypeOK'
  OBVIOUS
<1>1. command_queue' = BuiltQueue
  BY DEF Update, TypeOK
<1>2. /\ pending_reg_start' \in Blocks
      /\ requests' \in Seq(Command)
      /\ faults' \in 0 .. MaxFaults
  BY <1>1, QueueType, AskType DEF Update
<1>3. next_command' \in 0 .. Len(BuiltQueue)
  BY QueueType DEF Update
<1> QED BY <1>1, <1>2, <1>3 DEF Update, TypeOK

LEMMA RegForNotifyType == TypeOK /\ RegForNotify => TypeOK'
<1> SUFFICES ASSUME TypeOK, RegForNotify PROVE TypeOK'
  OBVIOUS
<1>1. /\ pending_reg_start' \in Blocks \cup {"none"}
      /\ requests' \in Seq(Command)
      /\ faults' \in 0 .. MaxFaults
  <2>1. CASE command_queue # << >>
    <3>1. command_queue = BuiltQueue
      BY <2>1 DEF TypeOK
    <3> QED BY <2>1, <3>1, QueueType, AskType DEF RegForNotify
  <2>2. CASE command_queue = << >>
    BY <2>2 DEF RegForNotify, TypeOK
  <2> QED BY <2>1, <2>2
<1> QED BY <1>1 DEF RegForNotify, TypeOK

LEMMA NotifyType == TypeOK /\ Notify => TypeOK'
<1> SUFFICES ASSUME TypeOK, Notify PROVE TypeOK'
  OBVIOUS
<1>1. air # << >> /\ AdvanceAir
  BY DEF Notify
<1>2. /\ air' \in Seq(Frame)
      /\ taken' \in Nat
      /\ IF air' = << >> THEN taken' = 0 ELSE taken' < FrameBytes(Head(air'))
  BY <1>1, AdvanceType
<1>3. UNCHANGED << node_state, online, handles, command_queue, link >>
  BY DEF Notify
<1>4. /\ frame_buffer' \in Buffers /\ HeadKnown(frame_buffer')
      /\ next_command' \in 0 .. Len(BuiltQueue)
      /\ pending_reg_start' \in Blocks \cup {"none"}
      /\ pack_count' \in 0 .. 16
      /\ sensors' \in [Groups -> Command \cup {Never, Overread}]
      /\ requests' \in Seq(Command)
      /\ faults' \in 0 .. MaxFaults
  <2>1. PICK stray \in StrayLengths :
          \/ /\ frame_buffer' \in {Received(stray), EmptyBuffer}
             /\ UNCHANGED << sensors, pack_count, next_command, pending_reg_start,
                             requests, faults >>
          \/ /\ Received(stray).intact
             /\ Decode(Received(stray).head)
             /\ AskNext
             /\ frame_buffer' = EmptyBuffer
    BY NotifyCases
  <2>2. Received(stray) \in Buffers /\ HeadKnown(Received(stray))
    BY <1>1, InsertedType
  <2>3. CASE /\ frame_buffer' \in {Received(stray), EmptyBuffer}
             /\ UNCHANGED << sensors, pack_count, next_command, pending_reg_start,
                             requests, faults >>
    BY <2>2, <2>3, EmptyBufferType DEF TypeOK
  <2>4. CASE /\ Received(stray).intact
             /\ Decode(Received(stray).head)
             /\ AskNext
             /\ frame_buffer' = EmptyBuffer
    <3>1. Received(stray).head \in Frame
      BY <2>2, <2>4 DEF HeadKnown
    <3> QED BY <2>4, <3>1, DecodeType, AskNextType, EmptyBufferType
  <2> QED BY <2>1, <2>3, <2>4
<1> QED BY <1>2, <1>3, <1>4 DEF TypeOK

LEMMA AnswerType == TypeOK /\ Answer => TypeOK'
<1> SUFFICES ASSUME TypeOK, Answer PROVE TypeOK'
  OBVIOUS
<1>1. requests # << >> /\ requests \in Seq(Command) /\ air \in Seq(Frame)
  BY DEF Answer, TypeOK
<1>2. Head(requests) \in Command /\ Tail(requests) \in Seq(Command)
  BY <1>1
<1>3. PICK error \in BOOLEAN :
        /\ error => faults < MaxFaults
        /\ faults' = IF error THEN faults + 1 ELSE faults
        /\ air' = IF link = "up"
                  THEN Append(air, [cmd |-> Head(requests), error |-> error]) ELSE air
  BY DEF Answer
<1>4. faults' \in 0 .. MaxFaults
  BY <1>3, BoundsAssumption DEF TypeOK
<1> DEFINE f == [cmd |-> Head(requests), error |-> error]
<1>5. f \in Frame
  BY <1>2 DEF Frame
<1>6. FrameBytes(f) \in FrameLengths
  BY <1>5, FrameBytesRange
<1>7. UNCHANGED << client, link, taken >> /\ requests' = Tail(requests)
  BY DEF Answer
<1>8. /\ air' \in Seq(Frame)
      /\ IF air' = << >> THEN taken' = 0 ELSE taken' < FrameBytes(Head(air'))
  <2>1. CASE link # "up"
    BY <2>1, <1>3, <1>7 DEF TypeOK
  <2>2. CASE link = "up" /\ air = << >>
    <3>1. air' = << f >>
      BY <2>2, <1>3
    <3> QED BY <3>1, <2>2, <1>5, <1>6, <1>7 DEF TypeOK, FrameLengths
  <2>3. CASE link = "up" /\ air # << >>
    <3>1. air' = Append(air, f)
      BY <2>3, <1>3
    <3>2. Head(air') = Head(air) /\ air' \in Seq(Frame) /\ air' # << >>
      BY <3>1, <2>3, <1>1, <1>5
    <3> QED BY <3>2, <2>3, <1>7 DEF TypeOK
  <2> QED BY <2>1, <2>2, <2>3
<1> QED BY <1>2, <1>4, <1>7, <1>8 DEF TypeOK, client

LEMMA PeerType == TypeOK /\ (StaySilent \/ LoseNotification) => TypeOK'
<1> SUFFICES ASSUME TypeOK PROVE StaySilent \/ LoseNotification => TypeOK'
  OBVIOUS
<1>1. ASSUME faults < MaxFaults, faults' = faults + 1
      PROVE  faults' \in 0 .. MaxFaults
  BY <1>1, BoundsAssumption DEF TypeOK
<1>2. ASSUME StaySilent PROVE TypeOK'
  <2>1. requests # << >> /\ requests \in Seq(Command) /\ requests' = Tail(requests)
    BY <1>2 DEF StaySilent, TypeOK
  <2>2. requests' \in Seq(Command)
    BY <2>1
  <2>3. faults' \in 0 .. MaxFaults
    BY <1>1, <1>2 DEF StaySilent
  <2> QED BY <1>2, <2>2, <2>3 DEF StaySilent, TypeOK, client
<1>3. ASSUME LoseNotification PROVE TypeOK'
  <2>1. /\ air' \in Seq(Frame)
        /\ taken' \in Nat
        /\ IF air' = << >> THEN taken' = 0 ELSE taken' < FrameBytes(Head(air'))
    BY <1>3, AdvanceType DEF LoseNotification
  <2>2. faults' \in 0 .. MaxFaults
    BY <1>1, <1>3 DEF LoseNotification
  <2> QED BY <1>3, <2>1, <2>2 DEF LoseNotification, TypeOK, client
<1> QED BY <1>2, <1>3

LEMMA NextType == TypeOK /\ [Next]_vars => TypeOK'
<1> SUFFICES ASSUME TypeOK, [Next]_vars PROVE TypeOK'
  OBVIOUS
<1>1. CASE Connect
  BY <1>1 DEF Connect, TypeOK, client
<1>2. CASE SearchComplete
  BY <1>2 DEF SearchComplete, TypeOK
<1>3. CASE Disconnect
  <2>1. /\ requests' \in Seq(Command) /\ air' \in Seq(Frame) /\ taken' \in Nat
        /\ IF air' = << >> THEN taken' = 0 ELSE taken' < FrameBytes(Head(air'))
    BY <1>3 DEF Disconnect
  <2>2. next_command' \in 0 .. Len(BuiltQueue)
    BY <1>3, QueueType DEF Disconnect, ForgetProgress
  <2>3. frame_buffer' \in Buffers /\ HeadKnown(frame_buffer')
    BY <1>3, EmptyBufferType DEF Disconnect, ForgetProgress
  <2>4. online' \in BOOLEAN
    BY <1>3 DEF Disconnect
  <2>5. /\ node_state' \in {"IDLE", "ESTABLISHED"}
        /\ pack_count' \in 0 .. 16
        /\ link' \in {"down", "open", "unsuitable", "subscribing", "up", "deaf"}
        /\ UNCHANGED << handles, pending_reg_start, command_queue, sensors, faults >>
    BY <1>3 DEF Disconnect, ForgetProgress
  <2> QED BY <2>1, <2>2, <2>3, <2>4, <2>5 DEF TypeOK
<1>4. CASE UNCHANGED vars
  BY <1>4 DEF vars, TypeOK
<1> QED BY <1>1, <1>2, <1>3, <1>4, UpdateType, RegForNotifyType, NotifyType,
           AnswerType, PeerType DEF Next, Events, Peer

(***************************************************************************)
(* Every reachable state of the client is well typed: the position never   *)
(* leaves the queue, pack_count_ never exceeds 16, and what is assembled   *)
(* intact is the beginning of a frame.                                     *)
(***************************************************************************)
THEOREM TypeCorrect == Spec => []TypeOK
  BY InitType, NextType, PTL DEF Spec

-----------------------------------------------------------------------------
(***************************************************************************)
(* Safety of the client for every schedule of polls, losses and            *)
(* reconnects: what survives a connection, which block is pending, how far *)
(* the buffer grows, and whose values a pack shows.                        *)
(***************************************************************************)

\* The client believes in a connection exactly while the stack has one on which
\* REG_FOR_NOTIFY was reported.
LinkAgrees == node_state = "ESTABLISHED" <=> link \in {"up", "deaf"}

(***************************************************************************)
(* REG_FOR_NOTIFY asks for the first command without counting it: the      *)
(* pending block is right afterwards only because the position was reset   *)
(* when the last connection ended, and that holds only because no other    *)
(* handler runs without a connection. The three go together.               *)
(***************************************************************************)
ConnectionInv == LinkAgrees /\ OfflineIsClean /\ PendingIsLastWritten

LEMMA AskNextPending ==
  ASSUME TypeOK, PendingIsLastWritten, node_state = "ESTABLISHED", AskNext,
         UNCHANGED << node_state, command_queue >>
  PROVE  PendingIsLastWritten'
<1>1. CASE next_command < Len(command_queue)
  <2>1. next_command \in Nat
    BY DEF TypeOK
  <2>2. pending_reg_start' = command_queue[next_command + 1].reg_start
    BY <1>1 DEF AskNext, Ask
  <2>3. next_command' = next_command + 1
    BY <1>1 DEF AskNext
  <2> QED BY <2>1, <2>2, <2>3 DEF PendingIsLastWritten
<1>2. CASE ~(next_command < Len(command_queue))
  BY <1>2 DEF AskNext, PendingIsLastWritten
<1> QED BY <1>1, <1>2

LEMMA NotifyConnection == TypeOK /\ ConnectionInv /\ Notify => ConnectionInv'
<1> SUFFICES ASSUME TypeOK, ConnectionInv, Notify PROVE ConnectionInv'
  OBVIOUS
<1>1. UNCHANGED << node_state, online, command_queue, link >> /\ link = "up"
  BY DEF Notify
<1>2. node_state = "ESTABLISHED"
  BY <1>1 DEF ConnectionInv, LinkAgrees
<1>3. LinkAgrees' /\ OfflineIsClean'
  BY <1>1, <1>2 DEF ConnectionInv, LinkAgrees, OfflineIsClean
<1>4. UNCHANGED << next_command, pending_reg_start >> \/ AskNext
  BY NotifyCases
<1>5. PendingIsLastWritten'
  BY <1>1, <1>2, <1>4, AskNextPending DEF ConnectionInv, PendingIsLastWritten
<1> QED BY <1>3, <1>5 DEF ConnectionInv

LEMMA NextConnection == TypeOK /\ ConnectionInv /\ [Next]_vars => ConnectionInv'
<1> SUFFICES ASSUME TypeOK, ConnectionInv, [Next]_vars PROVE ConnectionInv'
  OBVIOUS
<1> USE DEF ConnectionInv
<1>1. CASE Update
  <2>1. /\ node_state' = "ESTABLISHED"
        /\ next_command' = 1
        /\ pending_reg_start' = command_queue'[1].reg_start
        /\ UNCHANGED << node_state, link >>
    BY <1>1 DEF Update, MayPoll, Ask
  <2> QED BY <2>1 DEF LinkAgrees, OfflineIsClean, PendingIsLastWritten
<1>2. CASE RegForNotify
  <2>1. node_state # "ESTABLISHED"
    BY <1>2 DEF RegForNotify, LinkAgrees
  <2>2. next_command' = 0
    BY <1>2, <2>1 DEF RegForNotify, OfflineIsClean
  <2>3. command_queue # << >> => pending_reg_start' = command_queue[1].reg_start
    BY <1>2 DEF RegForNotify, Ask
  <2>4. node_state' = "ESTABLISHED" /\ link' \in {"up", "deaf"} /\ command_queue' = command_queue
    BY <1>2 DEF RegForNotify
  <2> QED BY <2>2, <2>3, <2>4 DEF LinkAgrees, OfflineIsClean, PendingIsLastWritten
<1>3. CASE Disconnect
  <2>1. /\ node_state' = "IDLE" /\ link' = "down"
        /\ frame_buffer' = EmptyBuffer /\ next_command' = 0 /\ pack_count' = 0
    BY <1>3 DEF Disconnect, ForgetProgress
  <2>2. ~online'
    BY <1>3 DEF Disconnect
  <2> QED BY <2>1, <2>2 DEF LinkAgrees, OfflineIsClean, PendingIsLastWritten
<1>4. CASE Connect
  <2>1. link = "down" /\ link' = "open" /\ UNCHANGED client
    BY <1>4 DEF Connect
  <2> QED BY <2>1 DEF client, LinkAgrees, OfflineIsClean, PendingIsLastWritten
<1>5. CASE SearchComplete
  <2>1. /\ link = "open" /\ link' \in {"subscribing", "unsuitable"}
        /\ UNCHANGED << node_state, online, frame_buffer, next_command,
                        pending_reg_start, command_queue, pack_count >>
    BY <1>5 DEF SearchComplete
  <2> QED BY <2>1 DEF LinkAgrees, OfflineIsClean, PendingIsLastWritten
<1>6. CASE Peer \/ UNCHANGED vars
  <2>1. UNCHANGED client /\ UNCHANGED link
    BY <1>6 DEF Peer, Answer, StaySilent, LoseNotification, vars, client
  <2> QED BY <2>1 DEF client, LinkAgrees, OfflineIsClean, PendingIsLastWritten
<1> QED BY <1>1, <1>2, <1>3, <1>4, <1>5, <1>6, NotifyConnection DEF Next, Events

LEMMA ConnectionAlways == Spec => [](TypeOK /\ ConnectionInv)
<1>1. Init => ConnectionInv
  <2>1. Init => ~online
    BY DEF Init
  <2> QED BY <2>1 DEF Init, ConnectionInv, LinkAgrees, OfflineIsClean, PendingIsLastWritten
<1> QED BY <1>1, InitType, NextType, NextConnection, PTL DEF Spec

(***************************************************************************)
(* Whichever handler wrote the last command, pending_reg_start_ names it   *)
(* while the client is connected.                                          *)
(***************************************************************************)
THEOREM PendingCorrect == Spec => []PendingIsLastWritten
<1>1. ConnectionInv => PendingIsLastWritten
  BY DEF ConnectionInv
<1> QED BY <1>1, ConnectionAlways, PTL

(***************************************************************************)
(* A connection that ended leaves no bytes, no position, no pack count and *)
(* no online status behind.                                                *)
(***************************************************************************)
THEOREM OfflineClean == Spec => []OfflineIsClean
<1>1. ConnectionInv => OfflineIsClean
  BY DEF ConnectionInv
<1> QED BY <1>1, ConnectionAlways, PTL

-----------------------------------------------------------------------------
(* The frame buffer *)

LEMMA NextBuffer ==
  TypeOK /\ BufferStaysBelowAFrame /\ [Next]_vars => BufferStaysBelowAFrame'
<1> SUFFICES ASSUME TypeOK, BufferStaysBelowAFrame, [Next]_vars
             PROVE  BufferStaysBelowAFrame'
  OBVIOUS
<1>1. EmptyBuffer.size < 260
  BY DEF EmptyBuffer
<1>2. CASE Notify
  <2>1. air # << >>
    BY <1>2 DEF Notify
  <2>2. PICK stray \in StrayLengths :
          \/ ~Complete(Received(stray)) /\ frame_buffer' = Received(stray)
          \/ frame_buffer' = EmptyBuffer
    BY <1>2, NotifyCases
  <2>3. Received(stray).size \in Nat /\ Received(stray).expected \in FrameLengths \cup {0}
    BY <2>1, InsertedType DEF Buffers
  <2>4. CASE ~Complete(Received(stray)) /\ frame_buffer' = Received(stray)
    BY <2>3, <2>4 DEF Complete, FrameLengths, BufferStaysBelowAFrame
  <2> QED BY <1>1, <2>2, <2>4 DEF BufferStaysBelowAFrame
<1>3. CASE Disconnect
  BY <1>1, <1>3 DEF Disconnect, ForgetProgress, BufferStaysBelowAFrame
<1>4. CASE ~Notify /\ ~Disconnect
  <2>1. UNCHANGED frame_buffer
    BY <1>4 DEF Next, Events, Peer, Update, Connect, SearchComplete, RegForNotify,
                Answer, StaySilent, LoseNotification, client, vars
  <2> QED BY <2>1 DEF BufferStaysBelowAFrame
<1> QED BY <1>2, <1>3, <1>4

(***************************************************************************)
(* Whatever is lost, the buffer is always shorter than the longest frame:  *)
(* the MAX_RESPONSE_SIZE reset at the top of assemble() is dead code.      *)
(***************************************************************************)
THEOREM BufferBounded == Spec => []BufferStaysBelowAFrame
<1>1. Init => BufferStaysBelowAFrame
  BY DEF Init, EmptyBuffer, BufferStaysBelowAFrame
<1> QED BY <1>1, InitType, NextType, NextBuffer, PTL DEF Spec

-----------------------------------------------------------------------------
(* Pack values *)

\* The length of an answer to a pack command tells the blocks apart.
LEMMA PackLengths ==
  ASSUME NEW cmd \in PackCommand, NEW b \in PackBlockOfLength(DataBytes[cmd.reg_start])
  PROVE  b = cmd.reg_start
<1>1. cmd.reg_start \in PackBlocks /\ b \in PackBlocks
  BY DEF PackCommand, PackBlockOfLength
<1>2. DataBytes[cmd.reg_start] = 2 * RegCount[b]
  BY DEF PackBlockOfLength
<1> QED BY <1>1, <1>2 DEF PackBlocks, SystemBlocks, Blocks, DataBytes, RegCount

LEMMA DecodePackValues ==
  ASSUME TypeOK, PackValuesAreItsOwn, NEW f \in Frame, Decode(f)
  PROVE  PackValuesAreItsOwn'
<1> SUFFICES ASSUME NEW p \in Registered, NEW b \in PackBlocks
             PROVE  sensors'[<<p, b>>] \in {Never, Cmd(p, b)}
  BY DEF PackValuesAreItsOwn
<1> DEFINE g == <<p, b>>
<1>1. g \in Groups /\ sensors[g] \in {Never, Cmd(p, b)}
  BY DEF Groups, PackValuesAreItsOwn
<1>2. f.cmd \in Command
  BY DEF Frame
<1>3. CASE DecodeSystem(f.cmd)
  <2>1. CASE pending_reg_start \in SystemBlocks
    <3>1. g # <<0, pending_reg_start>>
      BY <2>1 DEF SystemBlocks, PackBlocks
    <3> QED BY <1>1, <1>3, <2>1, <3>1 DEF DecodeSystem, TypeOK
  <2>2. CASE pending_reg_start \notin SystemBlocks
    BY <1>1, <1>3, <2>2 DEF DecodeSystem
  <2> QED BY <2>1, <2>2
<1>4. CASE f.cmd.device \in 1 .. 16 /\ DecodePack(f.cmd)
  <2>1. f.cmd \in PackCommand
    BY <1>2, <1>4 DEF Command, SystemCommand
  <2>2. sensors'[g] = IF p = f.cmd.device /\ b \in PackBlockOfLength(DataBytes[f.cmd.reg_start])
                      THEN Shown(b, f.cmd, sensors[g]) ELSE sensors[g]
    BY <1>1, <1>4 DEF DecodePack
  <2>3. CASE p = f.cmd.device /\ b \in PackBlockOfLength(DataBytes[f.cmd.reg_start])
    <3>1. b = f.cmd.reg_start
      BY <2>1, <2>3, PackLengths
    <3>2. f.cmd = Cmd(p, b)
      BY <2>1, <2>3, <3>1 DEF PackCommand, Cmd
    <3>3. b \in Guarded
      BY DEF Guarded, Blocks, PackBlocks
    <3> QED BY <1>1, <2>2, <2>3, <3>2, <3>3 DEF Shown
  <2> QED BY <1>1, <2>2, <2>3
<1>5. CASE UNCHANGED sensors
  BY <1>1, <1>5
<1> QED BY <1>3, <1>4, <1>5 DEF Decode

LEMMA NextPackValues ==
  TypeOK /\ PackValuesAreItsOwn /\ [Next]_vars => PackValuesAreItsOwn'
<1> SUFFICES ASSUME TypeOK, PackValuesAreItsOwn, [Next]_vars
             PROVE  PackValuesAreItsOwn'
  OBVIOUS
<1>1. CASE Notify
  <2>1. air # << >>
    BY <1>1 DEF Notify
  <2>2. PICK stray \in StrayLengths :
          \/ UNCHANGED sensors
          \/ Received(stray).intact /\ Decode(Received(stray).head)
    BY <1>1, NotifyCases
  <2>3. Received(stray).intact => Received(stray).head \in Frame
    BY <2>1, InsertedType DEF HeadKnown
  <2> QED BY <2>2, <2>3, DecodePackValues DEF PackValuesAreItsOwn
<1>2. CASE ~Notify
  <2>1. UNCHANGED sensors
    BY <1>2 DEF Next, Events, Peer, Update, Connect, SearchComplete, RegForNotify,
                Disconnect, Answer, StaySilent, LoseNotification, client, vars
  <2> QED BY <2>1 DEF PackValuesAreItsOwn
<1> QED BY <1>1, <1>2

(***************************************************************************)
(* However late an answer comes, the values of a pack are answers of that  *)
(* pack to the block they are published for: the device address and the    *)
(* length of the frame are enough to tell.                                 *)
(***************************************************************************)
THEOREM PackValuesCorrect == Spec => []PackValuesAreItsOwn
<1>1. Init => PackValuesAreItsOwn
  BY DEF Init, PackValuesAreItsOwn, Groups
<1> QED BY <1>1, InitType, NextType, NextPackValues, PTL DEF Spec

-----------------------------------------------------------------------------
(***************************************************************************)
(* The client when polls come no faster than a chain of answers: one       *)
(* command under way at a time, every system value an answer to its own    *)
(* block, and the client a poll chain (PollChain).                         *)
(***************************************************************************)

\* When two sequences hold one element together, a non-empty one holds it.
LEMMA Alone ==
  ASSUME NEW S, NEW T, NEW a \in Seq(S), NEW b \in Seq(T),
         Len(a) + Len(b) <= 1, b # << >>
  PROVE  a = << >> /\ Len(b) = 1 /\ Tail(b) = << >> /\ Head(b) = b[1]
<1>1. Len(a) \in Nat /\ Len(b) \in Nat \ {0}
  BY EmptySeq, LenProperties
<1>2. \A m \in Nat, n \in Nat \ {0} : m + n <= 1 => m = 0 /\ n = 1
  OBVIOUS
<1>3. Len(a) = 0 /\ Len(b) = 1
  BY <1>1, <1>2
<1>4. a = << >>
  BY <1>3, EmptySeq
<1>5. Tail(b) \in Seq(T) /\ Len(Tail(b)) = 0
  BY <1>3, HeadTailProperties
<1>6. Tail(b) = << >>
  BY <1>5, EmptySeq
<1> QED BY <1>3, <1>4, <1>6

LEMMA PacedIsNext == [PacedNext]_vars => [Next]_vars
  BY DEF PacedNext, PacedUpdate, Next

LEMMA PacedAlways == PacedSpec => [](TypeOK /\ ConnectionInv)
<1>1. PacedSpec => Spec
  BY PacedIsNext, PTL DEF PacedSpec, Spec
<1> QED BY <1>1, ConnectionAlways

(***************************************************************************)
(* Without a connection nothing is under way, so the command REG_FOR_NOTIFY *)
(* writes is alone; a poll waits for Quiet; and an answer releases the next *)
(* command only once its last notification arrived.                        *)
(***************************************************************************)
PacedInv == AtMostOneUnderWay /\ (node_state # "ESTABLISHED" => Quiet)

\* On a quiet link the command asked for is the only one under way.
LEMMA AskAlone ==
  ASSUME requests = << >>, NEW cmd, Ask(cmd)
  PROVE  requests' = << >> \/ (requests' = << cmd >> /\ pending_reg_start' = cmd.reg_start)
  BY DEF Ask, send_command

\* A notification that completes an intact frame is the last of that frame.
LEMMA WholeFrame ==
  ASSUME TypeOK, air # << >>, NEW stray \in StrayLengths,
         Received(stray).intact, Complete(Received(stray))
  PROVE  /\ Received(stray).head = Head(air)
         /\ taken + NotificationSize = FrameBytes(Head(air))
<1> DEFINE b == Received(stray)
           bytes == FrameBytes(Head(air))
<1>1. /\ bytes \in FrameLengths
      /\ NotificationSize \in Nat \ {0}
      /\ taken + NotificationSize <= bytes
  BY NotificationType
<1>2. Kept \in Buffers /\ HeadKnown(Kept)
  BY DEF Kept, TypeOK, EmptyBuffer, Buffers, HeadKnown, NoFrame
<1>3. taken \in Nat
  BY DEF TypeOK
<1>4. b.size >= b.expected
  BY DEF Complete
<1>5. CASE Kept.size = 0
  <2>1. b.intact = (taken = 0)
    BY <1>5 DEF Received, Inserted
  <2>2. taken = 0
    BY <2>1
  <2>3. b.head = Head(air) /\ b.expected = bytes /\ b.size = NotificationSize
    BY <1>5, <2>2 DEF Received, Inserted
  <2> QED BY <1>1, <1>4, <2>2, <2>3 DEF FrameLengths
<1>6. CASE Kept.size # 0
  <2> DEFINE more == Kept.intact /\ Head(air) = Kept.head /\ taken = Kept.size
  <2>1. b = [Kept EXCEPT !.size = Kept.size + NotificationSize, !.intact = more]
    BY <1>6 DEF Received, Inserted
  <2>2. /\ b.intact = more /\ b.head = Kept.head /\ b.expected = Kept.expected
        /\ b.size = Kept.size + NotificationSize
    <3> HIDE DEF more
    <3> QED BY <2>1, <1>2 DEF Buffers
  <2>3. more
    BY <2>2
  <2>4. b.head = Head(air) /\ taken = Kept.size /\ b.expected = bytes
    BY <2>2, <2>3, <1>2 DEF HeadKnown
  <2> QED BY <2>2, <2>4, <1>1, <1>3, <1>4 DEF FrameLengths
<1> QED BY <1>5, <1>6

\* What is left of the air and of the chain after a notification.
LEMMA NotifyPaced ==
  ASSUME TypeOK, PacedInv, Notify
  PROVE  /\ requests = << >> /\ Len(air) = 1
         /\ \/ /\ requests' = << >>
               /\ air' \in {air, << >>}
               /\ UNCHANGED << sensors, next_command, pending_reg_start >>
            \/ /\ air' = << >>
               /\ Head(air) \in Frame
               /\ Decode(Head(air))
               /\ AskNext
<1>1. air # << >> /\ air \in Seq(Frame) /\ requests \in Seq(Command)
  BY DEF Notify, TypeOK
<1>2. Len(requests) + Len(air) <= 1
  BY DEF PacedInv, AtMostOneUnderWay
<1>3. requests = << >> /\ Len(air) = 1
  BY <1>1, <1>2, Alone
<1>4. Tail(air) = << >>
  BY <1>1, <1>2, Alone
<1>5. air' \in {air, << >>}
  BY <1>4 DEF Notify, AdvanceAir
<1>6. PICK stray \in StrayLengths :
        \/ UNCHANGED << sensors, next_command, pending_reg_start, requests >>
        \/ /\ Complete(Received(stray)) /\ Received(stray).intact
           /\ Decode(Received(stray).head)
           /\ AskNext
  BY NotifyCases
<1>7. CASE UNCHANGED << sensors, next_command, pending_reg_start, requests >>
  BY <1>3, <1>5, <1>7
<1>8. CASE /\ Complete(Received(stray)) /\ Received(stray).intact
           /\ Decode(Received(stray).head)
           /\ AskNext
  <2>1. /\ Received(stray).head = Head(air)
        /\ taken + NotificationSize = FrameBytes(Head(air))
    BY <1>1, <1>8, WholeFrame
  <2>2. air' = << >>
    BY <1>4, <2>1 DEF Notify, AdvanceAir
  <2>3. Head(air) \in Frame
    BY <1>1, NotificationType
  <2> QED BY <1>3, <1>8, <2>1, <2>2, <2>3
<1> QED BY <1>6, <1>7, <1>8

-----------------------------------------------------------------------------
(* At most one command under way *)

LEMMA NextPaced ==
  TypeOK /\ TypeOK' /\ ConnectionInv /\ PacedInv /\ [PacedNext]_vars => PacedInv'
<1> SUFFICES ASSUME TypeOK, TypeOK', ConnectionInv, PacedInv, [PacedNext]_vars
             PROVE  PacedInv'
  OBVIOUS
<1> USE DEF PacedInv
<1>1. ASSUME NEW cmd, Ask(cmd), requests = << >>, air' = << >>
      PROVE  AtMostOneUnderWay'
  <2>1. requests' = << >> \/ (requests' = << cmd >> /\ pending_reg_start' = cmd.reg_start)
    BY <1>1, AskAlone
  <2>2. CASE requests' = << >>
    BY <1>1, <2>2 DEF AtMostOneUnderWay
  <2>3. CASE requests' = << cmd >> /\ pending_reg_start' = cmd.reg_start
    <3>1. Len(requests') = 1 /\ Len(air') = 0 /\ requests'[1] = cmd
      BY <1>1, <2>3
    <3> QED BY <2>3, <3>1 DEF AtMostOneUnderWay
  <2> QED BY <2>1, <2>2, <2>3
<1>2. CASE PacedUpdate
  <2>1. requests = << >> /\ air' = << >> /\ node_state' = "ESTABLISHED"
    BY <1>2 DEF PacedUpdate, Quiet, Update, MayPoll
  <2>2. Ask(command_queue'[1])
    BY <1>2 DEF PacedUpdate, Update
  <2> QED BY <1>1, <2>1, <2>2
<1>3. CASE RegForNotify
  <2>1. node_state # "ESTABLISHED"
    BY <1>3 DEF RegForNotify, ConnectionInv, LinkAgrees
  <2>2. requests = << >> /\ air' = << >> /\ node_state' = "ESTABLISHED"
    BY <1>3, <2>1 DEF RegForNotify, Quiet
  <2>3. Ask(command_queue[1]) \/ requests' = << >>
    BY <1>3, <2>2 DEF RegForNotify
  <2>4. CASE requests' = << >>
    BY <2>2, <2>4 DEF AtMostOneUnderWay
  <2> QED BY <1>1, <2>2, <2>3, <2>4
<1>4. CASE Notify
  <2>1. node_state' = "ESTABLISHED"
    BY <1>4 DEF Notify, ConnectionInv, LinkAgrees
  <2>2. requests = << >>
    BY <1>4, NotifyPaced
  <2>3. CASE /\ requests' = << >>
             /\ air' \in {air, << >>}
             /\ UNCHANGED << sensors, next_command, pending_reg_start >>
    BY <2>1, <2>2, <2>3 DEF AtMostOneUnderWay
  <2>4. CASE air' = << >> /\ AskNext
    <3>1. requests' = << >> \/ \E cmd : Ask(cmd)
      BY <2>2, <2>4 DEF AskNext
    <3>2. CASE requests' = << >>
      <4>1. Len(requests') = 0 /\ Len(air') = 0
        BY <2>4, <3>2
      <4> QED BY <2>1, <4>1 DEF AtMostOneUnderWay
    <3> QED BY <1>1, <2>1, <2>2, <2>4, <3>1, <3>2
  <2> QED BY <1>4, <2>3, <2>4, NotifyPaced
<1>5. CASE Answer
  <2>1. requests # << >> /\ requests \in Seq(Command) /\ air \in Seq(Frame)
    BY <1>5 DEF Answer, TypeOK
  <2>2. Len(air) + Len(requests) <= 1
    BY <2>1, LenProperties DEF AtMostOneUnderWay
  <2>3. /\ air = << >> /\ Len(requests) = 1
        /\ Tail(requests) = << >> /\ Head(requests) = requests[1]
    BY <2>1, <2>2, Alone
  <2>4. node_state' = "ESTABLISHED" /\ pending_reg_start' = pending_reg_start
    BY <1>5, <2>1 DEF Answer, client, Quiet, TypeOK
  <2>5. Head(requests).reg_start = pending_reg_start
    BY <2>3 DEF AtMostOneUnderWay
  <2>6. requests' = << >>
    BY <1>5, <2>3 DEF Answer
  <2>7. PICK error \in BOOLEAN :
          air' \in { << >>, << [cmd |-> Head(requests), error |-> error] >> }
    BY <1>5, <2>3 DEF Answer
  <2>8. CASE air' = << >>
    BY <2>4, <2>6, <2>8 DEF AtMostOneUnderWay
  <2>9. CASE air' = << [cmd |-> Head(requests), error |-> error] >>
    <3>1. Len(air') = 1 /\ air'[1].cmd.reg_start = pending_reg_start'
      BY <2>4, <2>5, <2>9
    <3> QED BY <2>4, <2>6, <3>1 DEF AtMostOneUnderWay
  <2> QED BY <2>7, <2>8, <2>9
<1>6. CASE StaySilent
  <2>1. requests # << >> /\ requests \in Seq(Command) /\ air \in Seq(Frame)
    BY <1>6 DEF StaySilent, TypeOK
  <2>2. Tail(requests) = << >> /\ air = << >>
    <3>1. Len(air) + Len(requests) <= 1
      BY <2>1, LenProperties DEF AtMostOneUnderWay
    <3> QED BY <2>1, <3>1, Alone
  <2>3. requests' = << >> /\ air' = << >>
    BY <1>6, <2>2 DEF StaySilent
  <2> QED BY <2>3 DEF AtMostOneUnderWay, Quiet
<1>7. CASE LoseNotification
  <2>1. air # << >> /\ air \in Seq(Frame) /\ requests \in Seq(Command)
    BY <1>7 DEF LoseNotification, TypeOK
  <2>2. requests = << >> /\ Tail(air) = << >>
    <3>1. Len(requests) + Len(air) <= 1
      BY DEF AtMostOneUnderWay
    <3> QED BY <2>1, <3>1, Alone
  <2>3. requests' = << >> /\ air' \in {air, << >>}
    BY <1>7, <2>2 DEF LoseNotification, AdvanceAir
  <2>4. UNCHANGED << node_state, pending_reg_start >>
    BY <1>7 DEF LoseNotification, client
  <2> QED BY <2>2, <2>3, <2>4 DEF AtMostOneUnderWay, Quiet
<1>8. CASE Disconnect
  BY <1>8 DEF Disconnect, AtMostOneUnderWay, Quiet
<1>9. CASE Connect \/ SearchComplete \/ UNCHANGED vars
  <2>1. UNCHANGED << node_state, requests, air, pending_reg_start >>
    BY <1>9 DEF Connect, SearchComplete, client, vars
  <2> QED BY <2>1 DEF AtMostOneUnderWay, Quiet
<1> QED BY <1>2, <1>3, <1>4, <1>5, <1>6, <1>7, <1>8, <1>9 DEF PacedNext, Events, Peer

LEMMA PacedInvAlways == PacedSpec => [](TypeOK /\ ConnectionInv /\ PacedInv)
<1>1. Init => PacedInv
  BY DEF Init, PacedInv, AtMostOneUnderWay, Quiet
<1>2. TypeOK /\ [PacedNext]_vars => TypeOK'
  BY NextType, PacedIsNext
<1> QED BY <1>1, <1>2, PacedAlways, NextPaced, PTL DEF PacedSpec

(***************************************************************************)
(* With polls that wait, at most one command is under way, and             *)
(* pending_reg_start_ names it.                                            *)
(***************************************************************************)
THEOREM OneUnderWay == PacedSpec => []AtMostOneUnderWay
<1>1. PacedInv => AtMostOneUnderWay
  BY DEF PacedInv
<1> QED BY <1>1, PacedInvAlways, PTL

-----------------------------------------------------------------------------
(* System values *)

\* The answer to a system block is as long as its decoder reads, or the decoder looks.
LEMMA AnswersSuffice == \A b \in SystemBlocks : DataBytes[b] >= BytesRead[b] \/ b \in Guarded
  BY DEF SystemBlocks, PackBlocks, Blocks, DataBytes, RegCount, BytesRead, Guarded

LEMMA DecodeSystemValues ==
  ASSUME TypeOK, SystemValuesAreTheirOwn, NEW f \in Frame, Decode(f),
         f.cmd.reg_start = pending_reg_start
  PROVE  SystemValuesAreTheirOwn'
<1> SUFFICES ASSUME NEW b \in SystemBlocks
             PROVE  sensors'[<<0, b>>].reg_start \in {"never", b}
  BY DEF SystemValuesAreTheirOwn
<1> DEFINE g == <<0, b>>
<1>1. g \in Groups /\ sensors[g].reg_start \in {"never", b}
  BY DEF Groups, SystemValuesAreTheirOwn
<1>2. CASE DecodeSystem(f.cmd)
  <2>1. CASE pending_reg_start = b
    <3>1. Shown(b, f.cmd, sensors[g]) \in {f.cmd, sensors[g]}
      BY <2>1, AnswersSuffice DEF Shown
    <3>2. sensors'[g] \in {f.cmd, sensors[g]}
      BY <1>1, <1>2, <2>1, <3>1 DEF DecodeSystem, TypeOK
    <3> QED BY <1>1, <2>1, <3>2
  <2>2. CASE pending_reg_start # b
    <3>1. g # <<0, pending_reg_start>>
      BY <2>2
    <3>2. sensors'[g] = sensors[g]
      BY <1>1, <1>2, <3>1 DEF DecodeSystem, TypeOK
    <3> QED BY <1>1, <3>2
  <2> QED BY <2>1, <2>2
<1>3. CASE DecodePack(f.cmd)
  <2>1. b \notin PackBlockOfLength(DataBytes[f.cmd.reg_start])
    BY DEF PackBlockOfLength, SystemBlocks, PackBlocks
  <2>2. sensors'[g] = sensors[g]
    BY <1>1, <1>3, <2>1 DEF DecodePack
  <2> QED BY <1>1, <2>2
<1>4. CASE UNCHANGED sensors
  BY <1>1, <1>4
<1> QED BY <1>2, <1>3, <1>4 DEF Decode

LEMMA NextSystemValues ==
  TypeOK /\ PacedInv /\ SystemValuesAreTheirOwn /\ [PacedNext]_vars
    => SystemValuesAreTheirOwn'
<1> SUFFICES ASSUME TypeOK, PacedInv, SystemValuesAreTheirOwn, [PacedNext]_vars
             PROVE  SystemValuesAreTheirOwn'
  OBVIOUS
<1>1. CASE Notify
  <2>1. Len(air) = 1 /\ air # << >> /\ air \in Seq(Frame)
    BY <1>1, NotifyPaced DEF Notify, TypeOK
  <2>2. Head(air).cmd.reg_start = pending_reg_start
    BY <2>1 DEF PacedInv, AtMostOneUnderWay
  <2>3. UNCHANGED sensors \/ (Head(air) \in Frame /\ Decode(Head(air)))
    BY <1>1, NotifyPaced
  <2> QED BY <2>2, <2>3, DecodeSystemValues DEF SystemValuesAreTheirOwn
<1>2. CASE ~Notify
  <2>1. UNCHANGED sensors
    BY <1>2 DEF PacedNext, PacedUpdate, Events, Peer, Update, Connect, SearchComplete,
                RegForNotify, Disconnect, Answer, StaySilent, LoseNotification, client, vars
  <2> QED BY <2>1 DEF SystemValuesAreTheirOwn
<1> QED BY <1>1, <1>2

(***************************************************************************)
(* With polls that wait, whatever is lost or broken: a system sensor group *)
(* shows an answer to its own block, and no decoder reads beyond a payload,*)
(* although two decoders never check its size.                             *)
(***************************************************************************)
THEOREM SystemValuesCorrect == PacedSpec => []SystemValuesAreTheirOwn
<1>1. Init => SystemValuesAreTheirOwn
  BY DEF Init, SystemValuesAreTheirOwn, Groups, Never
<1> QED BY <1>1, PacedInvAlways, NextSystemValues, PTL DEF PacedSpec

-----------------------------------------------------------------------------
(* Refinement of the poll chain *)

\* The sensor shows online from REG_FOR_NOTIFY to the disconnect.
OnlineAgrees == node_state = "ESTABLISHED" => online

LEMMA NextOnline == OnlineAgrees /\ [PacedNext]_vars => OnlineAgrees'
<1> SUFFICES ASSUME OnlineAgrees, [PacedNext]_vars PROVE OnlineAgrees'
  OBVIOUS
<1>1. CASE RegForNotify
  <2>1. online'
    BY <1>1 DEF RegForNotify
  <2> QED BY <2>1 DEF OnlineAgrees
<1>2. CASE Disconnect
  BY <1>2 DEF Disconnect, OnlineAgrees
<1>3. CASE ~RegForNotify /\ ~Disconnect
  <2>1. UNCHANGED << node_state, online >>
    BY <1>3 DEF PacedNext, PacedUpdate, Events, Peer, Update, Connect, SearchComplete,
                Notify, Answer, StaySilent, LoseNotification, client, vars
  <2> QED BY <2>1 DEF OnlineAgrees
<1> QED BY <1>1, <1>2, <1>3

LEMMA QuietBoolean == (~Quiet) \in BOOLEAN /\ (~Quiet)' \in BOOLEAN
  BY DEF Quiet

LEMMA NotifyChain ==
  ASSUME TypeOK, PacedInv, Notify
  PROVE  [Chain!ChainNext]_(Chain!chain)
<1> USE DEF Chain!ChainNext, Chain!chain
<1>1. online' = online /\ ~Quiet
  BY DEF Notify, Quiet
<1>2. requests = << >> /\ Len(air) = 1
  BY NotifyPaced
<1>3. CASE /\ requests' = << >>
           /\ air' \in {air, << >>}
           /\ UNCHANGED << sensors, next_command, pending_reg_start >>
  <2>1. CASE air' = air
    <3>1. Quiet' <=> Quiet
      BY <1>2, <1>3, <2>1 DEF Quiet
    <3>2. (~Quiet)' = ~Quiet
      BY <3>1, QuietBoolean
    <3> QED BY <1>1, <1>3, <3>2
  <2>2. CASE air' = << >>
    <3>1. Quiet'
      BY <1>3, <2>2 DEF Quiet
    <3>2. (~Quiet)' = FALSE
      BY <3>1, QuietBoolean
    <3> QED BY <1>1, <1>3, <3>2 DEF Chain!Settle
  <2> QED BY <1>3, <2>1, <2>2
<1>4. CASE air' = << >> /\ AskNext
  <2>1. CASE next_command < Len(command_queue)
    <3>1. command_queue = BuiltQueue
      BY <2>1, QueueType DEF TypeOK
    <3>2. next_command < Len(BuiltQueue) /\ next_command' = next_command + 1
      BY <1>4, <2>1, <3>1 DEF AskNext
    <3> QED BY <1>1, <3>2, QuietBoolean DEF Chain!Advance
  <2>2. CASE ~(next_command < Len(command_queue))
    <3>1. requests' = << >> /\ next_command' = next_command
      BY <1>2, <1>4, <2>2 DEF AskNext
    <3>2. Quiet'
      BY <1>4, <3>1 DEF Quiet
    <3>3. (~Quiet)' = FALSE
      BY <3>2, QuietBoolean
    <3> QED BY <1>1, <3>1, <3>3 DEF Chain!Settle
  <2> QED BY <2>1, <2>2
<1> QED BY <1>3, <1>4, NotifyPaced

\* What a step of the BMS or of the radio is in the chain: something or nothing is lost.
LEMMA PeerChain ==
  ASSUME PacedInv, TypeOK, Peer
  PROVE  [Chain!ChainNext]_(Chain!chain)
<1>1. UNCHANGED << online, next_command >>
  BY DEF Peer, Answer, StaySilent, LoseNotification, client
<1>2. ~Quiet
  BY DEF Peer, Answer, StaySilent, LoseNotification, Quiet
<1>3. CASE Quiet'
  <2>1. (~Quiet)' = FALSE
    BY <1>3, QuietBoolean
  <2> QED BY <1>1, <1>2, <2>1 DEF Chain!ChainNext, Chain!Settle
<1>4. CASE ~Quiet'
  <2>1. (~Quiet)' = ~Quiet
    BY <1>2, <1>4, QuietBoolean
  <2> QED BY <1>1, <2>1 DEF Chain!chain
<1> QED BY <1>3, <1>4

LEMMA ChainStep ==
  TypeOK /\ ConnectionInv /\ PacedInv /\ OnlineAgrees /\ [PacedNext]_vars
    => [Chain!ChainNext]_(Chain!chain)
<1> SUFFICES ASSUME TypeOK, ConnectionInv, PacedInv, OnlineAgrees, [PacedNext]_vars
             PROVE  [Chain!ChainNext]_(Chain!chain)
  OBVIOUS
<1>1. CASE PacedUpdate
  <2>1. Quiet /\ next_command' = 1 /\ online' = online
    BY <1>1 DEF PacedUpdate, Update
  <2>2. online
    BY <1>1 DEF PacedUpdate, Update, MayPoll, OnlineAgrees
  <2> QED BY <2>1, <2>2, QuietBoolean DEF Chain!ChainNext, Chain!Start
<1>2. CASE RegForNotify
  <2>1. ~online /\ next_command = 0
    BY <1>2 DEF RegForNotify, ConnectionInv, LinkAgrees, OfflineIsClean
  <2>2. (online' = TRUE) /\ next_command' = next_command
    BY <1>2 DEF RegForNotify
  <2> QED BY <2>1, <2>2, QuietBoolean DEF Chain!ChainNext, Chain!GoOnline
<1>3. CASE Disconnect
  <2>1. (online' = FALSE) /\ next_command' = 0
    BY <1>3 DEF Disconnect, ForgetProgress
  <2>2. Quiet'
    BY <1>3 DEF Disconnect, Quiet
  <2>3. (~Quiet)' = FALSE
    BY <2>2, QuietBoolean
  <2> QED BY <2>1, <2>3 DEF Chain!ChainNext, Chain!GoOffline
<1>4. CASE Connect \/ SearchComplete \/ UNCHANGED vars
  <2>1. UNCHANGED << online, next_command, requests, air >>
    BY <1>4 DEF Connect, SearchComplete, client, vars
  <2>2. Quiet' <=> Quiet
    BY <2>1 DEF Quiet
  <2>3. (~Quiet)' = ~Quiet
    BY <2>2, QuietBoolean
  <2> QED BY <2>1, <2>3 DEF Chain!chain
<1> QED BY <1>1, <1>2, <1>3, <1>4, NotifyChain, PeerChain DEF PacedNext, Events

(***************************************************************************)
(* With polls that wait, the client implements the poll chain: commands    *)
(* one at a time and in queue order, each released by the answer to the    *)
(* last, a stalled chain started over from its first command.              *)
(***************************************************************************)
THEOREM ImplementsPollChain == PacedSpec => IsPollChain
<1>1. Init => OnlineAgrees
  BY DEF Init, OnlineAgrees
<1>2. PacedSpec => [](TypeOK /\ ConnectionInv /\ PacedInv /\ OnlineAgrees)
  BY <1>1, PacedInvAlways, NextOnline, PTL DEF PacedSpec
<1>3. Init => Chain!ChainInit
  <2>1. Init => Quiet
    BY DEF Init, Quiet
  <2>2. Init => (~Quiet) = FALSE
    BY <2>1, QuietBoolean
  <2> QED BY <2>2 DEF Init, Chain!ChainInit
<1> QED BY <1>2, <1>3, ChainStep, PTL DEF PacedSpec, IsPollChain, Chain!ChainSpec
=============================================================================
