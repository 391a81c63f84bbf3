--------------------------- MODULE SeplosBmsV3Ble ---------------------------
(***************************************************************************)
(* The Seplos BMS V3 Bluetooth client (SeplosBmsV3Ble and the packs        *)
(* registered with it), against a BMS behind a Bluetooth link.             *)
(*                                                                         *)
(* Client: one command is written, its answer arrives as notifications,    *)
(* assemble() puts the frame together, decode() publishes it and the next  *)
(* command of the queue is written. update() restarts the chain.           *)
(* An answer from address 0x00 or 0xE0 says nothing of the registers it    *)
(* carries: decode() trusts pending_reg_start_, the last block asked for.  *)
(*                                                                         *)
(* Link and BMS: requests wait in `requests', answers travel in `air' and  *)
(* arrive as notifications of at most Mtu bytes. A fault loses a request,  *)
(* an answer or one notification, or makes the BMS answer with an          *)
(* exception. A connection may also come up without the characteristics or *)
(* without the subscription to notifications.                              *)
(*                                                                         *)
(* ESPHome runs every handler to completion on its main loop: each handler *)
(* is one action.                                                          *)
(***************************************************************************)
EXTENDS V3Protocol

CONSTANTS
  SystemCommands,     \* the system command table
  PackAddresses,      \* addresses of the registered packs, in that order
  Mtu,                \* largest notification
  MaxOutstanding,     \* requests and answers under way; a further request is lost
  MaxFaults,          \* faults a behaviour may have
  StrayLengths,       \* frame lengths read from bytes that are no header
  ReportedPackCounts  \* values of register 0x2016

ASSUME SystemCommandsAssumption ==
  SystemCommands \in Seq(SystemCommand) /\ SystemCommands # << >>
\* validate_address_unique: no two packs of one BMS share an address.
ASSUME PackAddressesAssumption ==
  /\ PackAddresses \in Seq(Devices)
  /\ \A i, j \in 1 .. Len(PackAddresses) : PackAddresses[i] = PackAddresses[j] => i = j
\* A notification carries 20 bytes at the smallest ATT MTU: always a whole header.
ASSUME BoundsAssumption ==
  Mtu \in Nat /\ Mtu >= 20 /\ MaxOutstanding \in Nat \ {0} /\ MaxFaults \in Nat
ASSUME StrayLengthsAssumption ==
  StrayLengths # {} /\ StrayLengths \subseteq FrameLengths
ASSUME PackCountsAssumption ==
  ReportedPackCounts # {} /\ ReportedPackCounts \subseteq { n \in Nat : n < 65536 }

MAX_RESPONSE_SIZE == 300

VARIABLES
  node_state,         \* what the client believes of the link
  online,             \* the online_status binary sensor
  handles,            \* characteristics found so far
  frame_buffer,       \* bytes assembled so far
  next_command,       \* index of the next command to write, from 0
  pending_reg_start,  \* block of the last command written
  command_queue,      \* dynamic_command_queue_
  pack_count,         \* pack_count_
  sensors,            \* per sensor group, the command whose answer it shows
  link,               \* connection state as the BLE stack sees it
  requests,           \* commands the BMS has not handled yet
  air,                \* answers under way
  taken,              \* bytes of Head(air) already delivered or lost
  faults              \* faults so far

client == << node_state, online, handles, frame_buffer, next_command,
             pending_reg_start, command_queue, pack_count, sensors >>
vars == << node_state, online, handles, frame_buffer, next_command,
           pending_reg_start, command_queue, pack_count, sensors,
           link, requests, air, taken, faults >>

-----------------------------------------------------------------------------
(* Command queue *)

\* Slip: the packs are forgotten, as if they registered after the build.
BuiltQueueWithoutPacks == SystemCommands

\* build_dynamic_command_queue_: the system commands, then three per pack.
BuiltQueue ==
  [i \in 1 .. Len(SystemCommands) + 3 * Len(PackAddresses) |->
     IF i <= Len(SystemCommands)
     THEN SystemCommands[i]
     ELSE LET k == i - Len(SystemCommands) - 1
          IN Cmd(PackAddresses[(k \div 3) + 1],
                 SEPLOS_V3_PACK_COMMANDS[(k % 3) + 1].reg_start)]

\* next_command_ is a uint8_t that indexes the queue: below 83 packs.
ASSUME QueueFitsAssumption == Len(SystemCommands) + 3 * Len(PackAddresses) <= 255

-----------------------------------------------------------------------------
(* What the sensors show *)

Never == [device |-> 0, reg_start |-> "never"]
\* Values read beyond the end of a payload that is too short.
Overread == [device |-> 0, reg_start |-> "overread"]

Registered == { PackAddresses[i] : i \in 1 .. Len(PackAddresses) }
Groups == ({0} \X SystemBlocks) \cup (Registered \X PackBlocks)

\* A decoder with a size guard leaves short payloads alone.
Shown(block, cmd, before) ==
  IF DataBytes[cmd.reg_start] >= BytesRead[block] THEN cmd
  ELSE IF block \in Guarded THEN before ELSE Overread

\* Slip: the register is published as it was read.
UnclippedPackCounts == ReportedPackCounts

PublishedPackCounts == { IF n <= 16 THEN n ELSE 16 : n \in ReportedPackCounts }

DecodeSystem(cmd) ==
  IF pending_reg_start \in SystemBlocks
  THEN /\ sensors' = [sensors EXCEPT
                        ![<<0, pending_reg_start>>] = Shown(pending_reg_start, cmd, @)]
       /\ IF pending_reg_start = "EIA" THEN pack_count' \in PublishedPackCounts
                                       ELSE UNCHANGED pack_count
  ELSE UNCHANGED << sensors, pack_count >>

DecodePack(cmd) ==
  /\ sensors' = [g \in Groups |->
       IF g[1] = cmd.device /\ g[2] \in PackBlockOfLength(DataBytes[cmd.reg_start])
       THEN Shown(g[2], cmd, sensors[g]) ELSE sensors[g]]
  /\ UNCHANGED pack_count

Decode(frame) ==
  \/ /\ ~frame.error
     /\ frame.cmd.device \in {0, 224}
     /\ DecodeSystem(frame.cmd)
  \/ /\ ~frame.error
     /\ frame.cmd.device \in 1 .. 16
     /\ DecodePack(frame.cmd)
  \/ /\ frame.error \/ frame.cmd.device \notin {0, 224} \cup (1 .. 16)
     /\ UNCHANGED << sensors, pack_count >>

-----------------------------------------------------------------------------
(* Writing commands *)

\* The link and the BMS take a request that reaches them.
Writable == "command" \in handles /\ Len(requests) + Len(air) < MaxOutstanding

\* send_command_: its result is ignored by every caller.
send_command(cmd) ==
  \/ /\ node_state' = "ESTABLISHED" /\ Writable
     /\ requests' = Append(requests, cmd)
     /\ UNCHANGED faults
  \/ /\ node_state' = "ESTABLISHED" /\ Writable /\ faults < MaxFaults
     /\ faults' = faults + 1
     /\ UNCHANGED requests
  \/ /\ node_state' # "ESTABLISHED" \/ ~Writable
     /\ UNCHANGED << requests, faults >>

\* Every caller first notes the block it asks for.
Ask(cmd) == pending_reg_start' = cmd.reg_start /\ send_command(cmd)

\* Slip: the pending block is only noted by update().
AskNextUnnoted ==
  IF next_command < Len(command_queue)
  THEN /\ send_command(command_queue[next_command + 1])
       /\ next_command' = next_command + 1
       /\ UNCHANGED pending_reg_start
  ELSE UNCHANGED << pending_reg_start, next_command, requests, faults >>

AskNext ==
  IF next_command < Len(command_queue)
  THEN /\ Ask(command_queue[next_command + 1])
       /\ next_command' = next_command + 1
  ELSE UNCHANGED << pending_reg_start, next_command, requests, faults >>

-----------------------------------------------------------------------------
(***************************************************************************)
(* Frame assembly. The buffer is abstracted to its size, the frame length  *)
(* its header announces, and the frame it is a prefix of (intact). A       *)
(* buffer that starts in the middle of a frame announces any length. The   *)
(* CRC is right exactly when the announced bytes are one whole frame.      *)
(***************************************************************************)
NoFrame == [cmd |-> Never, error |-> FALSE]
EmptyBuffer == [size |-> 0, expected |-> 0, head |-> NoFrame, intact |-> FALSE]

\* One notification: size bytes of the frame from offset on.
NotificationSize ==
  LET left == FrameBytes(Head(air)) - taken IN IF left <= Mtu THEN left ELSE Mtu

Inserted(buffer, frame, offset, size, stray) ==
  IF buffer.size = 0
  THEN [size |-> size,
        expected |-> IF offset = 0 THEN FrameBytes(frame) ELSE stray,
        head |-> IF offset = 0 THEN frame ELSE NoFrame,
        intact |-> offset = 0]
  ELSE [buffer EXCEPT !.size = @ + size,
                      !.intact = @ /\ frame = buffer.head /\ offset = buffer.size]

\* Slip: any frame of minimal size passes for complete.
CompleteTooSoon(buffer) == buffer.size >= 5

\* Slip: a frame is complete at its length only, not beyond it.
CompleteExactly(buffer) == buffer.size >= 5 /\ buffer.size = buffer.expected

Complete(buffer) == buffer.size >= 5 /\ buffer.size >= buffer.expected

assemble(frame, offset, size) ==
  \E stray \in StrayLengths :
    LET kept == IF frame_buffer.size > MAX_RESPONSE_SIZE THEN EmptyBuffer
                                                         ELSE frame_buffer
        buffer == Inserted(kept, frame, offset, size, stray)
    IN  \/ /\ ~Complete(buffer)
           /\ frame_buffer' = buffer
           /\ UNCHANGED << sensors, pack_count, next_command, pending_reg_start,
                           requests, faults >>
        \/ /\ Complete(buffer) /\ buffer.intact
           /\ Decode(buffer.head)
           /\ AskNext
           /\ frame_buffer' = EmptyBuffer
        \/ /\ Complete(buffer) /\ ~buffer.intact
           /\ frame_buffer' = EmptyBuffer
           /\ UNCHANGED << sensors, pack_count, next_command, pending_reg_start,
                           requests, faults >>

\* The head of the air moves on by one notification.
AdvanceAir ==
  IF taken + NotificationSize = FrameBytes(Head(air))
  THEN air' = Tail(air) /\ taken' = 0
  ELSE taken' = taken + NotificationSize /\ UNCHANGED air

-----------------------------------------------------------------------------
(* Polling *)

\* Slip: a chain that did not finish is never started again.
MayPollFinished == node_state = "ESTABLISHED" /\ next_command = 0

MayPoll == node_state = "ESTABLISHED"

Update ==
  /\ MayPoll
  /\ command_queue' = IF command_queue = << >> THEN BuiltQueue ELSE command_queue
  /\ UNCHANGED node_state
  /\ Ask(command_queue'[1])
  /\ next_command' = 1
  /\ UNCHANGED << online, handles, frame_buffer, pack_count, sensors, link, air, taken >>

-----------------------------------------------------------------------------
(* Events of the Bluetooth stack *)

Connect ==
  /\ link = "down"
  /\ link' = "open"
  /\ UNCHANGED << client, requests, air, taken, faults >>

SearchComplete ==
  /\ link = "open"
  /\ \/ link' = "subscribing" /\ handles' = handles \cup {"notify", "command"}
     \/ link' = "subscribing" /\ handles' = handles \cup {"notify"}
     \/ link' = "unsuitable" /\ UNCHANGED handles
  /\ UNCHANGED << node_state, online, frame_buffer, next_command, pending_reg_start,
                  command_queue, pack_count, sensors, requests, air, taken, faults >>

\* The status of the registration is not looked at: the link may stay deaf.
RegForNotify ==
  /\ link = "subscribing"
  /\ link' \in {"up", "deaf"}
  /\ node_state' = "ESTABLISHED"
  /\ online' = TRUE
  /\ IF command_queue # << >>
     THEN Ask(command_queue[1])
     ELSE UNCHANGED << pending_reg_start, requests, faults >>
  /\ UNCHANGED << handles, frame_buffer, next_command, command_queue, pack_count,
                  sensors, air, taken >>

Notify ==
  /\ link = "up"
  /\ air # << >>
  /\ UNCHANGED << node_state, online, handles, command_queue, link >>
  /\ assemble(Head(air), taken, NotificationSize)
  /\ AdvanceAir

\* Slip: the bytes received so far survive the connection.
ForgetAllButBytes == next_command' = 0 /\ pack_count' = 0 /\ UNCHANGED frame_buffer

\* Slip: the position in the queue survives the connection.
ForgetAllButPosition == UNCHANGED next_command /\ pack_count' = 0 /\ frame_buffer' = EmptyBuffer

ForgetProgress == next_command' = 0 /\ pack_count' = 0 /\ frame_buffer' = EmptyBuffer

Disconnect ==
  /\ link # "down"
  /\ link' = "down"
  /\ node_state' = "IDLE"
  /\ online' = FALSE
  /\ ForgetProgress
  /\ requests' = << >>
  /\ air' = << >>
  /\ taken' = 0
  /\ UNCHANGED << handles, pending_reg_start, command_queue, sensors, faults >>

-----------------------------------------------------------------------------
(* The BMS and the radio *)

\* An answer nobody subscribed to is gone.
Answer ==
  /\ requests # << >>
  /\ requests' = Tail(requests)
  /\ \E error \in BOOLEAN :
       /\ error => faults < MaxFaults
       /\ faults' = IF error THEN faults + 1 ELSE faults
       /\ air' = IF link = "up"
                 THEN Append(air, [cmd |-> Head(requests), error |-> error]) ELSE air
  /\ UNCHANGED << client, link, taken >>

StaySilent ==
  /\ requests # << >>
  /\ faults < MaxFaults
  /\ requests' = Tail(requests)
  /\ faults' = faults + 1
  /\ UNCHANGED << client, link, air, taken >>

LoseNotification ==
  /\ air # << >>
  /\ faults < MaxFaults
  /\ AdvanceAir
  /\ faults' = faults + 1
  /\ UNCHANGED << client, link, requests >>

-----------------------------------------------------------------------------
(* Specifications *)

Init ==
  /\ node_state = "IDLE"
  /\ online = FALSE
  /\ handles = {}
  /\ frame_buffer = EmptyBuffer
  /\ next_command = 0
  /\ pending_reg_start = "none"
  /\ command_queue = << >>
  /\ pack_count = 0
  /\ sensors = [g \in Groups |-> Never]
  /\ link = "down"
  /\ requests = << >>
  /\ air = << >>
  /\ taken = 0
  /\ faults = 0

Events == Connect \/ SearchComplete \/ RegForNotify \/ Notify \/ Disconnect
Peer == Answer \/ StaySilent \/ LoseNotification

\* update() ticks at any moment, also while an answer is under way.
Next == Update \/ Events \/ Peer

Spec == Init /\ [][Next]_vars

\* Nothing the client asked for is still under way.
Quiet == requests = << >> /\ air = << >>

\* The update interval is longer than a whole chain of answers takes.
PacedUpdate == Quiet /\ Update
PacedNext == PacedUpdate \/ Events \/ Peer

PacedSpec == Init /\ [][PacedNext]_vars

(***************************************************************************)
(* The timer of a PollingComponent fires for ever, a BMS answers or stays  *)
(* silent, and the stack delivers or loses what is under way. Nothing      *)
(* forces a connection to come up or to last.                              *)
(***************************************************************************)
Fairness ==
  /\ WF_vars(PacedUpdate)
  /\ WF_vars(Answer \/ StaySilent)
  /\ WF_vars(Notify \/ LoseNotification)

LiveSpec == PacedSpec /\ Fairness

-----------------------------------------------------------------------------
(* Invariants *)

Buffers ==
  [size : Nat, expected : FrameLengths \cup {0}, head : Frame \cup {NoFrame}, intact : BOOLEAN]

\* An intact buffer is the beginning of a frame, and announces its length.
HeadKnown(buffer) ==
  buffer.intact => buffer.head \in Frame /\ buffer.expected = FrameBytes(buffer.head)

\* Types of the client's state and of what is under way.
TypeOK ==
  /\ node_state \in {"IDLE", "ESTABLISHED"}
  /\ online \in BOOLEAN
  /\ handles \subseteq {"notify", "command"}
  /\ frame_buffer \in Buffers
  /\ HeadKnown(frame_buffer)
  /\ next_command \in 0 .. Len(BuiltQueue)
  /\ pending_reg_start \in Blocks \cup {"none"}
  /\ command_queue \in { << >>, BuiltQueue }
  /\ pack_count \in 0 .. 16
  /\ sensors \in [Groups -> Command \cup {Never, Overread}]
  /\ link \in {"down", "open", "unsuitable", "subscribing", "up", "deaf"}
  /\ requests \in Seq(Command)
  /\ air \in Seq(Frame)
  /\ taken \in Nat
  /\ IF air = << >> THEN taken = 0 ELSE taken < FrameBytes(Head(air))
  /\ faults \in 0 .. MaxFaults

\* While connected, pending_reg_start_ names the last command written, in
\* whichever handler wrote it: update(), REG_FOR_NOTIFY or assemble().
PendingIsLastWritten ==
  node_state = "ESTABLISHED" /\ command_queue # << >> =>
    pending_reg_start =
      command_queue[IF next_command = 0 THEN 1 ELSE next_command].reg_start

\* Nothing of a lost connection is left for the next one: no bytes of a frame,
\* no position in the queue, no pack count, and the sensor shows offline.
OfflineIsClean ==
  node_state # "ESTABLISHED" =>
    /\ frame_buffer = EmptyBuffer
    /\ next_command = 0
    /\ pack_count = 0
    /\ ~online

\* Whatever is lost or interleaved, assemble() never keeps the bytes of a longest
\* frame: the MAX_RESPONSE_SIZE reset at its top is never needed.
BufferStaysBelowAFrame == frame_buffer.size < 260

\* The values of a pack are an answer of that pack, to that block, even when
\* answers come late: device and length of the frame decide, not the pending block.
PackValuesAreItsOwn ==
  \A g \in Registered \X PackBlocks :
    sensors[g] \in {Never, Cmd(g[1], g[2])}

\* With polls that wait for the answers, a system sensor group shows an answer to
\* its own block and nothing was read beyond a payload, whatever was lost.
SystemValuesAreTheirOwn ==
  \A b \in SystemBlocks : sensors[<<0, b>>].reg_start \in {"never", b}

\* With such polls at most one command is under way, and it is the pending one:
\* as a request, as an answer, or as the bytes assembled so far.
AtMostOneUnderWay ==
  /\ Len(requests) + Len(air) <= 1
  /\ \A i \in 1 .. Len(requests) : requests[i].reg_start = pending_reg_start
  /\ \A i \in 1 .. Len(air) : air[i].cmd.reg_start = pending_reg_start

\* With such polls the client is a poll chain: commands one at a time, in queue
\* order, each released by the answer to the last, a stalled chain started over.
Chain == INSTANCE PollChain
  WITH Length <- Len(BuiltQueue), position <- next_command, waiting <- ~Quiet

IsPollChain == Chain!ChainSpec

-----------------------------------------------------------------------------
(* Liveness *)

Healthy == link = "up" /\ "command" \in handles
ChainDone == Quiet /\ command_queue # << >> /\ next_command = Len(command_queue)

\* On a connection that lasts, lost answers never stop the polling for good: the
\* whole queue is asked and answered again and again. It needs an Mtu of 57, the answer to
\* EIA: of one in two notifications a flush may leave the second, which may announce a
\* length at which the same is left again.
ChainKeepsCompleting == <>[]Healthy => []<>ChainDone

\* Groups whose command is in the table and whose answer the decoders recognise: a pack
\* at address 0x00 is decoded as the ECU, no answer has PIC's length, and none is as long
\* as the decoder of SFA wants it.
Answerable ==
  ({ <<0, SystemCommands[i].reg_start>> : i \in 1 .. Len(SystemCommands) } \ {<<0, "SFA">>})
    \cup ((Registered \cap 1 .. 16) \X {"PIA", "PIB"})

\* On such a connection every other group, of the system and of the packs, ends up with a
\* value. Those of SFA and PIC never do: CoilsAreDecoded below.
AllGroupsFilled == <>[]Healthy => <>(\A g \in Answerable : sensors[g] # Never)

\* Bytes of a broken frame do not stay in the buffer for ever.
StaleBytesAreFlushed == <>[]Healthy => []<>(frame_buffer.size = 0)

-----------------------------------------------------------------------------
(* What comments and documents of the repository say, and the code does not do *)

\* The client can make something of a block of coils: on a connection that lasts, SFA, one
\* byte for each of the ten function switches the tables list, or the PIC of some pack is
\* decoded sooner or later. A violation is a connection on which neither ever is.
CoilsAreDecoded ==
  <>[]Healthy =>
    <>(\/ sensors[<<0, "SFA">>] # Never
       \/ \E p \in Registered \cap 1 .. 16 : sensors[<<p, "PIC">>] # Never)
=============================================================================
