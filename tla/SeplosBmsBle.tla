---------------------------- MODULE SeplosBmsBle ----------------------------
(***************************************************************************)
(* The Seplos BMS V2 Bluetooth client (SeplosBmsBle) and its switches      *)
(* (SeplosSwitch), against a BMS behind a Bluetooth link.                  *)
(*                                                                         *)
(* Like the V3 client it writes one command of a queue, puts the answer    *)
(* together from notifications, decodes it and writes the next. Unlike it, *)
(* an answer names its function, every frame begins with 0x7E and throws   *)
(* away what was in the buffer, and a switch writes into the polling: its  *)
(* answer moves the queue on like any other.                               *)
(*                                                                         *)
(* A switch shows a state when the write was accepted, and again when an   *)
(* answer with the status of all switches comes. In between the BMS may    *)
(* have refused, or an older answer may still be on its way.               *)
(*                                                                         *)
(* ESPHome runs every handler to completion on its main loop: each handler *)
(* is one action.                                                          *)
(***************************************************************************)
EXTENDS Naturals, Sequences

CONSTANTS
  Registers,       \* the switches: bits of the switch status
  AnswerSize,      \* bytes of the BMS's answer to each function
  Mtu,             \* largest notification
  MaxOutstanding,  \* requests and answers under way; a further request is lost
  MaxFaults,       \* faults a behaviour may have
  StrayLengths     \* frame lengths read from bytes that are no header

SEPLOS_COMMAND_QUEUE == << "settings", "manufacturer", "single_machine", "parallel" >>
Functions == {"settings", "manufacturer", "single_machine", "parallel", "mosfet_control"}

MAX_RESPONSE_SIZE == 200

\* 7 + data_len + 3 for any length field.
FrameLengths == { n \in Nat : 10 <= n /\ n <= 65545 }

ASSUME RegistersAssumption == Registers \subseteq {1, 2, 4, 8}
ASSUME AnswerSizeAssumption == AnswerSize \in [Functions -> 10 .. MAX_RESPONSE_SIZE]
\* A notification carries 20 bytes at the smallest ATT MTU: always a whole header.
ASSUME BoundsAssumption ==
  Mtu \in Nat /\ Mtu >= 20 /\ MaxOutstanding \in Nat \ {0} /\ MaxFaults \in Nat
ASSUME StrayLengthsAssumption == StrayLengths # {} /\ StrayLengths \subseteq FrameLengths

VARIABLES
  node_state,    \* what the client believes of the link
  online,        \* the online_status binary sensor
  handles,       \* characteristics found so far
  frame_buffer,  \* bytes assembled so far
  next_command,  \* index of the next command to write, from 0
  shown,         \* functions whose decoder has published
  switches,      \* per switch, the state it shows
  link,          \* connection state as the BLE stack sees it
  requests,      \* commands the BMS has not handled yet
  air,           \* answers under way
  taken,         \* bytes of Head(air) already delivered or lost
  whole,         \* none of them was lost
  mosfets,       \* the switches of the BMS
  faults         \* faults so far

client == << node_state, online, handles, frame_buffer, next_command, shown, switches >>
vars == << node_state, online, handles, frame_buffer, next_command, shown, switches,
           link, requests, air, taken, whole, mosfets, faults >>

Positions == {"on", "off"}
\* What a switch shows before anything was published to it.
Unknown == "unknown"

Poll(function) == [function |-> function, register |-> 0, state |-> Unknown]
MosfetControl(register, state) ==
  [function |-> "mosfet_control", register |-> register, state |-> state]

-----------------------------------------------------------------------------
(* Writing commands *)

\* A handle of an earlier connection is not forgotten, and may be used at once.
Reaches ==
  link # "down" /\ "command" \in handles /\ Len(requests) + Len(air) < MaxOutstanding

\* send_command: the stack accepts the write or not. It does not ask for ESTABLISHED.
send_command(request, accepted) ==
  \/ /\ Reaches /\ accepted
     /\ requests' = Append(requests, request)
     /\ UNCHANGED faults
  \/ /\ Reaches /\ faults < MaxFaults
     /\ faults' = faults + 1
     /\ UNCHANGED requests
  \/ /\ ~Reaches
     /\ UNCHANGED << requests, faults >>

\* The callers in the polling ignore the result.
Ask(position) ==
  \E accepted \in BOOLEAN :
    send_command(Poll(SEPLOS_COMMAND_QUEUE[position + 1]), accepted)

\* Slip: the position moves on past the end of the queue.
AskNextUncapped ==
  /\ next_command' = next_command + 1
  /\ IF next_command < Len(SEPLOS_COMMAND_QUEUE) THEN Ask(next_command)
                                                ELSE UNCHANGED << requests, faults >>

\* Every complete frame releases the next command, an answer to a switch too.
AskNext ==
  IF next_command < Len(SEPLOS_COMMAND_QUEUE)
  THEN Ask(next_command) /\ next_command' = next_command + 1
  ELSE UNCHANGED << next_command, requests, faults >>

\* The result of the write is all a switch looks at.
WriteState(register, state) ==
  /\ \E accepted \in BOOLEAN :
       /\ send_command(MosfetControl(register, state), accepted)
       /\ switches' = IF accepted THEN [switches EXCEPT ![register] = state] ELSE switches
  /\ UNCHANGED << node_state, online, handles, frame_buffer, next_command, shown,
                  link, air, taken, whole, mosfets >>

Press == \E register \in Registers, state \in Positions : WriteState(register, state)

-----------------------------------------------------------------------------
(* Decoding *)

\* The size each decoder asks for; the one of single_machine depends on the counts
\* in the frame (module SingleMachine) and asks for these 116 bytes of 16 cells and
\* 6 temperatures.
MinimalSize ==
  [settings |-> 145, manufacturer |-> 45, single_machine |-> 116, parallel |-> 58,
   mosfet_control |-> 0]

\* Functions whose decoder publishes; the others only log.
Publishing == {"manufacturer", "single_machine"}

\* Slip: the status answer leaves the switches to write_state().
PublishWithoutSwitches(frame) ==
  /\ shown' = IF frame.function \in Publishing THEN shown \cup {frame.function} ELSE shown
  /\ UNCHANGED switches

Publish(frame) ==
  IF frame.function \in Publishing /\ AnswerSize[frame.function] >= MinimalSize[frame.function]
  THEN /\ shown' = shown \cup {frame.function}
       /\ switches' = IF frame.function = "single_machine" THEN frame.mosfets ELSE switches
  ELSE UNCHANGED << shown, switches >>

-----------------------------------------------------------------------------
(***************************************************************************)
(* Frame assembly. The buffer is abstracted to its size, the frame length  *)
(* its header announces, and the frame it is a prefix of (intact). A       *)
(* buffer that starts in the middle of a frame announces any length. End   *)
(* marker and CRC are right exactly when the announced bytes are one whole *)
(* frame.                                                                  *)
(***************************************************************************)
NoFrame == [function |-> "none", mosfets |-> << >>, false_starts |-> {}]
EmptyBuffer == [size |-> 0, expected |-> 0, head |-> NoFrame, intact |-> FALSE]

\* One notification: bytes of the frame from taken on.
NotificationSize ==
  LET left == AnswerSize[Head(air).function] - taken IN IF left <= Mtu THEN left ELSE Mtu

Inserted(buffer, frame, offset, size, stray) ==
  IF buffer.size = 0
  THEN [size |-> size,
        expected |-> IF offset = 0 THEN AnswerSize[frame.function] ELSE stray,
        head |-> IF offset = 0 THEN frame ELSE NoFrame,
        intact |-> offset = 0]
  ELSE [buffer EXCEPT !.size = @ + size,
                      !.intact = @ /\ frame = buffer.head /\ offset = buffer.size]

\* Slip: what a broken frame left is kept.
KeptAtPreamble(preamble) ==
  IF frame_buffer.size > MAX_RESPONSE_SIZE THEN EmptyBuffer ELSE frame_buffer

\* Any notification whose first byte is 0x7E passes for the start of a frame.
Kept(preamble) ==
  IF frame_buffer.size > MAX_RESPONSE_SIZE \/ preamble THEN EmptyBuffer ELSE frame_buffer

TooLarge(buffer) == buffer.size >= 7 /\ buffer.expected > MAX_RESPONSE_SIZE
Complete(buffer) == buffer.size >= 7 /\ buffer.size >= buffer.expected

assemble(frame, offset, size, preamble) ==
  \E stray \in StrayLengths :
    LET buffer == Inserted(Kept(preamble), frame, offset, size, stray)
    IN  \/ /\ ~TooLarge(buffer) /\ ~Complete(buffer)
           /\ frame_buffer' = buffer
           /\ UNCHANGED << shown, switches, next_command, requests, faults >>
        \/ /\ Complete(buffer) /\ ~TooLarge(buffer) /\ buffer.intact
           /\ Publish(buffer.head)
           /\ AskNext
           /\ frame_buffer' = EmptyBuffer
        \/ /\ TooLarge(buffer) \/ (Complete(buffer) /\ ~buffer.intact)
           /\ frame_buffer' = EmptyBuffer
           /\ UNCHANGED << shown, switches, next_command, requests, faults >>

-----------------------------------------------------------------------------
(* Polling *)

\* Slip: a chain that did not finish is never started again.
MayPollFinished == node_state = "ESTABLISHED" /\ next_command = 0

MayPoll == node_state = "ESTABLISHED"

Update ==
  /\ MayPoll
  /\ Ask(0)
  /\ next_command' = 1
  /\ UNCHANGED << node_state, online, handles, frame_buffer, shown, switches,
                  link, air, taken, whole, mosfets >>

-----------------------------------------------------------------------------
(* Events of the Bluetooth stack *)

Connect ==
  /\ link = "down"
  /\ link' = "open"
  /\ UNCHANGED << client, requests, air, taken, whole, mosfets, faults >>

SearchComplete ==
  /\ link = "open"
  /\ \/ link' = "subscribing" /\ handles' = handles \cup {"notify", "command"}
     \/ link' = "subscribing" /\ handles' = handles \cup {"notify"}
     \/ link' = "unsuitable" /\ UNCHANGED handles
  /\ UNCHANGED << node_state, online, frame_buffer, next_command, shown, switches,
                  requests, air, taken, whole, mosfets, faults >>

\* The status of the registration is not looked at: the link may stay deaf. Command 0
\* is written but not counted, so the first answer writes it again.
RegForNotify ==
  /\ link = "subscribing"
  /\ link' \in {"up", "deaf"}
  /\ node_state' = "ESTABLISHED"
  /\ online' = TRUE
  /\ Ask(0)
  /\ UNCHANGED << handles, frame_buffer, next_command, shown, switches, air, taken,
                  whole, mosfets >>

LastNotification == taken + NotificationSize = AnswerSize[Head(air).function]

\* The head of the air moves on by one notification.
AdvanceAir(delivered) ==
  /\ air' = IF LastNotification THEN Tail(air) ELSE air
  /\ taken' = IF LastNotification THEN 0 ELSE taken + NotificationSize
  /\ whole' = (LastNotification \/ (whole /\ delivered))

Notify ==
  /\ link = "up"
  /\ air # << >>
  /\ UNCHANGED << node_state, online, handles, link, mosfets >>
  /\ assemble(Head(air), taken, NotificationSize,
              taken \in {0} \cup Head(air).false_starts)
  /\ AdvanceAir(TRUE)

\* Slip: the bytes received so far survive the connection.
ForgetAllButBytes == next_command' = 0 /\ UNCHANGED frame_buffer

ForgetProgress == next_command' = 0 /\ frame_buffer' = EmptyBuffer

Disconnect ==
  /\ link # "down"
  /\ link' = "down"
  /\ node_state' = "IDLE"
  /\ online' = FALSE
  /\ ForgetProgress
  /\ requests' = << >>
  /\ air' = << >>
  /\ taken' = 0
  /\ whole' = TRUE
  /\ UNCHANGED << handles, shown, switches, mosfets, faults >>

-----------------------------------------------------------------------------
(* The BMS and the radio *)

\* Places where a notification begins in the middle of an answer.
Continuations(function) == { n \in 1 .. AnswerSize[function] - 1 : n % Mtu = 0 }

\* A switch command may be refused; the answer tells, but nobody listens. The data may
\* have the byte 0x7E where a notification begins: a fault.
Answer ==
  /\ requests # << >>
  /\ requests' = Tail(requests)
  /\ mosfets' \in {mosfets} \cup
       { [mosfets EXCEPT ![r] = Head(requests).state] : r \in Registers \cap {Head(requests).register} }
  /\ \E false_starts \in SUBSET Continuations(Head(requests).function) :
       /\ false_starts # {} => faults < MaxFaults
       /\ faults' = IF false_starts = {} THEN faults ELSE faults + 1
       /\ air' = IF link = "up"
                 THEN Append(air, [function |-> Head(requests).function, mosfets |-> mosfets',
                                   false_starts |-> false_starts])
                 ELSE air
  /\ UNCHANGED << client, link, taken, whole >>

StaySilent ==
  /\ requests # << >>
  /\ faults < MaxFaults
  /\ requests' = Tail(requests)
  /\ faults' = faults + 1
  /\ UNCHANGED << client, link, air, taken, whole, mosfets >>

LoseNotification ==
  /\ air # << >>
  /\ faults < MaxFaults
  /\ AdvanceAir(FALSE)
  /\ faults' = faults + 1
  /\ UNCHANGED << client, link, requests, mosfets >>

\* The BMS turns a switch by itself, to protect the battery.
Protect ==
  /\ \E r \in Registers, state \in Positions :
       state # mosfets[r] /\ mosfets' = [mosfets EXCEPT ![r] = state]
  /\ UNCHANGED << client, link, requests, air, taken, whole, faults >>

-----------------------------------------------------------------------------
(* Specifications *)

Init ==
  /\ node_state = "IDLE"
  /\ online = FALSE
  /\ handles = {}
  /\ frame_buffer = EmptyBuffer
  /\ next_command = 0
  /\ shown = {}
  /\ switches = [r \in Registers |-> Unknown]
  /\ link = "down"
  /\ requests = << >>
  /\ air = << >>
  /\ taken = 0
  /\ whole = TRUE
  /\ mosfets \in [Registers -> Positions]
  /\ faults = 0

Events == Connect \/ SearchComplete \/ RegForNotify \/ Notify \/ Disconnect
Peer == Answer \/ StaySilent \/ LoseNotification \/ Protect

\* update() ticks and switches are pressed at any moment.
Next == Update \/ Press \/ Events \/ Peer

Spec == Init /\ [][Next]_vars

\* Nothing the client asked for is still under way.
Quiet == requests = << >> /\ air = << >>

(***************************************************************************)
(* The timer of a PollingComponent fires for ever, also when nothing is    *)
(* under way, a BMS answers or stays silent, and the stack delivers or     *)
(* loses what is under way. Nothing forces a connection to come up or to   *)
(* last.                                                                   *)
(***************************************************************************)
Fairness ==
  /\ WF_vars(Quiet /\ Update)
  /\ WF_vars(Answer \/ StaySilent)
  /\ WF_vars(Notify \/ LoseNotification)

LiveSpec == Spec /\ Fairness

-----------------------------------------------------------------------------
(* Invariants *)

Requests ==
  { Poll(f) : f \in Functions } \cup { MosfetControl(r, s) : r \in Registers, s \in Positions }
Frames ==
  UNION { [function : {f}, mosfets : [Registers -> Positions],
           false_starts : SUBSET Continuations(f)] : f \in Functions }
Buffers ==
  [size : Nat, expected : FrameLengths \cup {0}, head : Frames \cup {NoFrame}, intact : BOOLEAN]

\* An intact buffer is the beginning of a frame, and announces its length.
HeadKnown(buffer) ==
  buffer.intact => buffer.head \in Frames /\ buffer.expected = AnswerSize[buffer.head.function]

\* Types of the client's state and of what is under way. The buffer stays below
\* MAX_RESPONSE_SIZE, so its check at the top of assemble() is never needed.
TypeOK ==
  /\ node_state \in {"IDLE", "ESTABLISHED"}
  /\ online \in BOOLEAN
  /\ handles \subseteq {"notify", "command"}
  /\ frame_buffer \in Buffers
  /\ HeadKnown(frame_buffer)
  /\ frame_buffer.size < MAX_RESPONSE_SIZE
  /\ next_command \in 0 .. Len(SEPLOS_COMMAND_QUEUE)
  /\ shown \subseteq Publishing
  /\ switches \in [Registers -> Positions \cup {Unknown}]
  /\ link \in {"down", "open", "unsuitable", "subscribing", "up", "deaf"}
  /\ requests \in Seq(Requests)
  /\ air \in Seq(Frames)
  /\ taken \in Nat
  /\ IF air = << >> THEN taken = 0 ELSE taken < AnswerSize[Head(air).function]
  /\ whole \in BOOLEAN
  /\ mosfets \in [Registers -> Positions]
  /\ faults \in 0 .. MaxFaults

\* Nothing of a lost connection is left for the next one: no bytes of a frame and no
\* position in the queue, and the sensor shows offline.
OfflineIsClean ==
  node_state # "ESTABLISHED" => frame_buffer = EmptyBuffer /\ next_command = 0 /\ ~online

\* The client believes in a connection exactly while the stack has one that registered
\* for notifications, and only such a connection carries answers.
LinkAgrees ==
  /\ node_state = "ESTABLISHED" <=> link \in {"up", "deaf"}
  /\ link # "up" => air = << >>

Undamaged(frame) == whole /\ frame.false_starts = {}

\* What came of an undamaged answer is what is in the buffer, not a byte more or less.
PartInBuffer ==
  air # << >> /\ taken > 0 /\ Undamaged(Head(air)) =>
    frame_buffer = [size |-> taken, expected |-> AnswerSize[Head(air).function],
                    head |-> Head(air), intact |-> TRUE]

\* The invariant behind the proofs: a lost connection leaves nothing, and a live one
\* holds what came of the answer that is arriving.
ClientInv == LinkAgrees /\ OfflineIsClean /\ PartInBuffer

\* However the connection went before - broken frames, stale bytes, polls and switches
\* in between - the step that delivers the last notification of an undamaged answer
\* decodes it: it publishes, empties the buffer and moves the queue on.
UndamagedIsDecoded ==
  [][Notify /\ LastNotification /\ Undamaged(Head(air)) =>
       /\ frame_buffer' = EmptyBuffer
       /\ next_command' = IF next_command < Len(SEPLOS_COMMAND_QUEUE)
                          THEN next_command + 1 ELSE next_command
       /\ Head(air).function = "single_machine"
            /\ AnswerSize["single_machine"] >= MinimalSize["single_machine"]
            => switches' = Head(air).mosfets /\ "single_machine" \in shown']_vars

-----------------------------------------------------------------------------
(* Liveness *)

Healthy == link = "up" /\ "command" \in handles

\* A connection that lasts, polls that wait for the answers, nobody at the switches.
Undisturbed == <>[]Healthy /\ <>[][~Press /\ (Update => Quiet)]_vars

ChainDone == Quiet /\ next_command = Len(SEPLOS_COMMAND_QUEUE)

\* Whatever was lost, pressed or flushed before, on an undisturbed connection the whole
\* queue is asked and answered again and again.
ChainKeepsCompleting == Undisturbed => []<>ChainDone

\* A switch that shows a state the BMS refused or left, or one that an older answer
\* brought back, does not stay wrong.
SwitchesConverge ==
  Undisturbed /\ <>[][UNCHANGED mosfets]_vars => <>[](switches = mosfets)

-----------------------------------------------------------------------------
(* What a comment says, and the code does not do *)

\* "Flush buffer on every preamble (start of frame)": in the middle of a frame that
\* arrives without a loss the buffer is not flushed.
FlushedAtFrameStartOnly ==
  [][Notify /\ taken > 0 /\ whole /\ ~LastNotification => frame_buffer'.intact]_vars
=============================================================================
