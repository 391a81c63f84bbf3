------------------------------- MODULE Rs485 -------------------------------
(***************************************************************************)
(* The RS485 side as a whole: devices poll over one half-duplex line, BMSs *)
(* answer, the bus receives character by character and hands whole frames  *)
(* to the devices.                                                         *)
(*                                                                         *)
(* update() of a device sends its request whatever the line is doing: a    *)
(* request into an answer spoils both. Two requests sent one after the     *)
(* other make two BMSs answer at once; one BMS answers in turn.            *)
(***************************************************************************)
EXTENDS Naturals, Sequences

CONSTANTS
  NoFrame, Chars, ChecksumChars, MAX_RESPONSE_SIZE, rx_timeout, LoopTime, UartSize,
  MaxFaults,
  Devices, Address, Override, Answers, MAX_NO_RESPONSE_COUNT,
  MaxRequests, \* requests no BMS has reacted to; a further one is not heard
  Flaky        \* addresses whose BMS comes and goes; the others are there

ASSUME MaxRequestsAssumption == MaxRequests \in Nat
ASSUME CountAssumption == MAX_NO_RESPONSE_COUNT \in Nat \ {0}
ASSUME LineAssumption ==
  /\ NoFrame \notin Answers /\ Chars \in [Answers -> { n \in Nat : n >= ChecksumChars + 3 }]
  /\ ChecksumChars \in Nat /\ MAX_RESPONSE_SIZE \in Nat /\ ChecksumChars <= MAX_RESPONSE_SIZE
  /\ UartSize \in Nat \ {0} /\ MaxFaults \in Nat
  /\ rx_timeout \in Nat /\ LoopTime \in Nat \ {0}

VARIABLES
  line, uart, rx_buffer, age, lap, looping, dispatched, quiet, seen, faults,
  no_response_count, online_status, errors, shown, silent, notices,
  requests,  \* addresses asked, oldest first
  alive      \* addresses at which a BMS answers

Bus == INSTANCE SeplosModbus WITH Frames <- Answers
Bms == INSTANCE SeplosBms

ASSUME DevicesAssumption ==
  /\ Address \in [Devices -> { n \in Nat : n < 256 }]
  /\ Override \in [Devices -> { n \in Nat : n <= 16 }]
ASSUME AnswersAssumption == Answers \subseteq [address : Nat, layout : Bms!TelemetryFrame]

bus == << line, uart, rx_buffer, age, lap, looping, dispatched, quiet, seen, faults >>
bms == << no_response_count, online_status, errors, shown, silent, notices >>
vars == << bus, bms, requests, alive >>

Addresses == { Address[d] : d \in Devices }

-----------------------------------------------------------------------------
(* Devices *)

Heard(address) ==
  IF Len(requests) < MaxRequests
  THEN requests' = Append(requests, address) ELSE UNCHANGED requests

Poll(d) ==
  /\ ~looping
  /\ Bms!Update(d)
  /\ \/ line = Bus!Idle /\ Heard(Address[d]) /\ UNCHANGED bus
     \/ line # Bus!Idle /\ Bus!Collide /\ UNCHANGED requests
     \/ line # Bus!Idle /\ line.frame = NoFrame /\ UNCHANGED << bus, requests >>
  /\ UNCHANGED alive

\* A frame the parser accepts is handed over before the next character is read. A
\* restart of the program, the only way a character ends loop(), takes the devices along.
Read ==
  /\ Bus!ReadChar
  /\ \/ dispatched' # NoFrame /\ Bms!Receive(dispatched')
     \/ dispatched' = NoFrame /\ looping' /\ UNCHANGED bms
     \/ dispatched' = NoFrame /\ ~looping' /\ Bms!Restart
  /\ UNCHANGED << requests, alive >>

-----------------------------------------------------------------------------
(* BMSs and the line *)

Answer ==
  /\ requests # << >>
  /\ requests' = Tail(requests)
  /\ \/ /\ Head(requests) \in alive
        /\ line = Bus!Idle
        /\ \E f \in Answers : f.address = Head(requests) /\ Bus!Send(f)
     \/ /\ Head(requests) \in alive
        /\ line.frame # NoFrame /\ line.frame.address # Head(requests)
        /\ Bus!Collide
     \/ /\ line.frame = NoFrame /\ line # Bus!Idle
        /\ UNCHANGED bus
     \/ /\ Head(requests) \notin alive
        /\ UNCHANGED bus
  /\ UNCHANGED << bms, alive >>

Switch ==
  /\ \E a \in Flaky : alive' = IF a \in alive THEN alive \ {a} ELSE alive \cup {a}
  /\ UNCHANGED << bus, bms, requests >>

Transfer == (Bus!Arrive \/ Bus!Lose) /\ UNCHANGED << bms, requests, alive >>
Disturb == Bus!Disturb /\ UNCHANGED << bms, requests, alive >>
LoopEdge == (Bus!LoopBegin \/ Bus!LoopEnd) /\ UNCHANGED << bms, requests, alive >>
Time == Bus!Tick /\ UNCHANGED << bms, requests, alive >>

-----------------------------------------------------------------------------
(* Specifications *)

Init == Bus!Init /\ Bms!Init /\ requests = << >> /\ alive \in { Addresses, Addresses \ Flaky }

Next == (\E d \in Devices : Poll(d)) \/ Read \/ Answer \/ Switch \/ Transfer \/ Disturb \/ LoopEdge \/ Time

Spec == Init /\ [][Next]_vars

(***************************************************************************)
(* Polls far enough apart for the answers, answers sent in one go. The     *)
(* timer of every device fires for ever, BMSs that are there answer, the   *)
(* main loop goes round.                                                   *)
(***************************************************************************)
Settled == requests = << >> /\ line = Bus!Idle /\ uart = << >>
PacedPoll(d) == Settled /\ Poll(d)
SteadyTime == (line.sent > 0 => quiet + 1 + 2 * LoopTime <= rx_timeout) /\ Time

PacedNext ==
  (\E d \in Devices : PacedPoll(d)) \/ Read \/ Answer \/ Switch
    \/ Transfer \/ Disturb \/ LoopEdge \/ SteadyTime

LiveSpec ==
  /\ Init /\ [][PacedNext]_vars
  /\ \A d \in Devices : SF_vars(PacedPoll(d))
  /\ WF_vars(Answer) /\ WF_vars(Transfer) /\ WF_vars(LoopEdge) /\ WF_vars(Read)

-----------------------------------------------------------------------------
(* Properties *)

\* An undisturbed frame takes every device with its address online at once, however
\* polls of the others, collisions and the loop interleave with it.
DeliveredMeansOnline ==
  [][Bus!ReadChar =>
       \A f \in Answers : \A d \in Devices :
         Bus!Undisturbed(f) /\ Address[d] = f.address =>
           online_status'[d] = "on" /\ silent'[d] = 0]_vars

\* A BMS that is there for good ends up online for good, whatever was lost or spoilt
\* before, and every sensor of its device shows its values.
AliveComesOnline ==
  \A d \in Devices :
    <>[](Address[d] \in alive) =>
      <>[](online_status[d] = "on" /\ \A s \in Bms!MainFields : shown[d][s] \in Answers)

\* A BMS that is gone for good ends up offline for good, and its values disappear.
GoneGoesOffline ==
  \A d \in Devices :
    <>[](Address[d] \notin alive) =>
      <>[](online_status[d] = "off" /\ \A s \in Bms!Sensors : shown[d][s] = Bms!NaN)

\* While a BMS is there, a character lost or made up costs at most two answers: the one
\* it spoils and one that runs into its rest. One fault never takes a device offline.
FaultsExcuseSilence ==
  \A d \in Devices :
    [](Address[d] \in alive) => [](silent[d] <= 2 * faults + 1)
=============================================================================
