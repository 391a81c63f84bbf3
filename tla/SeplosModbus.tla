---------------------------- MODULE SeplosModbus ----------------------------
(***************************************************************************)
(* The receiving side of the RS485 bus (SeplosModbus), character by        *)
(* character: a BMS sends a frame, the UART queues what arrives, loop()    *)
(* clears the buffer after a time-out and then parses all there is to read.*)
(*                                                                         *)
(* Time passes in ticks. loop() looks at the clock once, when it begins;   *)
(* characters that arrive while it runs, dispatch included, are still read *)
(* by it and bear the time of its beginning. age is how long ago the last  *)
(* accepted character was stamped (now - last_seplos_modbus_byte_).        *)
(*                                                                         *)
(* The checksum is right exactly when the buffer is one whole frame.       *)
(***************************************************************************)
EXTENDS Naturals, Sequences

CONSTANTS
  Frames,             \* what a BMS may send
  NoFrame,            \* no frame of a BMS
  Chars,              \* characters of each frame, from '~' to '\r'
  ChecksumChars,      \* 4
  MAX_RESPONSE_SIZE,  \* 340
  rx_timeout,         \* in ticks
  LoopTime,           \* ticks between the beginnings of two loop()s, at most
  UartSize,           \* rx_buffer_size of the UART
  MaxFaults           \* characters lost or made up, and collisions, in a behaviour;
                      \* a character that finds the UART full is one that is lost

ASSUME FramesAssumption ==
  NoFrame \notin Frames /\ Chars \in [Frames -> { n \in Nat : n >= ChecksumChars + 3 }]
ASSUME SizesAssumption ==
  /\ ChecksumChars \in Nat /\ MAX_RESPONSE_SIZE \in Nat /\ ChecksumChars <= MAX_RESPONSE_SIZE
  /\ UartSize \in Nat \ {0} /\ MaxFaults \in Nat
ASSUME TimesAssumption == rx_timeout \in Nat /\ LoopTime \in Nat \ {0}

VARIABLES
  line,        \* the frame being sent and how much of it was
  uart,        \* characters waiting to be read, each with the pause before it
  rx_buffer,   \* rx_buffer_
  age,         \* ticks since the stamp of the last accepted character
  lap,         \* ticks since loop() last began
  looping,     \* loop() is running
  dispatched,  \* the frame the last step handed to the devices
  quiet,       \* ticks since a character arrived
  seen,        \* how much of a frame was read without a gap, from a boundary on
  faults       \* faults so far

vars == << line, uart, rx_buffer, age, lap, looping, dispatched, quiet, seen, faults >>
history == << quiet, seen >>

-----------------------------------------------------------------------------
(* Characters *)

Kinds == {"sof", "data", "eof"}
CharOf(f, i) ==
  [kind |-> IF i = 1 THEN "sof" ELSE IF i = Chars[f] THEN "eof" ELSE "data",
   frame |-> f, at |-> i]
Noise(kind) == [kind |-> kind, frame |-> NoFrame, at |-> 0]

Char ==
  { c \in [kind : Kinds, frame : Frames \cup {NoFrame}, at : Nat] :
      IF c.frame = NoFrame THEN c.at = 0
      ELSE c.at \in 1 .. Chars[c.frame] /\ c = CharOf(c.frame, c.at) }

Whole(f) == [i \in 1 .. Chars[f] |-> CharOf(f, i)]

\* A pause is short when no loop() can time out in it, long when one must.
Pauses == {"short", "doubtful", "long"}
Pause ==
  IF quiet + 2 * LoopTime <= rx_timeout THEN "short"
  ELSE IF quiet > rx_timeout + 2 * LoopTime THEN "long" ELSE "doubtful"

\* Clocks stop where nothing is decided any more.
Capped(t, limit) == IF t > limit THEN limit ELSE t
MaxAge == rx_timeout + LoopTime + 1
MaxQuiet == rx_timeout + 2 * LoopTime + 1

-----------------------------------------------------------------------------
(* The line *)

Idle == [frame |-> NoFrame, sent |-> 0, length |-> 0]

Send(f) ==
  /\ line = Idle
  /\ line' = [frame |-> f, sent |-> 0, length |-> Chars[f]]
  /\ dispatched' = NoFrame
  /\ UNCHANGED << uart, rx_buffer, age, lap, looping, history, faults >>

\* Another BMS answers at the same time: the rest of the frame is noise.
Collide ==
  /\ line.frame # NoFrame
  /\ faults < MaxFaults
  /\ faults' = faults + 1
  /\ line' = [line EXCEPT !.frame = NoFrame]
  /\ dispatched' = NoFrame
  /\ UNCHANGED << uart, rx_buffer, age, lap, looping, history >>

Queue(char) ==
  /\ Len(uart) < UartSize
  /\ uart' = Append(uart, [char |-> char, pause |-> Pause])
  /\ quiet' = 0

Passed ==
  IF line.sent + 1 = line.length THEN Idle ELSE [line EXCEPT !.sent = @ + 1]

Arrive ==
  /\ line # Idle
  /\ line' = Passed
  /\ IF line.frame # NoFrame
     THEN Queue(CharOf(line.frame, line.sent + 1))
     ELSE \E kind \in Kinds : Queue(Noise(kind))
  /\ dispatched' = NoFrame
  /\ UNCHANGED << rx_buffer, age, lap, looping, seen, faults >>

Lose ==
  /\ line # Idle
  /\ faults < MaxFaults
  /\ faults' = faults + 1
  /\ line' = Passed
  /\ dispatched' = NoFrame
  /\ UNCHANGED << uart, rx_buffer, age, lap, looping, history >>

Disturb ==
  /\ faults < MaxFaults
  /\ faults' = faults + 1
  /\ \E kind \in Kinds : Queue(Noise(kind))
  /\ dispatched' = NoFrame
  /\ UNCHANGED << line, rx_buffer, age, lap, looping, seen >>

\* Time passes, no further than to the next loop().
Tick ==
  /\ lap < LoopTime
  /\ lap' = lap + 1
  /\ age' = Capped(age + 1, MaxAge)
  /\ quiet' = Capped(quiet + 1, MaxQuiet)
  /\ dispatched' = NoFrame
  /\ UNCHANGED << line, uart, rx_buffer, looping, seen, faults >>

-----------------------------------------------------------------------------
(* loop() *)

\* Slip: half the time.
TimedOutEarly == 2 * age > rx_timeout

TimedOut == age > rx_timeout

\* Slip: every loop() takes the time for that of a character.
AgeAlwaysReset == 0

AgeAfterCheck == IF TimedOut THEN 0 ELSE age

LoopBegin ==
  /\ ~looping
  /\ looping' = TRUE
  /\ lap' = 0
  /\ rx_buffer' = IF TimedOut THEN << >> ELSE rx_buffer
  /\ age' = AgeAfterCheck
  /\ dispatched' = NoFrame
  /\ UNCHANGED << line, uart, history, faults >>

LoopEnd ==
  /\ looping
  /\ uart = << >>
  /\ looping' = FALSE
  /\ dispatched' = NoFrame
  /\ UNCHANGED << line, uart, rx_buffer, age, lap, history, faults >>

\* parse_seplos_modbus_byte_ keeps a character: it returns true.
Accepted(char) == IF rx_buffer = << >> THEN char.kind = "sof" ELSE char.kind # "eof"

\* Slip: only the first character of a frame is stamped.
StampedOnce == IF rx_buffer = << >> THEN lap ELSE age

\* The age of a stamp with the time loop() began.
Stamped == lap

Keep(char) ==
  /\ Accepted(char)
  /\ rx_buffer' = Append(rx_buffer, char)
  /\ age' = Stamped
  /\ dispatched' = NoFrame
  /\ uart' = Tail(uart)
  /\ UNCHANGED << lap, looping >>

Reject(char) ==
  /\ rx_buffer = << >>
  /\ ~Accepted(char)
  /\ uart' = Tail(uart)
  /\ dispatched' = NoFrame
  /\ UNCHANGED << rx_buffer, age, lap, looping >>

\* Slip: what a bad checksum leaves behind stays in the buffer.
KeptUnlessDispatched(chars) == IF \E f \in Frames : chars = Whole(f) THEN << >> ELSE chars

\* After an end of frame the buffer is cleared, whatever came of it.
Rest(chars) == << >>

\* '\r' at index Len(rx_buffer).
EndFrame(char) ==
  /\ rx_buffer # << >>
  /\ ~Accepted(char)
  /\ Len(rx_buffer) > ChecksumChars
  /\ LET chars == Append(rx_buffer, char) IN
       /\ rx_buffer' = Rest(chars)
       /\ IF Len(rx_buffer) <= MAX_RESPONSE_SIZE /\ \E f \in Frames : chars = Whole(f)
          THEN dispatched' = CHOOSE f \in Frames : chars = Whole(f)
          ELSE dispatched' = NoFrame
  /\ uart' = Tail(uart)
  /\ UNCHANGED << age, lap, looping >>

(***************************************************************************)
(* '\r' too early for a checksum: at - 4 - 1 wraps to some 65000 and chksum *)
(* adds up what lies behind the buffer. It finds a wrong sum, or the       *)
(* program stops at an address that is not there and starts anew.          *)
(***************************************************************************)
EndFragment(char) ==
  /\ rx_buffer # << >>
  /\ ~Accepted(char)
  /\ Len(rx_buffer) <= ChecksumChars
  /\ rx_buffer' = << >>
  /\ dispatched' = NoFrame
  /\ \/ uart' = Tail(uart) /\ UNCHANGED << age, lap, looping >>
     \/ uart' = << >> /\ age' = 0 /\ lap' = 0 /\ looping' = FALSE

(***************************************************************************)
(* What the reader has seen. A frame may begin at a boundary: after a '\r'  *)
(* or a long pause. It goes on with its next character after a short pause.*)
(***************************************************************************)
Boundary == [frame |-> NoFrame, at |-> 0]
Disturbed == [frame |-> NoFrame, at |-> 1]

Follow(char, pause) ==
  seen' = IF char.kind = "eof" THEN Boundary
          ELSE IF pause = "long" \/ seen = Boundary
          THEN IF char.at = 1 THEN [frame |-> char.frame, at |-> 1] ELSE Disturbed
          ELSE IF pause = "short" /\ char.frame = seen.frame /\ char.at = seen.at + 1
          THEN [frame |-> char.frame, at |-> char.at] ELSE Disturbed

ReadChar ==
  /\ looping
  /\ uart # << >>
  /\ LET char == Head(uart).char IN
       /\ Keep(char) \/ Reject(char) \/ EndFrame(char) \/ EndFragment(char)
       /\ Follow(char, Head(uart).pause)
  /\ UNCHANGED << line, quiet, faults >>

-----------------------------------------------------------------------------
(* Specifications *)

Init ==
  /\ line = Idle
  /\ uart = << >>
  /\ rx_buffer = << >>
  /\ age = 0
  /\ lap = 0
  /\ looping = FALSE
  /\ dispatched = NoFrame
  /\ quiet = 0
  /\ seen = Boundary
  /\ faults = 0

Wire == Collide \/ Arrive \/ Lose \/ Disturb
Loop == LoopBegin \/ ReadChar \/ LoopEnd

Next == (\E f \in Frames : Send(f)) \/ Wire \/ Tick \/ Loop

Spec == Init /\ [][Next]_vars

-----------------------------------------------------------------------------
(* Invariants *)

Pending == [char : Char, pause : Pauses]

\* Types; the buffer holds the beginning of one frame: '~' first, no '\r' in it.
TypeOK ==
  /\ line \in [frame : Frames \cup {NoFrame}, sent : Nat, length : Nat]
  /\ line.frame \in Frames => line.length = Chars[line.frame] /\ line.sent < line.length
  /\ uart \in Seq(Pending) /\ Len(uart) <= UartSize
  /\ rx_buffer \in Seq(Char)
  /\ rx_buffer # << >> => rx_buffer[1].kind = "sof"
  /\ \A i \in 1 .. Len(rx_buffer) : rx_buffer[i].kind # "eof"
  /\ age \in Nat /\ age <= MaxAge
  /\ lap \in Nat /\ lap <= LoopTime
  /\ looping \in BOOLEAN
  /\ dispatched \in Frames \cup {NoFrame}
  /\ quiet \in Nat /\ quiet <= MaxQuiet
  /\ seen \in [frame : Frames \cup {NoFrame}, at : Nat]
  /\ faults \in Nat /\ faults <= MaxFaults

\* Bytes of a broken frame do not outlive a silence: after the time-out and two
\* rounds of the main loop the buffer is empty.
SilenceClears == quiet > rx_timeout + 2 * LoopTime /\ uart = << >> => rx_buffer = << >>

\* The next character completes a frame that came whole, from a boundary on, with no
\* pause in it that a time-out could fall into.
Undisturbed(f) ==
  /\ seen = [frame |-> f, at |-> Chars[f] - 1]
  /\ Head(uart) = [char |-> CharOf(f, Chars[f]), pause |-> "short"]
  /\ Chars[f] - 1 <= MAX_RESPONSE_SIZE

\* A frame that follows a '\r' or a long silence and arrives without a gap reaches the
\* devices, however the loop and the arrivals interleave and whatever came before.
FrameDelivered ==
  [][ReadChar => \A f \in Frames : Undisturbed(f) => dispatched' = f]_vars

-----------------------------------------------------------------------------
(***************************************************************************)
(* Why FrameDelivered and SilenceClears hold: how far the stamp of the     *)
(* last character, the arrivals and the rounds of loop() can be apart.     *)
(***************************************************************************)
Clocks ==
  /\ uart # << >> => quiet <= lap + (IF looping THEN LoopTime ELSE 0)
  /\ rx_buffer # << >> => age <= rx_timeout + lap
  /\ rx_buffer # << >> /\ uart = << >> =>
       /\ age <= quiet + LoopTime
       /\ age > rx_timeout + LoopTime \/ quiet <= age + LoopTime
  /\ rx_buffer # << >> /\ uart # << >> /\ ~looping =>
       /\ Head(uart).pause = "short" => age + LoopTime <= rx_timeout + lap
       /\ Head(uart).pause = "long" => age > rx_timeout
  /\ looping /\ uart # << >> /\ rx_buffer # << >> => Head(uart).pause # "long"
  /\ \A i \in 2 .. Len(uart) : uart[i].pause # "long"

\* What was seen of a frame is in the buffer, or went in a pause that shows.
Prefix(f, n) == [i \in 1 .. n |-> CharOf(f, i)]
TimedOutSince ==
  /\ rx_buffer = << >>
  /\ IF uart = << >> THEN quiet + 2 * LoopTime > rx_timeout ELSE Head(uart).pause # "short"

SeenIsBuffered ==
  /\ seen = Boundary => rx_buffer = << >>
  /\ seen.frame \in Frames =>
       /\ seen.at \in 1 .. Chars[seen.frame] - 1
       /\ rx_buffer = Prefix(seen.frame, seen.at) \/ TimedOutSince

\* However late the loop, the stamp of the last character lies between the arrivals and
\* the last round, and no character of a frame that came without a gap has been lost.
LineInv == Clocks /\ SeenIsBuffered
=============================================================================
