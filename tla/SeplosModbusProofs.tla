------------------------- MODULE SeplosModbusProofs -------------------------
(***************************************************************************)
(* The receiver keeps its buffer to the beginning of one frame, forgets a  *)
(* broken one after a silence, and hands over every frame that comes       *)
(* undisturbed: for all frames, time-outs, loop times, UART sizes and any  *)
(* number of faults.                                                       *)
(***************************************************************************)
EXTENDS SeplosModbus, TLAPS

(***************************************************************************)
(* Characters.                                                             *)
(***************************************************************************)
LEMMA CharsOfAFrame ==
  ASSUME NEW f \in Frames
  PROVE  /\ Chars[f] \in Nat
         /\ Chars[f] >= ChecksumChars + 3
         /\ f # NoFrame
BY FramesAssumption

LEMMA CharKnown ==
  ASSUME NEW c \in Char
  PROVE  /\ c.kind \in Kinds
         /\ c.frame \in Frames =>
              c.at \in 1 .. Chars[c.frame] /\ c = CharOf(c.frame, c.at)
         /\ c.frame \notin Frames => c.frame = NoFrame /\ c.at = 0
BY FramesAssumption DEF Char

LEMMA CharOfIsChar ==
  ASSUME NEW f \in Frames, NEW i \in 1 .. Chars[f]
  PROVE  CharOf(f, i) \in Char
BY CharsOfAFrame, SizesAssumption DEF Char, CharOf, Kinds

LEMMA NoiseIsChar ==
  ASSUME NEW kind \in Kinds
  PROVE  Noise(kind) \in Char
BY DEF Char, Noise

LEMMA PauseType == Pause \in Pauses
BY DEF Pause, Pauses

(***************************************************************************)
(* What a character that is queued adds to the UART.                       *)
(***************************************************************************)
LEMMA Queued ==
  ASSUME TypeOK, NEW c \in Char, Queue(c)
  PROVE  /\ uart' \in Seq(Pending)
         /\ Len(uart') <= UartSize
         /\ quiet' = 0
         /\ Len(uart') = Len(uart) + 1
         /\ uart' # << >>
         /\ uart = << >> => Head(uart').pause = Pause
         /\ uart # << >> => Head(uart') = Head(uart)
         /\ \A i \in 1 .. Len(uart) : uart'[i] = uart[i]
         /\ uart'[Len(uart) + 1].pause = Pause
<1>1. [char |-> c, pause |-> Pause] \in Pending
  BY PauseType DEF Pending
<1>2. uart \in Seq(Pending) /\ uart' = Append(uart, [char |-> c, pause |-> Pause])
  BY DEF TypeOK, Queue
<1>3. Len(uart) < UartSize /\ quiet' = 0 /\ UartSize \in Nat
  BY SizesAssumption DEF Queue
<1>4. uart' \in Seq(Pending) /\ Len(uart') = Len(uart) + 1 /\ Len(uart') <= UartSize
  BY <1>1, <1>2, <1>3
<1>5. /\ \A i \in 1 .. Len(uart) : uart'[i] = uart[i]
      /\ uart'[Len(uart) + 1].pause = Pause
  BY <1>1, <1>2
<1>6. /\ uart = << >> => Head(uart').pause = Pause
      /\ uart # << >> => Head(uart') = Head(uart)
  BY <1>1, <1>2
<1> QED
  BY <1>2, <1>3, <1>4, <1>5, <1>6

(***************************************************************************)
(* A round of the UART: the head leaves, the rest moves up.                *)
(***************************************************************************)
LEMMA Unqueued ==
  ASSUME TypeOK, uart # << >>, uart' = Tail(uart)
  PROVE  /\ uart' \in Seq(Pending)
         /\ Len(uart') = Len(uart) - 1
         /\ \A i \in 1 .. Len(uart') : uart'[i] = uart[i + 1]
         /\ uart' # << >> => Head(uart') = uart[2] /\ 2 \in 1 .. Len(uart)
BY DEF TypeOK

LEMMA HeadIsChar ==
  ASSUME TypeOK, uart # << >>
  PROVE  /\ Head(uart).char \in Char
         /\ Head(uart).pause \in Pauses
<1>1. Head(uart) \in Pending
  BY DEF TypeOK
<1> QED
  BY <1>1 DEF Pending

LEMMA Passing ==
  ASSUME TypeOK, line # Idle
  PROVE  /\ Passed \in [frame : Frames \cup {NoFrame}, sent : Nat, length : Nat]
         /\ Passed.frame \in Frames =>
              Passed.length = Chars[Passed.frame] /\ Passed.sent < Passed.length
<1>1. CASE line.sent + 1 = line.length
  BY <1>1, FramesAssumption DEF Passed, Idle
<1>2. CASE line.sent + 1 # line.length
  <2>1. Passed = [line EXCEPT !.sent = line.sent + 1]
    BY <1>2 DEF Passed
  <2>2. Passed = [frame |-> line.frame, sent |-> line.sent + 1, length |-> line.length]
    BY <2>1 DEF TypeOK
  <2>3. line.sent \in Nat /\ line.length \in Nat /\ line.frame \in Frames \cup {NoFrame}
    BY DEF TypeOK
  <2> QED
    BY <2>2, <2>3, <1>2 DEF TypeOK
<1> QED
  BY <1>1, <1>2

-----------------------------------------------------------------------------
(***************************************************************************)
(* Types.                                                                  *)
(***************************************************************************)
LEMMA InitType == Init => TypeOK
<1> SUFFICES ASSUME Init PROVE TypeOK
  OBVIOUS
<1>1. /\ line \in [frame : Frames \cup {NoFrame}, sent : Nat, length : Nat]
      /\ line.frame \notin Frames
      /\ seen \in [frame : Frames \cup {NoFrame}, at : Nat]
  BY FramesAssumption DEF Init, Idle, Boundary
<1>2. /\ age \in Nat /\ age <= MaxAge
      /\ lap \in Nat /\ lap <= LoopTime
      /\ quiet \in Nat /\ quiet <= MaxQuiet
  BY TimesAssumption DEF Init, MaxAge, MaxQuiet
<1>3. uart \in Seq(Pending) /\ Len(uart) <= UartSize /\ faults \in Nat /\ faults <= MaxFaults
  BY SizesAssumption DEF Init
<1>4. /\ rx_buffer = << >>
      /\ dispatched \in Frames \cup {NoFrame}
  BY DEF Init
<1>5. looping \in BOOLEAN
  BY DEF Init
<1> QED
  BY <1>1, <1>2, <1>3, <1>4, <1>5 DEF TypeOK

LEMMA ClockTypes == TypeOK => age \in Nat /\ lap \in Nat /\ quiet \in Nat /\ LoopTime \in Nat
                              /\ rx_timeout \in Nat /\ MaxAge \in Nat /\ MaxQuiet \in Nat
BY TimesAssumption DEF TypeOK, MaxAge, MaxQuiet

LEMMA NextType == TypeOK /\ [Next]_vars => TypeOK'
<1> SUFFICES ASSUME TypeOK, [Next]_vars PROVE TypeOK'
  OBVIOUS
<1>1. ASSUME NEW f \in Frames, Send(f) PROVE TypeOK'
  <2>1. line' \in [frame : Frames \cup {NoFrame}, sent : Nat, length : Nat]
        /\ line'.frame = f /\ line'.length = Chars[f] /\ line'.sent = 0 /\ 0 < Chars[f]
    BY <1>1, CharsOfAFrame, SizesAssumption DEF Send
  <2> QED
    BY <1>1, <2>1 DEF TypeOK, Send, history
<1>2. CASE Collide
  <2>1. line' = [frame |-> NoFrame, sent |-> line.sent, length |-> line.length]
    BY <1>2 DEF Collide, TypeOK
  <2>2. line' \in [frame : Frames \cup {NoFrame}, sent : Nat, length : Nat]
        /\ line'.frame \notin Frames
    BY <2>1, FramesAssumption DEF TypeOK
  <2>3. faults' \in Nat /\ faults' <= MaxFaults
    BY <1>2, SizesAssumption DEF Collide, TypeOK
  <2> QED
    BY <1>2, <2>2, <2>3 DEF TypeOK, Collide, history
<1>3. CASE Arrive
  <2>1. PICK c \in Char : Queue(c)
    <3>1. CASE line.frame # NoFrame
      <4>1. line.frame \in Frames /\ line.sent + 1 \in 1 .. Chars[line.frame]
        BY <3>1, CharsOfAFrame DEF TypeOK
      <4> QED
        BY <1>3, <3>1, <4>1, CharOfIsChar DEF Arrive
    <3>2. CASE line.frame = NoFrame
      BY <1>3, <3>2, NoiseIsChar DEF Arrive
    <3> QED
      BY <3>1, <3>2
  <2>2. quiet' \in Nat /\ quiet' <= MaxQuiet
    BY <2>1, Queued, TimesAssumption DEF MaxQuiet
  <2> QED
    BY <1>3, <2>1, <2>2, Queued, Passing DEF TypeOK, Arrive
<1>4. CASE Lose
  <2>1. faults' \in Nat /\ faults' <= MaxFaults
    BY <1>4, SizesAssumption DEF Lose, TypeOK
  <2> QED
    BY <1>4, <2>1, Passing DEF TypeOK, Lose, history
<1>5. CASE Disturb
  <2>1. PICK c \in Char : Queue(c)
    BY <1>5, NoiseIsChar DEF Disturb
  <2>2. quiet' \in Nat /\ quiet' <= MaxQuiet
    BY <2>1, Queued, TimesAssumption DEF MaxQuiet
  <2>3. faults' \in Nat /\ faults' <= MaxFaults
    BY <1>5, SizesAssumption DEF Disturb, TypeOK
  <2> QED
    BY <1>5, <2>1, <2>2, <2>3, Queued DEF TypeOK, Disturb
<1>6. CASE Tick
  <2>1. /\ age' \in Nat /\ age' <= MaxAge
        /\ quiet' \in Nat /\ quiet' <= MaxQuiet
        /\ lap' \in Nat /\ lap' <= LoopTime
    <3>1. age' = Capped(age + 1, MaxAge) /\ quiet' = Capped(quiet + 1, MaxQuiet)
          /\ lap' = lap + 1 /\ lap < LoopTime
      BY <1>6 DEF Tick
    <3> QED
      BY <3>1, ClockTypes DEF Capped
  <2> QED
    BY <1>6, <2>1 DEF TypeOK, Tick
<1>7. CASE LoopBegin
  <2>1. /\ age' \in Nat /\ age' <= MaxAge
        /\ lap' \in Nat /\ lap' <= LoopTime
    BY <1>7, ClockTypes DEF LoopBegin, AgeAfterCheck, TypeOK
  <2>2. /\ rx_buffer' \in Seq(Char)
        /\ rx_buffer' # << >> => rx_buffer'[1].kind = "sof"
        /\ \A i \in 1 .. Len(rx_buffer') : rx_buffer'[i].kind # "eof"
    BY <1>7 DEF LoopBegin, TypeOK
  <2> QED
    BY <1>7, <2>1, <2>2 DEF TypeOK, LoopBegin, history
<1>8. CASE ReadChar
  <2> DEFINE c == Head(uart).char
  <2>1. /\ uart # << >> /\ looping
        /\ Keep(c) \/ Reject(c) \/ EndFrame(c) \/ EndFragment(c)
        /\ Follow(c, Head(uart).pause)
        /\ UNCHANGED << line, quiet, faults >>
    BY <1>8 DEF ReadChar
  <2>2. c \in Char
    BY <2>1, HeadIsChar
  <2> HIDE DEF c
  <2>3. seen' \in [frame : Frames \cup {NoFrame}, at : Nat]
    BY <2>1, <2>2, CharKnown, CharsOfAFrame DEF Follow, Boundary, Disturbed
  <2>4. uart' \in Seq(Pending) /\ Len(uart') <= UartSize
    <3>1. CASE uart' = Tail(uart)
      BY <2>1, <3>1, Unqueued, SizesAssumption DEF TypeOK
    <3>2. CASE uart' = << >>
      BY <3>2, SizesAssumption DEF TypeOK
    <3> QED
      BY <2>1, <3>1, <3>2 DEF Keep, Reject, EndFrame, EndFragment
  <2>5. /\ age' \in Nat /\ age' <= MaxAge
        /\ lap' \in Nat /\ lap' <= LoopTime
    <3>1. (age' = age \/ age' = lap \/ age' = 0) /\ (lap' = lap \/ lap' = 0)
      BY <2>1 DEF Keep, Reject, EndFrame, EndFragment, Stamped
    <3>2. age <= MaxAge /\ lap <= LoopTime /\ LoopTime <= MaxAge
      BY TimesAssumption DEF TypeOK, MaxAge
    <3> QED
      BY <3>1, <3>2, ClockTypes
  <2>6. looping' \in BOOLEAN
    BY <2>1 DEF Keep, Reject, EndFrame, EndFragment, TypeOK
  <2>7. dispatched' \in Frames \cup {NoFrame}
    BY <2>1 DEF Keep, Reject, EndFrame, EndFragment
  <2>8. /\ rx_buffer' \in Seq(Char)
        /\ rx_buffer' # << >> => rx_buffer'[1].kind = "sof"
        /\ \A i \in 1 .. Len(rx_buffer') : rx_buffer'[i].kind # "eof"
    <3>1. CASE Keep(c)
      <4>1. rx_buffer' = Append(rx_buffer, c) /\ c.kind # "eof"
            /\ (rx_buffer = << >> => c.kind = "sof")
        BY <3>1 DEF Keep, Accepted
      <4> QED
        BY <4>1, <2>2 DEF TypeOK
    <3>2. CASE ~Keep(c)
      <4>1. rx_buffer' = << >>
        BY <2>1, <3>2 DEF Reject, EndFrame, EndFragment, Rest
      <4> QED
        BY <4>1
    <3> QED
      BY <3>1, <3>2
  <2> QED
    BY <2>1, <2>3, <2>4, <2>5, <2>6, <2>7, <2>8 DEF TypeOK
<1>9. CASE LoopEnd
  BY <1>9 DEF TypeOK, LoopEnd, history
<1>10. CASE UNCHANGED vars
  BY <1>10 DEF TypeOK, vars
<1> QED
  BY <1>1, <1>2, <1>3, <1>4, <1>5, <1>6, <1>7, <1>8, <1>9, <1>10 DEF Next, Wire, Loop

\* The buffer holds the beginning of one frame and the UART at most what fits.
THEOREM TypeCorrect == Spec => []TypeOK
<1>1. Init => TypeOK
  BY InitType
<1>2. TypeOK /\ [Next]_vars => TypeOK'
  BY NextType
<1> QED
  BY <1>1, <1>2, PTL DEF Spec

-----------------------------------------------------------------------------
(***************************************************************************)
(* How far the clocks can be apart.                                        *)
(***************************************************************************)
LEMMA InitClocks == Init => Clocks
BY DEF Init, Clocks

\* A character is queued: by Arrive or by Disturb.
LEMMA QueueClocks ==
  ASSUME TypeOK, Clocks, NEW c \in Char, Queue(c),
         UNCHANGED << rx_buffer, age, lap, looping >>
  PROVE  Clocks'
<1> USE ClockTypes
<1>1. /\ quiet' = 0 /\ uart' # << >> /\ Len(uart') = Len(uart) + 1
      /\ uart = << >> => Head(uart').pause = Pause
      /\ uart # << >> => Head(uart') = Head(uart)
      /\ \A i \in 1 .. Len(uart) : uart'[i] = uart[i]
      /\ uart'[Len(uart) + 1].pause = Pause
  BY Queued
<1>2. Pause = "short" => quiet + 2 * LoopTime <= rx_timeout
  BY DEF Pause
<1>3. Pause = "long" => quiet > rx_timeout + 2 * LoopTime
  BY DEF Pause
<1>4. lap <= LoopTime /\ quiet \in Nat /\ Len(uart) \in Nat
  BY DEF TypeOK
<1>5. quiet' <= lap' + (IF looping' THEN LoopTime' ELSE 0)
  BY <1>1, <1>4
<1>6. rx_buffer' # << >> => age' <= rx_timeout' + lap'
  BY DEF Clocks
<1>7. rx_buffer # << >> /\ ~looping =>
        /\ Head(uart').pause = "short" => age + LoopTime <= rx_timeout + lap
        /\ Head(uart').pause = "long" => age > rx_timeout
  BY SMTT(20), <1>1, <1>2, <1>3, <1>4 DEF Clocks
<1>8. looping /\ rx_buffer # << >> => Head(uart').pause # "long"
  BY SMTT(20), <1>1, <1>3, <1>4 DEF Clocks
<1>9. ASSUME NEW i \in 2 .. Len(uart') PROVE uart'[i].pause # "long"
  <2>1. CASE i <= Len(uart)
    BY <1>1, <1>4, <2>1 DEF Clocks
  <2>2. CASE i = Len(uart) + 1
    <3>1. uart # << >>
      BY <2>2, <1>4
    <3>2. quiet <= lap + (IF looping THEN LoopTime ELSE 0)
      BY <3>1 DEF Clocks
    <3> QED
      BY <1>1, <1>3, <1>4, <2>2, <3>2
  <2> QED
    BY <1>1, <1>4, <2>1, <2>2
<1> QED
  BY <1>1, <1>5, <1>6, <1>7, <1>8, <1>9 DEF Clocks

LEMMA NextClocks == TypeOK /\ Clocks /\ [Next]_vars => Clocks'
<1> SUFFICES ASSUME TypeOK, Clocks, [Next]_vars PROVE Clocks'
  OBVIOUS
<1> USE ClockTypes
<1>1. ASSUME NEW f \in Frames, Send(f) PROVE Clocks'
  BY <1>1 DEF Clocks, Send, history
<1>2. CASE Collide
  BY <1>2 DEF Clocks, Collide, history
<1>3. CASE Arrive
  <2>1. PICK c \in Char : Queue(c)
    <3>1. CASE line.frame # NoFrame
      <4>1. line.frame \in Frames /\ line.sent + 1 \in 1 .. Chars[line.frame]
        BY SMTT(20), <3>1, CharsOfAFrame DEF TypeOK
      <4> QED
        BY <1>3, <3>1, <4>1, CharOfIsChar DEF Arrive
    <3>2. CASE line.frame = NoFrame
      BY <1>3, <3>2, NoiseIsChar DEF Arrive
    <3> QED
      BY <3>1, <3>2
  <2>2. UNCHANGED << rx_buffer, age, lap, looping >>
    BY <1>3 DEF Arrive
  <2> QED
    BY <2>1, <2>2, QueueClocks
<1>4. CASE Lose
  BY <1>4 DEF Clocks, Lose, history
<1>5. CASE Disturb
  <2>1. PICK c \in Char : Queue(c)
    BY <1>5, NoiseIsChar DEF Disturb
  <2>2. UNCHANGED << rx_buffer, age, lap, looping >>
    BY <1>5 DEF Disturb
  <2> QED
    BY <2>1, <2>2, QueueClocks
<1>6. CASE Tick
  <2>1. /\ age' = Capped(age + 1, MaxAge) /\ quiet' = Capped(quiet + 1, MaxQuiet)
        /\ lap' = lap + 1 /\ lap < LoopTime
        /\ UNCHANGED << uart, rx_buffer, looping >>
    BY <1>6 DEF Tick
  <2>2. /\ age' = IF age + 1 > rx_timeout + LoopTime + 1
                  THEN rx_timeout + LoopTime + 1 ELSE age + 1
        /\ quiet' = IF quiet + 1 > rx_timeout + 2 * LoopTime + 1
                    THEN rx_timeout + 2 * LoopTime + 1 ELSE quiet + 1
        /\ age <= rx_timeout + LoopTime + 1
        /\ quiet <= rx_timeout + 2 * LoopTime + 1
    BY <2>1 DEF Capped, MaxAge, MaxQuiet, TypeOK
  <2>3. /\ age \in Nat /\ quiet \in Nat /\ lap \in Nat
        /\ LoopTime \in Nat /\ rx_timeout \in Nat
    OBVIOUS
  <2>4. uart # << >> => quiet' <= lap' + (IF looping THEN LoopTime ELSE 0)
    <3>1. uart # << >> => quiet <= lap + (IF looping THEN LoopTime ELSE 0)
      BY DEF Clocks
    <3> QED
      BY <2>1, <2>2, <2>3, <3>1
  <2>5. rx_buffer # << >> => age' <= rx_timeout + lap'
    <3>1. rx_buffer # << >> => age <= rx_timeout + lap
      BY DEF Clocks
    <3> QED
      BY <2>1, <2>2, <2>3, <3>1
  <2>6. rx_buffer # << >> /\ uart = << >> =>
          /\ age' <= quiet' + LoopTime
          /\ age' > rx_timeout + LoopTime \/ quiet' <= age' + LoopTime
    <3>1. rx_buffer # << >> /\ uart = << >> =>
            /\ age <= quiet + LoopTime
            /\ age > rx_timeout + LoopTime \/ quiet <= age + LoopTime
      BY DEF Clocks
    <3> QED
      BY <2>2, <2>3, <3>1
  <2>7. rx_buffer # << >> /\ uart # << >> /\ ~looping =>
          /\ Head(uart).pause = "short" => age' + LoopTime <= rx_timeout + lap'
          /\ Head(uart).pause = "long" => age' > rx_timeout
    <3>1. rx_buffer # << >> /\ uart # << >> /\ ~looping =>
            /\ Head(uart).pause = "short" => age + LoopTime <= rx_timeout + lap
            /\ Head(uart).pause = "long" => age > rx_timeout
      BY DEF Clocks
    <3> QED
      BY <2>1, <2>2, <2>3, <3>1
  <2> QED
    BY <2>1, <2>4, <2>5, <2>6, <2>7 DEF Clocks
<1>7. CASE LoopBegin
  <2>1. /\ ~looping /\ looping' = TRUE /\ lap' = 0 /\ UNCHANGED << uart, quiet >>
        /\ IF age > rx_timeout THEN rx_buffer' = << >> ELSE UNCHANGED << rx_buffer, age >>
    BY <1>7 DEF LoopBegin, TimedOut, AgeAfterCheck, history
  <2>2. lap <= LoopTime
    BY DEF TypeOK
  <2>3. uart' # << >> => quiet' <= lap' + LoopTime
    BY <2>1, <2>2 DEF Clocks
  <2>4. CASE age > rx_timeout
    BY <2>1, <2>3, <2>4 DEF Clocks
  <2>5. CASE ~(age > rx_timeout)
    BY <2>1, <2>3, <2>5 DEF Clocks
  <2> QED
    BY <2>4, <2>5
<1>8. CASE ReadChar
  <2> DEFINE c == Head(uart).char
  <2>1. /\ uart # << >> /\ looping
        /\ Keep(c) \/ Reject(c) \/ EndFrame(c) \/ EndFragment(c)
        /\ quiet' = quiet
    BY <1>8 DEF ReadChar
  <2> HIDE DEF c
  <2>2. CASE uart' = Tail(uart) /\ UNCHANGED << lap, looping >>
             /\ (rx_buffer' = << >> \/ age' = lap)
    <3>1. /\ Len(uart') = Len(uart) - 1
          /\ \A i \in 1 .. Len(uart') : uart'[i] = uart[i + 1]
          /\ uart' # << >> => Head(uart') = uart[2] /\ 2 \in 1 .. Len(uart)
          /\ Len(uart) \in Nat
      BY SMTT(20), <2>1, <2>2, Unqueued DEF TypeOK
    <3>2. lap <= LoopTime /\ quiet <= lap + LoopTime
      BY <2>1 DEF Clocks, TypeOK
    <3>3. \A i \in 2 .. Len(uart) : uart[i].pause # "long"
      BY DEF Clocks
    <3>4. uart' # << >> => Head(uart').pause # "long"
      BY <3>1, <3>3
    <3>5. \A i \in 2 .. Len(uart') : uart'[i].pause # "long"
      BY SMTT(20), <3>1, <3>3
    <3> QED
      BY SMTT(20), <2>1, <2>2, <3>2, <3>4, <3>5 DEF Clocks
  <2>3. CASE uart' = << >> /\ rx_buffer' = << >>
    BY <2>3 DEF Clocks
  <2> QED
    BY <2>1, <2>2, <2>3 DEF Keep, Reject, EndFrame, EndFragment, Rest, Stamped
<1>9. CASE LoopEnd
  BY <1>9 DEF Clocks, LoopEnd, history
<1>10. CASE UNCHANGED vars
  BY <1>10 DEF Clocks, vars
<1> QED
  BY <1>1, <1>2, <1>3, <1>4, <1>5, <1>6, <1>7, <1>8, <1>9, <1>10 DEF Next, Wire, Loop

-----------------------------------------------------------------------------
(***************************************************************************)
(* What was seen of a frame is in the buffer.                              *)
(***************************************************************************)
LEMMA PrefixOfAFrame ==
  ASSUME NEW f \in Frames, NEW n \in Nat, n < Chars[f]
  PROVE  /\ n > 0 => Prefix(f, n) # << >>
         /\ Len(Prefix(f, n)) = n
         /\ Append(Prefix(f, n), CharOf(f, n + 1)) = Prefix(f, n + 1)
<1>1. Prefix(f, n) \in Seq([kind : Kinds, frame : {f}, at : Nat]) /\ Len(Prefix(f, n)) = n
  <2>1. \A i \in 1 .. n : CharOf(f, i) \in [kind : Kinds, frame : {f}, at : Nat]
    BY DEF CharOf, Kinds
  <2> QED
    BY <2>1 DEF Prefix
<1>2. n > 0 => Prefix(f, n) # << >>
  BY <1>1
<1>3. \A i \in 1 .. n : Prefix(f, n)[i] = CharOf(f, i)
  BY DEF Prefix
<1>4. CharOf(f, n + 1) \in [kind : Kinds, frame : {f}, at : Nat]
  BY DEF CharOf, Kinds
<1>5. Prefix(f, n + 1) = [i \in 1 .. n + 1 |-> CharOf(f, i)]
  BY DEF Prefix
<1>6. Append(Prefix(f, n), CharOf(f, n + 1)) = [i \in 1 .. n + 1 |-> CharOf(f, i)]
  BY <1>1, <1>3, <1>4
<1> QED
  BY <1>1, <1>2, <1>5, <1>6

LEMMA InitSeen == Init => SeenIsBuffered
BY FramesAssumption DEF Init, SeenIsBuffered, Boundary

\* A step that reads nothing and leaves the buffer alone.
LEMMA SeenUnread ==
  ASSUME SeenIsBuffered, UNCHANGED << rx_buffer, seen >>, TimedOutSince => TimedOutSince'
  PROVE  SeenIsBuffered'
BY DEF SeenIsBuffered

LEMMA QueueSeen ==
  ASSUME TypeOK, SeenIsBuffered, NEW c \in Char, Queue(c), UNCHANGED << rx_buffer, seen >>
  PROVE  SeenIsBuffered'
<1>1. /\ uart' # << >>
      /\ uart = << >> => Head(uart').pause = Pause
      /\ uart # << >> => Head(uart') = Head(uart)
  BY Queued
<1>2. quiet + 2 * LoopTime > rx_timeout => Pause # "short"
  BY ClockTypes DEF Pause
<1>3. TimedOutSince => TimedOutSince'
  BY <1>1, <1>2 DEF TimedOutSince
<1> QED
  BY <1>3, SeenUnread

\* The time-out of loop() empties the buffer only in a pause that is not short.
LEMMA LoopBeginSeen ==
  ASSUME TypeOK, Clocks, SeenIsBuffered, LoopBegin
  PROVE  SeenIsBuffered'
<1> USE ClockTypes
<1>1. UNCHANGED << uart, quiet, seen >> /\ ~looping
  BY DEF LoopBegin, history
<1>2. CASE rx_buffer' = rx_buffer
  <2>1. TimedOutSince => TimedOutSince'
    BY <1>1, <1>2 DEF TimedOutSince
  <2> QED
    BY <1>1, <1>2, <2>1, SeenUnread
<1>3. CASE rx_buffer' # rx_buffer
  <2>1. rx_buffer' = << >> /\ rx_buffer # << >> /\ age > rx_timeout
    BY <1>3 DEF LoopBegin, TimedOut
  <2>2. CASE uart = << >>
    <3>1. age <= quiet + LoopTime
      BY <2>1, <2>2 DEF Clocks
    <3>2. quiet + 2 * LoopTime > rx_timeout
      BY <2>1, <3>1
    <3> QED
      BY <1>1, <2>1, <2>2, <3>2 DEF SeenIsBuffered, TimedOutSince
  <2>3. CASE uart # << >>
    <3>1. Head(uart).pause = "short" => age + LoopTime <= rx_timeout + lap
      BY <1>1, <2>1, <2>3 DEF Clocks
    <3>2. lap <= LoopTime
      BY DEF TypeOK
    <3>3. Head(uart).pause # "short"
      BY <2>1, <3>1, <3>2
    <3> QED
      BY <1>1, <2>1, <2>3, <3>3 DEF SeenIsBuffered, TimedOutSince
  <2> QED
    BY <2>2, <2>3
<1> QED
  BY <1>2, <1>3

LEMMA ReadSeen ==
  ASSUME TypeOK, Clocks, SeenIsBuffered, ReadChar
  PROVE  SeenIsBuffered'
<1> DEFINE c == Head(uart).char
           pause == Head(uart).pause
<1>1. /\ uart # << >> /\ looping
      /\ Keep(c) \/ Reject(c) \/ EndFrame(c) \/ EndFragment(c)
      /\ Follow(c, pause)
  BY DEF ReadChar
<1>2. c \in Char
  BY <1>1, HeadIsChar
<1>3. pause = "long" => rx_buffer = << >>
  BY <1>1 DEF Clocks
<1>4. pause = "short" => ~TimedOutSince
  BY <1>1 DEF TimedOutSince
<1> HIDE DEF c, pause
<1>5. CASE c.kind = "eof"
  <2>1. seen' = Boundary
    BY <1>1, <1>5 DEF Follow
  <2>2. rx_buffer' = << >>
    BY <1>1, <1>5 DEF Keep, Reject, EndFrame, EndFragment, Accepted, Rest
  <2> QED
    BY <2>1, <2>2, FramesAssumption DEF SeenIsBuffered, Boundary
<1>6. CASE c.kind # "eof" /\ (pause = "long" \/ seen = Boundary)
  <2>1. rx_buffer = << >>
    BY <1>3, <1>6 DEF SeenIsBuffered
  <2>2. CASE c.at = 1
    <3>1. c.frame \in Frames /\ c = CharOf(c.frame, 1)
      BY <1>2, <2>2, CharKnown
    <3>2. c.kind = "sof"
      BY <3>1 DEF CharOf
    <3>3. rx_buffer' = Append(<< >>, c)
      BY <1>1, <2>1, <3>2 DEF Keep, Reject, EndFrame, EndFragment, Accepted
    <3>4. seen' = [frame |-> c.frame, at |-> 1]
      BY <1>1, <1>6, <2>2 DEF Follow
    <3>5. Append(<< >>, c) = Prefix(c.frame, 1)
      <4>1. Append(<< >>, c) = [i \in 1 .. 1 |-> c]
        OBVIOUS
      <4>2. Prefix(c.frame, 1) = [i \in 1 .. 1 |-> CharOf(c.frame, i)]
        BY DEF Prefix
      <4> QED
        BY <4>1, <4>2, <3>1
    <3>6. 1 \in 1 .. Chars[c.frame] - 1
      BY <3>1, CharsOfAFrame, SizesAssumption
    <3>7. seen' # Boundary
      BY <3>4 DEF Boundary
    <3> QED
      BY <3>1, <3>3, <3>4, <3>5, <3>6, <3>7 DEF SeenIsBuffered
  <2>3. CASE c.at # 1
    <3>1. seen' = Disturbed
      BY <1>1, <1>6, <2>3 DEF Follow
    <3> QED
      BY <3>1, FramesAssumption DEF SeenIsBuffered, Boundary, Disturbed
  <2> QED
    BY <2>2, <2>3
<1>7. CASE c.kind # "eof" /\ pause # "long" /\ seen # Boundary
  <2>1. CASE pause = "short" /\ c.frame = seen.frame /\ c.at = seen.at + 1
    <3> DEFINE f == c.frame
    <3>1. seen' = [frame |-> f, at |-> c.at]
      BY <1>1, <1>7, <2>1 DEF Follow
    <3>2. CASE f \in Frames
      <4>1. /\ seen.at \in 1 .. Chars[f] - 1 /\ Chars[f] \in Nat
            /\ rx_buffer = Prefix(f, seen.at)
        BY <1>4, <2>1, <3>2, CharsOfAFrame DEF SeenIsBuffered
      <4>2. c = CharOf(f, seen.at + 1) /\ c.at \in 1 .. Chars[f]
        BY <1>2, <2>1, <3>2, CharKnown
      <4>3. c.at # Chars[f]
        BY <4>1, <4>2, <1>7 DEF CharOf
      <4>4. rx_buffer # << >>
        BY <4>1, <3>2, PrefixOfAFrame
      <4>5. rx_buffer' = Append(rx_buffer, c)
        BY <1>1, <1>7, <4>4 DEF Keep, Reject, EndFrame, EndFragment, Accepted
      <4>6. Append(rx_buffer, c) = Prefix(f, c.at)
        BY <4>1, <4>2, <2>1, <3>2, PrefixOfAFrame
      <4>7. c.at \in 1 .. Chars[f] - 1 /\ seen' # Boundary
        BY <4>1, <4>2, <4>3, <3>1 DEF Boundary
      <4> QED
        BY <3>1, <3>2, <4>5, <4>6, <4>7 DEF SeenIsBuffered
    <3>3. CASE f \notin Frames
      <4>1. c.at = 0 /\ seen.at \in Nat
        BY <1>2, <3>3, CharKnown DEF TypeOK
      <4> QED
        BY <4>1, <2>1
    <3> QED
      BY <3>2, <3>3
  <2>2. CASE ~(pause = "short" /\ c.frame = seen.frame /\ c.at = seen.at + 1)
    <3>1. seen' = Disturbed
      BY <1>1, <1>7, <2>2 DEF Follow
    <3> QED
      BY <3>1, FramesAssumption DEF SeenIsBuffered, Boundary, Disturbed
  <2> QED
    BY <2>1, <2>2
<1> QED
  BY <1>5, <1>6, <1>7

LEMMA NextSeen == TypeOK /\ Clocks /\ SeenIsBuffered /\ [Next]_vars => SeenIsBuffered'
<1> SUFFICES ASSUME TypeOK, Clocks, SeenIsBuffered, [Next]_vars PROVE SeenIsBuffered'
  OBVIOUS
<1> USE ClockTypes
<1>1. ASSUME NEW f \in Frames, Send(f) PROVE SeenIsBuffered'
  BY <1>1, SeenUnread DEF Send, history, TimedOutSince
<1>2. CASE Collide
  BY <1>2, SeenUnread DEF Collide, history, TimedOutSince
<1>3. CASE Arrive
  <2>1. PICK c \in Char : Queue(c)
    <3>1. CASE line.frame # NoFrame
      <4>1. line.frame \in Frames /\ line.sent + 1 \in 1 .. Chars[line.frame]
        BY SMTT(20), <3>1, CharsOfAFrame DEF TypeOK
      <4> QED
        BY <1>3, <3>1, <4>1, CharOfIsChar DEF Arrive
    <3>2. CASE line.frame = NoFrame
      BY <1>3, <3>2, NoiseIsChar DEF Arrive
    <3> QED
      BY <3>1, <3>2
  <2>2. UNCHANGED << rx_buffer, seen >>
    BY <1>3 DEF Arrive
  <2> QED
    BY <2>1, <2>2, QueueSeen
<1>4. CASE Lose
  BY <1>4, SeenUnread DEF Lose, history, TimedOutSince
<1>5. CASE Disturb
  <2>1. PICK c \in Char : Queue(c)
    BY <1>5, NoiseIsChar DEF Disturb
  <2>2. UNCHANGED << rx_buffer, seen >>
    BY <1>5 DEF Disturb
  <2> QED
    BY <2>1, <2>2, QueueSeen
<1>6. CASE Tick
  <2>1. quiet' = Capped(quiet + 1, MaxQuiet) /\ UNCHANGED << uart, rx_buffer, seen >>
    BY <1>6 DEF Tick
  <2>2. quiet' >= quiet /\ quiet' \in Nat
    BY <2>1 DEF Capped, TypeOK
  <2>3. quiet + 2 * LoopTime > rx_timeout => quiet' + 2 * LoopTime > rx_timeout
    BY <2>2
  <2>4. TimedOutSince => TimedOutSince'
    BY <2>1, <2>3 DEF TimedOutSince
  <2> QED
    BY <2>1, <2>4, SeenUnread
<1>7. CASE LoopBegin
  BY <1>7, LoopBeginSeen
<1>8. CASE ReadChar
  BY <1>8, ReadSeen
<1>9. CASE LoopEnd
  BY <1>9, SeenUnread DEF LoopEnd, history, TimedOutSince
<1>10. CASE UNCHANGED vars
  BY <1>10, SeenUnread DEF vars, TimedOutSince
<1> QED
  BY <1>1, <1>2, <1>3, <1>4, <1>5, <1>6, <1>7, <1>8, <1>9, <1>10 DEF Next, Wire, Loop

\* The clocks keep close together and the buffer follows what was seen.
THEOREM LineCorrect == Spec => [](TypeOK /\ LineInv)
<1>1. Init => TypeOK /\ LineInv
  BY InitType, InitClocks, InitSeen DEF LineInv
<1>2. TypeOK /\ LineInv /\ [Next]_vars => TypeOK' /\ LineInv'
  BY NextType, NextClocks, NextSeen DEF LineInv
<1> QED
  BY <1>1, <1>2, PTL DEF Spec

-----------------------------------------------------------------------------
\* After a silence of the time-out and two rounds of the loop the buffer is empty.
THEOREM BrokenFramesForgotten == Spec => []SilenceClears
<1>1. TypeOK /\ LineInv => SilenceClears
  <2> SUFFICES ASSUME TypeOK, LineInv, quiet > rx_timeout + 2 * LoopTime, uart = << >>,
                      rx_buffer # << >>
               PROVE  FALSE
    BY DEF SilenceClears
  <2>1. /\ age <= rx_timeout + lap
        /\ age > rx_timeout + LoopTime \/ quiet <= age + LoopTime
    BY DEF LineInv, Clocks
  <2>2. lap <= LoopTime
    BY DEF TypeOK
  <2> QED
    BY <2>1, <2>2, ClockTypes
<1> QED
  BY <1>1, LineCorrect, PTL

\* Every frame that comes undisturbed is handed to the devices.
THEOREM UndisturbedDelivered == Spec => FrameDelivered
<1>1. ASSUME TypeOK, LineInv, ReadChar, NEW f \in Frames, Undisturbed(f)
      PROVE  dispatched' = f
  <2> DEFINE c == CharOf(f, Chars[f])
             n == Chars[f] - 1
  <2>1. /\ uart # << >>
        /\ Keep(c) \/ Reject(c) \/ EndFrame(c) \/ EndFragment(c)
    BY <1>1 DEF ReadChar, Undisturbed
  <2>2. n \in Nat /\ n + 1 = Chars[f] /\ n < Chars[f] /\ n > ChecksumChars /\ n > 0
        /\ n <= MAX_RESPONSE_SIZE
    BY <1>1, CharsOfAFrame, SizesAssumption DEF Undisturbed
  <2>3. c.kind = "eof"
    BY <2>2, SizesAssumption, CharsOfAFrame DEF CharOf
  <2>4. seen = [frame |-> f, at |-> n] /\ Head(uart).pause = "short"
    BY <1>1 DEF Undisturbed
  <2>5. rx_buffer = Prefix(f, n)
    <3>1. ~TimedOutSince
      BY <2>1, <2>4 DEF TimedOutSince
    <3> QED
      BY <1>1, <2>4, <3>1 DEF LineInv, SeenIsBuffered
  <2>6. /\ rx_buffer # << >> /\ Len(rx_buffer) = n
        /\ Append(rx_buffer, c) = Whole(f)
    BY <2>2, <2>5, PrefixOfAFrame DEF Whole, Prefix
  <2>7. EndFrame(c)
    BY <2>1, <2>2, <2>3, <2>6, SizesAssumption DEF Keep, Reject, EndFragment, Accepted
  <2>8. \A g \in Frames : Whole(g) = Whole(f) => g = f
    <3> SUFFICES ASSUME NEW g \in Frames, Whole(g) = Whole(f) PROVE g = f
      OBVIOUS
    <3>1. Whole(g)[1] = CharOf(g, 1) /\ Whole(f)[1] = CharOf(f, 1)
      BY CharsOfAFrame, SizesAssumption DEF Whole
    <3> QED
      BY <3>1 DEF CharOf
  <2>9. dispatched' = CHOOSE g \in Frames : Append(rx_buffer, c) = Whole(g)
    BY <2>2, <2>6, <2>7 DEF EndFrame
  <2> QED
    BY <2>6, <2>8, <2>9
<1>2. TypeOK /\ LineInv /\ [Next]_vars =>
        [ReadChar => \A f \in Frames : Undisturbed(f) => dispatched' = f]_vars
  BY <1>1
<1> QED
  BY <1>2, LineCorrect, PTL DEF Spec, FrameDelivered

-----------------------------------------------------------------------------
(***************************************************************************)
(* A frame that is sent into an empty receiver and arrives without a gap.  *)
(***************************************************************************)

\* What was received and is waiting will leave nothing in the buffer.
Settling ==
  \/ uart = << >> /\ rx_buffer = << >>
  \/ uart # << >> /\ uart[Len(uart)].char.kind = "eof"

\* Frame f is on its way: what was sent of it is in the buffer and behind it in the UART,
\* character by character, and nothing else is.
OnItsWay(f) ==
  /\ (line = Idle /\ uart # << >>) \/ line.frame = f
  /\ Len(rx_buffer) + Len(uart) = IF line = Idle THEN Chars[f] ELSE line.sent
  /\ rx_buffer = Prefix(f, Len(rx_buffer))
  /\ \A i \in 1 .. Len(uart) :
       /\ uart[i].char = CharOf(f, Len(rx_buffer) + i)
       /\ Len(rx_buffer) + i > 1 => uart[i].pause = "short"
  /\ line # Idle /\ line.sent > 0 => quiet + 2 * LoopTime <= rx_timeout

\* After an end of frame the buffer is empty.
LEMMA EndClears ==
  ASSUME NEW c, c.kind = "eof", Keep(c) \/ Reject(c) \/ EndFrame(c) \/ EndFragment(c)
  PROVE  rx_buffer' = << >>
BY DEF Keep, Reject, EndFrame, EndFragment, Accepted, Rest

LEMMA ReadSettles ==
  ASSUME TypeOK, Settling, ReadChar
  PROVE  Settling'
<1>1. uart # << >> /\ uart[Len(uart)].char.kind = "eof"
  BY DEF ReadChar, Settling
<1>2. PICK c : c = Head(uart).char /\ (Keep(c) \/ Reject(c) \/ EndFrame(c) \/ EndFragment(c))
  BY DEF ReadChar
<1>3. (uart' = << >> /\ rx_buffer' = << >>) \/ uart' = Tail(uart)
  BY <1>2 DEF Keep, Reject, EndFrame, EndFragment
<1>4. CASE uart' = Tail(uart) /\ uart' = << >>
  <2>1. Len(uart) = 1 /\ Head(uart) = uart[1]
    <3>1. Len(uart') = Len(uart) - 1 /\ Len(uart') = 0
      BY <1>1, <1>4, Unqueued
    <3>2. PICK n \in Nat : n = Len(uart)
      BY DEF TypeOK
    <3>3. n = 1
      BY <3>1, <3>2
    <3> QED
      BY <1>1, <3>2, <3>3
  <2>2. c.kind = "eof"
    BY <1>1, <1>2, <2>1
  <2> QED
    BY <1>2, <1>4, <2>2, EndClears DEF Settling
<1>5. CASE uart' = Tail(uart) /\ uart' # << >>
  <2>1. PICK n \in Nat : n = Len(uart)
    BY DEF TypeOK
  <2>2. Len(uart') = n - 1 /\ \A i \in 1 .. n - 1 : uart'[i] = uart[i + 1]
    BY <1>1, <1>5, <2>1, Unqueued
  <2>3. n - 1 \in 1 .. n - 1
    <3>1. uart' \in Seq(Pending)
      BY <1>1, <1>5, Unqueued
    <3>2. Len(uart') > 0
      BY <1>5, <3>1
    <3> QED
      BY <2>1, <2>2, <3>2
  <2>4. uart'[n - 1] = uart[n]
    BY <2>1, <2>2, <2>3
  <2> QED
    BY <1>1, <1>5, <2>1, <2>2, <2>4 DEF Settling
<1> QED
  BY <1>3, <1>4, <1>5 DEF Settling

\* Nothing else that happens to the receiver unsettles it.
LEMMA LoopSettles ==
  ASSUME Settling, LoopBegin \/ LoopEnd \/ Tick
  PROVE  Settling'
BY DEF Settling, LoopBegin, LoopEnd, Tick

\* The last character of a frame settles the receiver.
LEMMA LastSettles ==
  ASSUME TypeOK, Arrive, line.frame \in Frames, line' = Idle
  PROVE  Settling'
<1>1. line.sent + 1 = Chars[line.frame]
  <2>1. line.length = Chars[line.frame]
    BY DEF TypeOK
  <2>2. Passed = Idle
    BY DEF Arrive
  <2>3. line.sent + 1 # line.length => Passed.frame = line.frame
    BY DEF Passed, TypeOK
  <2> QED
    BY <2>1, <2>2, <2>3, FramesAssumption DEF Idle
<1>2. PICK c : c = CharOf(line.frame, line.sent + 1) /\ Queue(c)
  BY FramesAssumption DEF Arrive
<1>3. c.kind = "eof"
  BY <1>1, <1>2, CharsOfAFrame, SizesAssumption DEF CharOf
<1>4. uart \in Seq(Pending) /\ uart' = Append(uart, [char |-> c, pause |-> Pause])
  BY <1>2 DEF TypeOK, Queue
<1>5. c \in Char
  BY <1>1, <1>2, CharOfIsChar, CharsOfAFrame, SizesAssumption
<1>6. uart'[Len(uart')] = [char |-> c, pause |-> Pause] /\ uart' # << >>
  BY <1>4, <1>5, PauseType DEF Pending
<1> QED
  BY <1>3, <1>6 DEF Settling

\* A frame that is sent into an empty receiver is on its way.
LEMMA SentIsOnItsWay ==
  ASSUME NEW f \in Frames, uart = << >>, rx_buffer = << >>, Send(f)
  PROVE  OnItsWay(f)'
<1>1. line' = [frame |-> f, sent |-> 0, length |-> Chars[f]] /\ line' # Idle
  BY CharsOfAFrame DEF Send, Idle
<1>2. uart' = << >> /\ rx_buffer' = << >>
  BY DEF Send
<1>3. Prefix(f, 0) = << >>
  BY DEF Prefix
<1> QED
  BY <1>1, <1>2, <1>3 DEF OnItsWay

LEMMA OnItsWayArrives ==
  ASSUME TypeOK, NEW f \in Frames, OnItsWay(f), Arrive, 2 * LoopTime <= rx_timeout
  PROVE  OnItsWay(f)'
<1>1. /\ line # Idle /\ line.frame = f /\ line' = Passed
      /\ line.length = Chars[f] /\ line.sent < Chars[f] /\ line.sent \in Nat
  BY CharsOfAFrame DEF OnItsWay, Arrive, TypeOK
<1>2. PICK c : c = CharOf(f, line.sent + 1) /\ Queue(c)
  BY <1>1, CharsOfAFrame DEF Arrive
<1>3. c \in Char
  BY <1>1, <1>2, CharOfIsChar, CharsOfAFrame
<1>4. PICK m \in Nat, r \in Nat : m = Len(rx_buffer) /\ r = Len(uart)
  BY DEF TypeOK
<1>5. m + r = line.sent /\ rx_buffer = Prefix(f, m)
  BY <1>1, <1>4 DEF OnItsWay
<1>6. /\ uart' \in Seq(Pending) /\ Len(uart') = r + 1 /\ quiet' = 0 /\ uart' # << >>
      /\ \A i \in 1 .. r : uart'[i] = uart[i]
      /\ uart'[r + 1] = [char |-> c, pause |-> Pause]
  <2>1. uart \in Seq(Pending) /\ uart' = Append(uart, [char |-> c, pause |-> Pause])
    BY <1>2 DEF TypeOK, Queue
  <2>2. uart'[r + 1] = [char |-> c, pause |-> Pause]
    BY <1>3, <1>4, <2>1, PauseType DEF Pending
  <2> QED
    BY <1>2, <1>3, <1>4, <2>2, Queued
<1>7. rx_buffer' = rx_buffer
  BY DEF Arrive
<1>8. ASSUME NEW i \in 1 .. r + 1
      PROVE  /\ uart'[i].char = CharOf(f, m + i)
             /\ m + i > 1 => uart'[i].pause = "short"
  <2>1. CASE i <= r
    BY <1>4, <1>6, <2>1 DEF OnItsWay
  <2>2. CASE i = r + 1
    <3>1. uart'[i].char = CharOf(f, m + i)
      <4>1. m + (r + 1) = line.sent + 1
        BY <1>1, <1>5
      <4> QED
        BY <1>2, <1>6, <2>2, <4>1
    <3>2. ASSUME m + i > 1 PROVE Pause = "short"
      <4>1. line.sent > 0
        BY <1>1, <1>5, <2>2, <3>2
      <4>2. quiet + 2 * LoopTime <= rx_timeout
        BY <1>1, <4>1 DEF OnItsWay
      <4> QED
        BY <4>2 DEF Pause
    <3> QED
      BY <1>6, <2>2, <3>1, <3>2
  <2> QED
    BY <2>1, <2>2
<1>9. CASE line.sent + 1 = Chars[f]
  <2>1. line' = Idle
    BY <1>1, <1>9 DEF Passed
  <2>2. m + (r + 1) = Chars[f]
    BY <1>1, <1>5, <1>9
  <2> QED
    BY <1>4, <1>5, <1>6, <1>7, <1>8, <2>1, <2>2 DEF OnItsWay
<1>10. CASE line.sent + 1 # Chars[f]
  <2>1. line' = [frame |-> f, sent |-> line.sent + 1, length |-> Chars[f]]
    <3>1. line' = [line EXCEPT !.sent = line.sent + 1]
      BY <1>1, <1>10 DEF Passed
    <3> QED
      BY <1>1, <3>1 DEF TypeOK
  <2>2. line'.frame = f /\ line' # Idle /\ line'.sent = line.sent + 1
    BY <2>1, CharsOfAFrame DEF Idle
  <2>3. m + (r + 1) = line'.sent
    BY <1>1, <1>5, <2>2
  <2>4. quiet' + 2 * LoopTime <= rx_timeout
    BY <1>6, TimesAssumption
  <2> QED
    BY <1>4, <1>5, <1>6, <1>7, <1>8, <2>2, <2>3, <2>4 DEF OnItsWay
<1> QED
  BY <1>9, <1>10

\* No loop() times out in a frame that is on its way.
LEMMA OnItsWayLoops ==
  ASSUME TypeOK, Clocks, NEW f \in Frames, OnItsWay(f), LoopBegin \/ LoopEnd
  PROVE  OnItsWay(f)'
<1>1. UNCHANGED << line, uart, quiet >>
  BY DEF LoopBegin, LoopEnd, history
<1>2. rx_buffer' = rx_buffer
  <2>1. ASSUME LoopBegin, rx_buffer # << >> PROVE age <= rx_timeout
    <3>1. PICK m \in Nat, r \in Nat : m = Len(rx_buffer) /\ r = Len(uart) /\ m > 0
      BY <2>1 DEF TypeOK
    <3>2. CASE uart = << >>
      <4>1. line # Idle /\ line.frame = f /\ line.sent > 0
        <5>1. r = 0
          BY <3>1, <3>2
        <5>2. line # Idle /\ line.frame = f
          BY <3>2, CharsOfAFrame DEF OnItsWay, Idle
        <5> QED
          BY <3>1, <5>1, <5>2 DEF OnItsWay
      <4>2. quiet + 2 * LoopTime <= rx_timeout
        BY <4>1 DEF OnItsWay
      <4>3. age <= quiet + LoopTime
        BY <2>1, <3>2 DEF Clocks
      <4> QED
        BY <4>2, <4>3, ClockTypes, TimesAssumption
    <3>3. CASE uart # << >>
      <4>1. r \in Nat \ {0} /\ Head(uart) = uart[1]
        BY <3>1, <3>3 DEF TypeOK
      <4>2. Head(uart).pause = "short"
        BY <3>1, <4>1 DEF OnItsWay
      <4>3. age + LoopTime <= rx_timeout + lap /\ lap <= LoopTime
        BY <2>1, <3>3, <4>2 DEF Clocks, LoopBegin, TypeOK
      <4> QED
        BY <4>3, ClockTypes, TimesAssumption
    <3> QED
      BY <3>2, <3>3
  <2>2. CASE LoopBegin /\ rx_buffer # << >>
    <3>1. ~TimedOut
      BY <2>1, <2>2, ClockTypes DEF TimedOut
    <3> QED
      BY <2>2, <3>1 DEF LoopBegin
  <2> QED
    BY <2>2 DEF LoopBegin, LoopEnd
<1> QED
  BY <1>1, <1>2 DEF OnItsWay

LEMMA OnItsWayTicks ==
  ASSUME TypeOK, NEW f \in Frames, OnItsWay(f), Tick,
         line.sent > 0 => quiet + 1 + 2 * LoopTime <= rx_timeout
  PROVE  OnItsWay(f)'
<1>1. UNCHANGED << line, uart, rx_buffer >>
  BY DEF Tick
<1>2. ASSUME line.sent > 0 PROVE quiet' + 2 * LoopTime <= rx_timeout
  <2>1. quiet' <= quiet + 1 /\ quiet' \in Nat
    BY ClockTypes, TimesAssumption DEF Tick, Capped, MaxQuiet
  <2>2. quiet + 1 + 2 * LoopTime <= rx_timeout
    BY <1>2
  <2>3. quiet \in Nat /\ LoopTime \in Nat /\ rx_timeout \in Nat
    BY ClockTypes
  <2>4. \A b, a, l, t \in Nat : b <= a + 1 /\ a + 1 + 2 * l <= t => b + 2 * l <= t
    OBVIOUS
  <2> QED
    BY Zenon, <2>1, <2>2, <2>3, <2>4
<1> QED
  BY <1>1, <1>2 DEF OnItsWay

\* What is read of a frame on its way stays in the buffer, and with its last character it
\* is handed to the devices.
LEMMA OnItsWayRead ==
  ASSUME TypeOK, NEW f \in Frames, OnItsWay(f), ReadChar, Chars[f] - 1 <= MAX_RESPONSE_SIZE
  PROVE  OnItsWay(f)' \/ (dispatched' = f /\ uart' = << >> /\ rx_buffer' = << >>)
<1>1. PICK c : /\ c = Head(uart).char /\ uart # << >> /\ UNCHANGED << line, quiet >>
               /\ Keep(c) \/ Reject(c) \/ EndFrame(c) \/ EndFragment(c)
  BY DEF ReadChar
<1>2. PICK m \in Nat, r \in Nat, n \in Nat :
        m = Len(rx_buffer) /\ r = Len(uart) /\ n = Chars[f] /\ r > 0
  BY <1>1, CharsOfAFrame DEF TypeOK
<1>3. n >= ChecksumChars + 3 /\ ChecksumChars \in Nat /\ MAX_RESPONSE_SIZE \in Nat
  BY <1>2, CharsOfAFrame, SizesAssumption
<1>4. m + r <= n /\ (m + r = n => line = Idle)
  <2>1. CASE line = Idle
    BY <1>2, <2>1 DEF OnItsWay
  <2>2. CASE line # Idle
    <3>1. line.frame = f /\ m + r = line.sent
      BY <1>2, <2>2 DEF OnItsWay
    <3>2. line.sent < n
      BY <1>2, <3>1, CharsOfAFrame DEF TypeOK
    <3> QED
      BY <3>1, <3>2
  <2> QED
    BY <2>1, <2>2
<1>5. c = CharOf(f, m + 1) /\ rx_buffer = Prefix(f, m)
  <2>1. Head(uart) = uart[1] /\ 1 \in 1 .. r
    BY <1>1, <1>2 DEF TypeOK
  <2> QED
    BY <1>1, <1>2, <2>1 DEF OnItsWay
<1>6. CASE m + 1 < n
  <2>1. Keep(c)
    <3>1. c.kind = IF m = 0 THEN "sof" ELSE "data"
      BY <1>3, <1>5, <1>6, <1>2 DEF CharOf
    <3>2. rx_buffer = << >> <=> m = 0
      BY <1>2 DEF TypeOK
    <3>3. Accepted(c)
      BY <3>1, <3>2 DEF Accepted
    <3> QED
      BY <1>1, <3>3 DEF Reject, EndFrame, EndFragment
  <2>2. rx_buffer' = Prefix(f, m + 1) /\ uart' = Tail(uart)
    <3>1. rx_buffer' = Append(rx_buffer, c) /\ uart' = Tail(uart)
      BY <2>1 DEF Keep
    <3>2. Append(Prefix(f, m), CharOf(f, m + 1)) = Prefix(f, m + 1)
      <4>1. m < Chars[f]
        BY <1>2, <1>6
      <4> QED
        BY <4>1, PrefixOfAFrame
    <3> QED
      BY <1>5, <3>1, <3>2
  <2>3. Len(rx_buffer') = m + 1
    BY <1>2, <1>6, <2>2, PrefixOfAFrame
  <2>4. Len(uart') = r - 1 /\ \A i \in 1 .. r - 1 : uart'[i] = uart[i + 1]
    BY <1>1, <1>2, <2>2, Unqueued
  <2>5. ASSUME NEW i \in 1 .. r - 1
        PROVE  /\ uart'[i].char = CharOf(f, (m + 1) + i)
               /\ (m + 1) + i > 1 => uart'[i].pause = "short"
    <3>1. i + 1 \in 1 .. r /\ m + (i + 1) = (m + 1) + i
      OBVIOUS
    <3>2. /\ uart[i + 1].char = CharOf(f, m + (i + 1))
          /\ m + (i + 1) > 1 => uart[i + 1].pause = "short"
      BY <1>2, <3>1 DEF OnItsWay
    <3> QED
      BY <2>4, <3>1, <3>2
  <2>6. (m + 1) + (r - 1) = m + r
    OBVIOUS
  <2>7. (line' = Idle /\ uart' # << >>) \/ line'.frame = f
    <3>1. CASE line = Idle
      <4>1. m + r = n
        BY <1>2, <3>1 DEF OnItsWay
      <4>2. Len(uart') # 0
        BY <1>6, <2>4, <4>1
      <4> QED
        BY <1>1, <3>1, <4>2
    <3>2. CASE line # Idle
      BY <1>1, <3>2 DEF OnItsWay
    <3> QED
      BY <3>1, <3>2
  <2>8. Len(rx_buffer') + Len(uart') = IF line' = Idle THEN Chars[f] ELSE line'.sent
    BY <1>1, <1>2, <2>3, <2>4, <2>6 DEF OnItsWay
  <2> QED
    BY <1>1, <2>2, <2>3, <2>4, <2>5, <2>7, <2>8 DEF OnItsWay
<1>7. CASE m + 1 = n
  <2>1. r = 1 /\ m > ChecksumChars /\ m <= MAX_RESPONSE_SIZE /\ m < n /\ m > 0
    BY <1>2, <1>3, <1>4, <1>7
  <2>2. c.kind = "eof"
    BY <1>2, <1>3, <1>5, <1>7 DEF CharOf
  <2>3. rx_buffer # << >> /\ Append(rx_buffer, c) = Whole(f)
    <3>1. Append(rx_buffer, c) = Prefix(f, m + 1) /\ rx_buffer # << >>
      BY <1>2, <1>5, <2>1, PrefixOfAFrame
    <3> QED
      BY <1>2, <1>7, <3>1 DEF Prefix, Whole
  <2>4. EndFrame(c)
    <3>1. ~Accepted(c) /\ ~(Len(rx_buffer) <= ChecksumChars)
      BY <1>2, <1>3, <2>1, <2>2, <2>3 DEF Accepted
    <3> QED
      BY Zenon, <1>1, <2>3, <3>1 DEF Keep, Reject, EndFragment
  <2>5. \A g \in Frames : Whole(g) = Whole(f) => g = f
    <3> SUFFICES ASSUME NEW g \in Frames, Whole(g) = Whole(f) PROVE g = f
      OBVIOUS
    <3>1. Whole(g)[1] = CharOf(g, 1) /\ Whole(f)[1] = CharOf(f, 1)
      BY CharsOfAFrame, SizesAssumption DEF Whole
    <3> QED
      BY <3>1 DEF CharOf
  <2>6. dispatched' = f
    <3>1. dispatched' = CHOOSE g \in Frames : Append(rx_buffer, c) = Whole(g)
      BY <1>2, <2>1, <2>3, <2>4 DEF EndFrame
    <3> QED
      BY <2>3, <2>5, <3>1
  <2>7. rx_buffer' = << >> /\ uart' = Tail(uart)
    BY <2>4 DEF EndFrame, Rest
  <2>8. uart' = << >>
    <3>1. uart' \in Seq(Pending) /\ Len(uart') = r - 1
      BY <1>1, <1>2, <2>7, Unqueued
    <3> QED
      BY <2>1, <3>1
  <2> QED
    BY <2>6, <2>7, <2>8
<1> QED
  BY <1>2, <1>4, <1>6, <1>7
=============================================================================
