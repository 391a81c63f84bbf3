----------------------------- MODULE AlarmTexts -----------------------------
(***************************************************************************)
(* The text of the alarms of the V2 BMS: decode_all_alarm_events_ joins    *)
(* the messages of the bits that are set in eight event bytes.             *)
(*                                                                         *)
(* A text is a sequence of tokens: << event, bit >> for the message of a   *)
(* bit, and two more. A byte is the set of its bits.                       *)
(***************************************************************************)
EXTENDS Naturals, SequencesExt

\* The message tables, one of eight messages for each event.
Message(event, bit) == << event, bit >>

Separator == << 0, 0 >>
NoAlarms == << 9, 9 >>

EventSet == [1 .. 8 -> SUBSET (0 .. 7)]

\* A separator behind each message but the last.
BitmaskToString(event, mask) ==
  LET values[n \in 0 .. 8] ==
        IF n = 0 THEN << >>
        ELSE IF n - 1 \in mask THEN values[n - 1] \o << Message(event, n - 1), Separator >>
        ELSE values[n - 1]
  IN IF values[8] # << >> THEN Front(values[8]) ELSE values[8]

\* Slip: a separator in front of every event.
JoinedAlways(text, alarms) == IF alarms = << >> THEN text ELSE text \o << Separator >> \o alarms

\* What the loop over the events appends to the text so far.
Joined(text, alarms) ==
  IF alarms = << >> THEN text
  ELSE IF text = << >> THEN alarms
  ELSE text \o << Separator >> \o alarms

AlarmText(events) ==
  LET all[n \in 0 .. 8] ==
        IF n = 0 THEN << >> ELSE Joined(all[n - 1], BitmaskToString(n, events[n]))
  IN IF all[8] = << >> THEN << NoAlarms >> ELSE all[8]

Active(events) == { m \in (1 .. 8) \X (0 .. 7) : m[2] \in events[m[1]] }

Before(m, n) == m[1] < n[1] \/ (m[1] = n[1] /\ m[2] < n[2])

\* A text that names the active alarms, each once, by event and bit, a separator between
\* two of them and nowhere else.
NamesAlarms(text, events) ==
  IF Active(events) = {} THEN text = << NoAlarms >>
  ELSE /\ Len(text) + 1 = 2 * Cardinality(Active(events))
       /\ \A k \in 1 .. Len(text) :
            IF k % 2 = 0 THEN text[k] = Separator
            ELSE /\ text[k] \in Active(events)
                 /\ k > 1 => Before(text[k - 2], text[k])
=============================================================================
