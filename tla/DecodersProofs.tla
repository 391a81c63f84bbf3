--------------------------- MODULE DecodersProofs ---------------------------
(***************************************************************************)
(* The decoders find every value where it is drawn or listed, for every    *)
(* frame, and the loop over the cells finds the lowest, the highest and an *)
(* average between them, for every number of cells and all voltages.       *)
(***************************************************************************)
EXTENDS Decoders, TelemetryProofs, FiniteSetTheorems, WellFoundedInduction, TLAPS

-----------------------------------------------------------------------------
(* Numbers and recursive functions. *)

\* Every set of naturals has a smallest member.
LEMMA Smallest ==
  ASSUME NEW S, S \subseteq Nat, S # {}
  PROVE  \E n \in S : \A k \in S : n <= k
<1>1. PICK n \in S : \A k \in S : ~(<< k, n >> \in OpToRel(<, Nat))
  BY NatLessThanWellFounded, WFMin
<1>2. ASSUME NEW k \in S PROVE n <= k
  <2>1. k \in Nat /\ n \in Nat
    OBVIOUS
  <2>2. ~(k < n)
    BY <1>1, <2>1 DEF OpToRel
  <2> QED
    BY <2>1, <2>2
<1> QED
  BY <1>2

\* Every set of naturals up to a bound has a greatest member.
LEMMA Greatest ==
  ASSUME NEW m \in Nat, NEW S, S \subseteq 0 .. m, S # {}
  PROVE  \E n \in S : \A k \in S : k <= n
<1> DEFINE T == { m - n : n \in S }
<1>1. T \subseteq Nat
  <2>1. ASSUME NEW n \in S PROVE m - n \in Nat
    <3>1. n \in 0 .. m
      OBVIOUS
    <3> QED
      BY <3>1
  <2> QED
    BY <2>1
<1>2a. T # {}
  OBVIOUS
<1>2. PICK x \in T : \A y \in T : ~(<< y, x >> \in OpToRel(<, Nat))
  BY <1>1, <1>2a, NatLessThanWellFounded, WFMin
<1>3. PICK n \in S : x = m - n
  OBVIOUS
<1>4. ASSUME NEW k \in S PROVE k <= n
  <2>1. m - k \in T /\ m - k \in Nat /\ x \in Nat
    <3>1. k \in 0 .. m
      OBVIOUS
    <3>2. m - k \in T
      OBVIOUS
    <3> QED
      BY <1>1, <3>2
  <2>2. ~(<< m - k, x >> \in OpToRel(<, Nat))
    BY <1>2, <2>1
  <2>3. ~(m - k < x)
    BY <2>1, <2>2 DEF OpToRel
  <2>4. k \in 0 .. m /\ n \in 0 .. m
    OBVIOUS
  <2> QED
    BY <1>3, <2>3, <2>4
<1> QED
  BY <1>4

\* What holds at 0 and goes on from each number below a bound to the next holds up to it.
LEMMA Onward ==
  ASSUME NEW N \in Nat, NEW P, 0 \in P, \A n \in 0 .. N : n < N /\ n \in P => n + 1 \in P
  PROVE  0 .. N \subseteq P
<1> SUFFICES ASSUME ~(0 .. N \subseteq P) PROVE FALSE
  OBVIOUS
<1> DEFINE S == (0 .. N) \ P
<1>1. S \subseteq Nat /\ S # {}
  OBVIOUS
<1>2. PICK m \in S : \A k \in S : m <= k
  BY <1>1, Smallest
<1>3. m \in 0 .. N /\ m # 0
  OBVIOUS
<1>4. m - 1 \in 0 .. N /\ m - 1 < N /\ m - 1 \in P
  BY <1>2, <1>3
<1>5. (m - 1) + 1 \in P
  BY <1>4
<1>6. (m - 1) + 1 = m
  BY <1>3
<1> QED
  BY <1>5, <1>6

\* Whether f starts with a value and goes on by steps up to n.
Follows(f, n, first, step) == f[0] = first /\ \A k \in 1 .. n : f[k] = step[k][f[k - 1]]

LEMMA Recursion ==
  ASSUME NEW N \in Nat, NEW V, NEW first \in V, NEW step, \A k \in 1 .. N : step[k] \in [V -> V]
  PROVE  \E f \in [0 .. N -> V] : Follows(f, N, first, step)
<1> DEFINE P == { n \in 0 .. N : \E f \in [0 .. n -> V] : Follows(f, n, first, step) }
<1>1. 0 \in P
  <2> DEFINE f == [k \in 0 .. 0 |-> first]
  <2>1. f \in [0 .. 0 -> V] /\ f[0] = first /\ 1 .. 0 = {}
    OBVIOUS
  <2>2. Follows(f, 0, first, step)
    BY <2>1 DEF Follows
  <2> HIDE DEF f
  <2> QED
    BY <2>1, <2>2
<1>2. ASSUME NEW n \in 0 .. N, n < N, n \in P PROVE n + 1 \in P
  <2>1. PICK f \in [0 .. n -> V] : Follows(f, n, first, step)
    BY <1>2
  <2> DEFINE g == [k \in 0 .. n + 1 |-> IF k <= n THEN f[k] ELSE step[k][f[n]]]
  <2>2. n + 1 \in 1 .. N /\ step[n + 1] \in [V -> V] /\ f[n] \in V
    BY <1>2
  <2>3. step[n + 1][f[n]] \in V
    BY <2>2
  <2>4. g \in [0 .. n + 1 -> V]
    <3>1. ASSUME NEW k \in 0 .. n + 1 PROVE g[k] \in V
      <4>1. CASE k <= n
        <5>1. k \in 0 .. n /\ g[k] = f[k]
          BY <4>1
        <5> QED
          BY <5>1
      <4>2. CASE ~(k <= n)
        <5>1. k = n + 1 /\ g[k] = step[n + 1][f[n]]
          BY <4>2
        <5> QED
          BY <5>1, <2>3
      <4> QED
        BY <4>1, <4>2
    <3> QED
      BY <3>1
  <2>5. g[0] = first
    BY <2>1 DEF Follows
  <2>6. ASSUME NEW k \in 1 .. n + 1 PROVE g[k] = step[k][g[k - 1]]
    <3>1. CASE k <= n
      <4>1. k \in 1 .. n /\ g[k] = f[k] /\ g[k - 1] = f[k - 1]
        BY <3>1
      <4> QED
        BY <4>1, <2>1 DEF Follows
    <3>2. CASE ~(k <= n)
      <4>1. k = n + 1 /\ g[k - 1] = f[n]
        BY <3>2
      <4> QED
        BY <4>1
    <3> QED
      BY <3>1, <3>2
  <2>7. Follows(g, n + 1, first, step)
    BY <2>5, <2>6 DEF Follows
  <2> HIDE DEF g
  <2> QED
    BY <2>2, <2>4, <2>7
<1> HIDE DEF P
<1>3. N \in P
  BY <1>1, <1>2, Onward
<1> QED
  BY <1>3 DEF P

\* The values of a function that starts in a set and stays in it.
LEMMA StaysIn ==
  ASSUME NEW N \in Nat, NEW V, NEW f, f[0] \in V, \A n \in 1 .. N : f[n - 1] \in V => f[n] \in V
  PROVE  \A n \in 0 .. N : f[n] \in V
<1> DEFINE P == { n \in 0 .. N : f[n] \in V }
<1>1. 0 \in P
  OBVIOUS
<1>2. ASSUME NEW n \in 0 .. N, n < N, n \in P PROVE n + 1 \in P
  <2>1. n + 1 \in 1 .. N /\ (n + 1) - 1 = n
    BY <1>2
  <2> QED
    BY <1>2, <2>1
<1>3. 0 .. N \subseteq P
  <2> HIDE DEF P
  <2> QED
    BY <1>1, <1>2, Onward
<1> QED
  BY <1>3

-----------------------------------------------------------------------------
(* The loop over the cells. *)

\* What the loop knows behind its first cells: lowest and highest of them, the first cell
\* that has each, and that the sum lies between as many lowest and as many highest cells.
LoopType(volts, loop) ==
  /\ loop.cell \in 0 .. Len(volts)
  /\ loop.min \in Int /\ loop.max \in Int /\ loop.total \in Int
  /\ loop.min_cell \in Nat /\ loop.max_cell \in Nat
  /\ loop.cell = 0 => loop.total = 0 /\ loop.min = AboveAll /\ loop.max = BelowAll

Named(volts, loop) ==
  loop.cell > 0 =>
    /\ loop.min_cell \in 1 .. loop.cell /\ volts[loop.min_cell] = loop.min
    /\ loop.max_cell \in 1 .. loop.cell /\ volts[loop.max_cell] = loop.max

Inside(volts, loop, c) ==
  /\ loop.min <= volts[c] /\ (volts[c] = loop.min => loop.min_cell <= c)
  /\ volts[c] <= loop.max /\ (volts[c] = loop.max => loop.max_cell <= c)

TotalBetween(loop) ==
  loop.cell * loop.min <= loop.total /\ loop.total <= loop.cell * loop.max

LoopKnows(volts, loop) ==
  /\ LoopType(volts, loop) /\ Named(volts, loop) /\ TotalBetween(loop)
  /\ \A c \in 1 .. loop.cell : Inside(volts, loop, c)

LEMMA Between ==
  ASSUME NEW v \in Millivolts
  PROVE  v \in Nat /\ BelowAll < v /\ v < AboveAll
BY SMT DEF Millivolts, AboveAll, BelowAll

LEMMA Unset == AboveAll \in Int /\ BelowAll \in Int
BY DEF AboveAll, BelowAll

LEMMA CellInputType ==
  ASSUME NEW i \in CellInputs
  PROVE  /\ i.voltages \in Seq(Millivolts) /\ Len(i.voltages) \in Nat
         /\ \A c \in 1 .. Len(i.voltages) : i.voltages[c] \in Millivolts
         /\ LastCell(i) \in 0 .. Len(i.voltages) /\ Room(i.decoder) \in Nat
         /\ i.before.min \in Nat /\ i.before.max \in Nat
<1>1. i \in CellInput
  BY CellAssumption
<1>2. i.voltages \in Seq(Millivolts) /\ i.before.min \in Nat /\ i.before.max \in Nat
  BY <1>1 DEF CellInput
<1>3. Len(i.voltages) \in Nat /\ \A c \in 1 .. Len(i.voltages) : i.voltages[c] \in Millivolts
  BY <1>2
<1>4. Room(i.decoder) \in Nat
  BY DEF Room
<1>5. LastCell(i) \in 0 .. Len(i.voltages)
  BY <1>3, <1>4 DEF LastCell
<1> QED
  BY <1>2, <1>3, <1>4, <1>5

LEMMA LoopStarts ==
  ASSUME NEW i \in CellInputs
  PROVE  LoopKnows(i.voltages, LoopStart(i))
<1>1. LoopType(i.voltages, LoopStart(i))
  BY CellInputType, Unset DEF LoopType, LoopStart
<1>2. LoopStart(i).cell = 0 /\ TotalBetween(LoopStart(i)) /\ Named(i.voltages, LoopStart(i))
  BY Unset DEF LoopStart, TotalBetween, Named
<1> QED
  BY <1>1, <1>2 DEF LoopKnows

LEMMA NatInt == Nat \subseteq Int
OBVIOUS

\* A sum of n values, none below a, with one more that is not below b either.
LEMMA SumGrows ==
  ASSUME NEW n \in Nat, NEW a \in Int, NEW b \in Int, NEW v \in Int, NEW sum \in Int,
         b <= a \/ n = 0, b <= v, n * a <= sum
  PROVE  (n + 1) * b <= sum + v
<1>1. n * b <= n * a
  <2>1. CASE n = 0
    BY <2>1
  <2>2. CASE b <= a
    <3>1. n * (a - b) >= 0
      BY <2>2
    <3>2. n * (a - b) = n * a - n * b
      OBVIOUS
    <3> QED
      BY <3>1, <3>2
  <2> QED
    BY <2>1, <2>2
<1>2. (n + 1) * b = n * b + b
  OBVIOUS
<1>3. n * b \in Int /\ n * a \in Int
  OBVIOUS
<1> QED
  BY <1>1, <1>2, <1>3

LEMMA SumGrowsBelow ==
  ASSUME NEW n \in Nat, NEW a \in Int, NEW b \in Int, NEW v \in Int, NEW sum \in Int,
         a <= b \/ n = 0, v <= b, sum <= n * a
  PROVE  sum + v <= (n + 1) * b
<1>1. n * a <= n * b
  <2>1. CASE n = 0
    BY <2>1
  <2>2. CASE a <= b
    <3>1. n * (b - a) >= 0
      BY <2>2
    <3>2. n * (b - a) = n * b - n * a
      OBVIOUS
    <3> QED
      BY <3>1, <3>2
  <2> QED
    BY <2>1, <2>2
<1>2. (n + 1) * b = n * b + b
  OBVIOUS
<1>3. n * b \in Int /\ n * a \in Int
  OBVIOUS
<1> QED
  BY <1>1, <1>2, <1>3

\* One more cell.
LEMMA LoopGoesOn ==
  ASSUME NEW volts, Len(volts) \in Nat, \A c \in 1 .. Len(volts) : volts[c] \in Millivolts,
         NEW loop, LoopKnows(volts, loop), loop.cell < Len(volts),
         NEW new, new = LoopStep(loop, volts[loop.cell + 1])
  PROVE  LoopKnows(volts, new)
<1>1. LoopType(volts, loop) /\ Named(volts, loop) /\ TotalBetween(loop)
      /\ \A c \in 1 .. loop.cell : Inside(volts, loop, c)
  BY DEF LoopKnows
<1>2. PICK n \in Nat : n = loop.cell /\ n + 1 \in 1 .. Len(volts)
  BY <1>1 DEF LoopType
<1>3. PICK v \in Nat : v = volts[n + 1] /\ BelowAll < v /\ v < AboveAll
  BY <1>2, Between
<1>4. /\ loop.min \in Int /\ loop.max \in Int /\ loop.total \in Int
      /\ loop.min_cell \in Nat /\ loop.max_cell \in Nat
      /\ n = 0 => loop.total = 0 /\ v < loop.min /\ loop.max < v
  BY <1>1, <1>2, <1>3 DEF LoopType
<1>5. /\ new.cell = n + 1 /\ new.total = loop.total + v
      /\ new.min = IF v < loop.min THEN v ELSE loop.min
      /\ new.max = IF v > loop.max THEN v ELSE loop.max
      /\ new.min_cell = IF v < loop.min THEN n + 1 ELSE loop.min_cell
      /\ new.max_cell = IF v > loop.max THEN n + 1 ELSE loop.max_cell
  BY <1>2, <1>3 DEF LoopStep
<1>6. LoopType(volts, new)
  BY <1>2, <1>3, <1>4, <1>5 DEF LoopType
<1>7. Named(volts, new)
  <2>1. CASE n = 0
    BY <1>2, <1>3, <1>4, <1>5, <2>1 DEF Named
  <2>2. CASE n > 0
    <3>1. /\ loop.min_cell \in 1 .. n /\ volts[loop.min_cell] = loop.min
          /\ loop.max_cell \in 1 .. n /\ volts[loop.max_cell] = loop.max
      BY <1>1, <1>2, <2>2 DEF Named
    <3> QED
      BY <1>2, <1>3, <1>5, <3>1 DEF Named
  <2> QED
    BY <2>1, <2>2
<1>8. ASSUME NEW c \in 1 .. new.cell PROVE Inside(volts, new, c)
  <2>1. CASE c = n + 1
    <3>1. new.min_cell <= n + 1 /\ new.max_cell <= n + 1
      BY <1>2, <1>5, <1>7 DEF Named
    <3> QED
      BY <1>3, <1>4, <1>5, <2>1, <3>1 DEF Inside
  <2>2. CASE c # n + 1
    <3>1. c \in 1 .. n /\ c \in Nat
      BY <1>2, <1>5, <2>2
    <3>2. Inside(volts, loop, c)
      BY <1>1, <1>2, <3>1
    <3>3. PICK u \in Nat : u = volts[c]
      BY <1>2, <3>1, Between
    <3>4. /\ loop.min <= u /\ (u = loop.min => loop.min_cell <= c)
          /\ u <= loop.max /\ (u = loop.max => loop.max_cell <= c)
      BY <3>2, <3>3 DEF Inside
    <3>5. new.min <= u /\ (u = new.min => new.min_cell <= c)
      BY <1>3, <1>4, <1>5, <3>1, <3>3, <3>4
    <3>6. u <= new.max /\ (u = new.max => new.max_cell <= c)
      BY <1>3, <1>4, <1>5, <3>1, <3>3, <3>4
    <3> QED
      BY <3>3, <3>5, <3>6 DEF Inside
  <2> QED
    BY <2>1, <2>2
<1>9. TotalBetween(new)
  <2>1. n * loop.min <= loop.total /\ loop.total <= n * loop.max
    BY <1>1, <1>2 DEF TotalBetween
  <2>2. /\ new.min \in Int /\ new.max \in Int
        /\ new.min <= v /\ v <= new.max /\ new.min <= loop.min /\ loop.max <= new.max
    BY <1>3, <1>4, <1>5
  <2>3. (n + 1) * new.min <= loop.total + v
    <3>1. new.min <= loop.min \/ n = 0
      BY <2>2
    <3> QED
      BY Zenon, <1>2, <1>3, <1>4, <2>1, <2>2, <3>1, SumGrows, NatInt
  <2>4. loop.total + v <= (n + 1) * new.max
    <3>1. loop.max <= new.max \/ n = 0
      BY <2>2
    <3> QED
      BY Zenon, <1>2, <1>3, <1>4, <2>1, <2>2, <3>1, SumGrowsBelow, NatInt
  <2> QED
    BY <1>5, <2>3, <2>4 DEF TotalBetween
<1> QED
  BY <1>6, <1>7, <1>8, <1>9 DEF LoopKnows

-----------------------------------------------------------------------------
(* What is known of the input and the output at each stage. *)

TelemetryKnown ==
  /\ stage = "telemetry" => input \in TelemetryInputs
  /\ stage = "telemetry decoded" =>
       input \in TelemetryInputs /\ output = ReadAt(input.frame, input.override)
  /\ stage = "unhandled" => input \in TelemetryInputs /\ ~IsTelemetry(input.frame)

EventsKnown ==
  /\ stage = "events" => input \in EventInputs
  /\ stage = "events decoded" => input \in EventInputs /\ output = Events!PublishedEvents(input)

AnswersKnown ==
  /\ stage = "answer" => input \in AnswerInputs
  /\ stage = "answer decoded" =>
       input \in AnswerInputs /\ Answers!LongEnough(input) /\ output = Answers!FieldsOf(input)
  /\ stage = "answer dropped" => input \in AnswerInputs /\ ~Answers!LongEnough(input)

CellsKnown ==
  /\ stage = "cells" => input \in CellInputs
  /\ stage = "cell loop" =>
       /\ input \in CellInputs
       /\ LoopKnows(input.voltages, output) /\ output.cell <= LastCell(input)

PowerKnown ==
  /\ stage = "power" => input \in PowerInputs
  /\ stage = "power decoded" => input \in PowerInputs /\ output = Powers!PublishedPower(input)

RegistersKnown ==
  /\ stage = "registers" => input \in RegisterInputs
  /\ stage = "registers decoded" =>
       input \in RegisterInputs /\ output = Registers!PublishedOf(input.block, input.data)

TextsKnown ==
  stage = "texts published" =>
    /\ input \in AnswerInputs /\ input.function = "manufacturer"
    /\ output = [n \in DOMAIN input.texts |-> Answers!Trimmed(input.texts[n])]

StatusKnown ==
  /\ stage = "status" => input \in StatusInputs
  /\ stage = "status decoded" => input \in StatusInputs /\ output = Status!Read(input)

AlarmsKnown ==
  /\ stage = "alarms" => input \in AlarmInputs
  /\ stage = "alarms told" => input \in AlarmInputs /\ output = Texts!AlarmText(input)

\* The inductive invariant: the two statements about the cells follow from the loop's
\* knowledge behind the last cell, which is not kept.
StageInv ==
  TelemetryKnown /\ EventsKnown /\ AnswersKnown /\ CellsKnown /\ PowerKnown /\ RegistersKnown
    /\ TextsKnown /\ StatusKnown /\ AlarmsKnown /\ ExtremesAreCells /\ AverageIsBetween

\* What a loop that has seen every cell knows holds of what is published.
LEMMA PublishedAreExtremes ==
  ASSUME NEW i \in CellInputs, NEW loop, LoopKnows(i.voltages, loop), loop.cell = LastCell(i),
         Fits(i), NEW published, published = Statistics(i, loop)
  PROVE  TellsExtremes(i.voltages, published) /\ TellsAverage(published)
<1>1. /\ Len(i.voltages) \in Nat /\ Len(i.voltages) > 0 /\ LastCell(i) = Len(i.voltages)
      /\ \A c \in 1 .. Len(i.voltages) : i.voltages[c] \in Millivolts
      /\ i.voltages # << >> /\ DOMAIN i.voltages = 1 .. Len(i.voltages)
  <2>1. i.voltages \in Seq(Millivolts) /\ Len(i.voltages) \in Nat /\ Room(i.decoder) \in Nat
    BY CellInputType
  <2>2. i.voltages # << >> /\ Len(i.voltages) <= Room(i.decoder)
    BY DEF Fits
  <2>3. Len(i.voltages) > 0 /\ DOMAIN i.voltages = 1 .. Len(i.voltages)
    BY <2>1, <2>2
  <2> QED
    BY <2>1, <2>2, <2>3, CellInputType DEF LastCell
<1>2. PICK n \in Nat : n = loop.cell /\ n > 0 /\ n = Len(i.voltages)
  BY <1>1
<1>3. LoopType(i.voltages, loop) /\ Named(i.voltages, loop) /\ TotalBetween(loop)
      /\ \A c \in 1 .. n : Inside(i.voltages, loop, c)
  BY <1>2 DEF LoopKnows
<1>4. /\ loop.min_cell \in 1 .. n /\ i.voltages[loop.min_cell] = loop.min
      /\ loop.max_cell \in 1 .. n /\ i.voltages[loop.max_cell] = loop.max
  BY <1>2, <1>3 DEF Named
<1>5. loop.min \in Int /\ loop.max \in Int /\ loop.total \in Int
  BY <1>3 DEF LoopType
<1>6. \A c \in 1 .. n :
        /\ loop.min <= i.voltages[c] /\ (i.voltages[c] = loop.min => loop.min_cell <= c)
        /\ i.voltages[c] <= loop.max /\ (i.voltages[c] = loop.max => loop.max_cell <= c)
  BY <1>3 DEF Inside
<1>7. /\ published.min_cell_voltage = loop.min /\ published.max_cell_voltage = loop.max
      /\ published.min_voltage_cell = loop.min_cell /\ published.max_voltage_cell = loop.max_cell
      /\ published.delta_cell_voltage = loop.max - loop.min
      /\ published.average_cell_voltage = << loop.total, Len(i.voltages) >>
  BY <1>1 DEF Statistics
<1>8. loop.max - loop.min >= 0
  <2>1. loop.min <= loop.max
    BY <1>4, <1>6
  <2> QED
    BY <1>5, <2>1
<1>9. TellsExtremes(i.voltages, published)
  BY <1>1, <1>2, <1>4, <1>6, <1>7, <1>8 DEF TellsExtremes
<1>10. n * loop.min <= loop.total /\ loop.total <= n * loop.max
  BY <1>2, <1>3 DEF TotalBetween
<1>11. loop.min * n <= loop.total /\ loop.total <= loop.max * n
  <2>1. n * loop.min = loop.min * n /\ n * loop.max = loop.max * n
    BY <1>5
  <2> QED
    BY <1>10, <2>1
<1>12. published.average_cell_voltage[1] = loop.total /\ published.average_cell_voltage[2] = n
  BY <1>2, <1>7
<1>13. TellsAverage(published)
  BY <1>7, <1>11, <1>12 DEF TellsAverage
<1> QED
  BY <1>9, <1>13

LEMMA StageInvInit == Init => StageInv
BY DEF Init, StageInv, TelemetryKnown, EventsKnown, AnswersKnown, CellsKnown,
     PowerKnown, RegistersKnown, TextsKnown, StatusKnown, AlarmsKnown,
     ExtremesAreCells, AverageIsBetween

\* Nothing of what is known is about the stages between which a step moves.
LEMMA OtherStages ==
  ASSUME stage' \notin {"telemetry", "telemetry decoded", "unhandled", "events", "events decoded",
                        "answer", "answer decoded", "answer dropped", "cells", "cell loop",
                        "cells published", "power", "power decoded",
                        "registers", "registers decoded", "texts published",
                        "status", "status decoded", "alarms", "alarms told"}
  PROVE  StageInv'
BY DEF StageInv, TelemetryKnown, EventsKnown, AnswersKnown, CellsKnown,
     PowerKnown, RegistersKnown, TextsKnown, StatusKnown, AlarmsKnown,
     ExtremesAreCells, AverageIsBetween

LEMMA StageInvNext == StageInv /\ [Next]_vars => StageInv'
<1> SUFFICES ASSUME StageInv, [Next]_vars PROVE StageInv'
  OBVIOUS
<1> USE DEF StageInv
<1>1. CASE DecodeTelemetry
  BY <1>1 DEF DecodeTelemetry, TelemetryKnown, EventsKnown, AnswersKnown, CellsKnown,
       PowerKnown, RegistersKnown, TextsKnown, StatusKnown, AlarmsKnown,
       ExtremesAreCells, AverageIsBetween
<1>2. CASE LeaveUnhandled
  BY <1>2 DEF LeaveUnhandled, TelemetryKnown, EventsKnown, AnswersKnown, CellsKnown,
       PowerKnown, RegistersKnown, TextsKnown, StatusKnown, AlarmsKnown,
       ExtremesAreCells, AverageIsBetween
<1>3. CASE DecodeEvents
  BY <1>3 DEF DecodeEvents, TelemetryKnown, EventsKnown, AnswersKnown, CellsKnown,
       PowerKnown, RegistersKnown, TextsKnown, StatusKnown, AlarmsKnown,
       ExtremesAreCells, AverageIsBetween
<1>4. CASE StartCells
  <2>1. stage' = "cell loop" /\ input' = input /\ input \in CellInputs /\ output' = LoopStart(input)
    BY <1>4 DEF StartCells, CellsKnown
  <2>2. LoopKnows(input.voltages, output')
    BY Zenon, <2>1, LoopStarts
  <2>3. LastCell(input) \in 0 .. Len(input.voltages) /\ Len(input.voltages) \in Nat
    BY Zenon, <2>1, CellInputType
  <2>4. output'.cell = 0
    BY <2>1 DEF LoopStart
  <2>5. output'.cell <= LastCell(input)
    BY <2>3, <2>4
  <2> QED
    BY <2>1, <2>2, <2>5 DEF TelemetryKnown, EventsKnown, AnswersKnown, CellsKnown,
         PowerKnown, RegistersKnown, TextsKnown, StatusKnown, AlarmsKnown,
         ExtremesAreCells, AverageIsBetween
<1>5. CASE NextCell
  <2>1. /\ stage' = "cell loop" /\ input' = input /\ input \in CellInputs
        /\ LoopKnows(input.voltages, output) /\ output.cell < LastCell(input)
        /\ output' = LoopStep(output, input.voltages[output.cell + 1])
    BY <1>5 DEF NextCell, CellsKnown
  <2>2. /\ LastCell(input) \in 0 .. Len(input.voltages) /\ Len(input.voltages) \in Nat
        /\ \A c \in 1 .. Len(input.voltages) : input.voltages[c] \in Millivolts
    BY <2>1, CellInputType
  <2>3. output.cell \in 0 .. Len(input.voltages)
    BY <2>1 DEF LoopKnows, LoopType
  <2>4. output.cell < LastCell(input) /\ LastCell(input) \in 0 .. Len(input.voltages)
        /\ Len(input.voltages) \in Nat
    BY Zenon, <2>1, <2>2
  <2>5. output.cell < Len(input.voltages)
    BY <2>3, <2>4
  <2>6. LoopKnows(input.voltages, output')
    BY Zenon, <2>1, <2>2, <2>5, LoopGoesOn
  <2>7. output'.cell = output.cell + 1
    BY <2>1 DEF LoopStep
  <2>8. output'.cell <= LastCell(input)
    BY <2>3, <2>4, <2>7
  <2> QED
    BY <2>1, <2>6, <2>8 DEF TelemetryKnown, EventsKnown, AnswersKnown, CellsKnown,
         PowerKnown, RegistersKnown, TextsKnown, StatusKnown, AlarmsKnown,
         ExtremesAreCells, AverageIsBetween
<1>6. CASE PublishCells
  <2>1. /\ stage' = "cells published" /\ input' = input /\ input \in CellInputs
        /\ LoopKnows(input.voltages, output) /\ output.cell = LastCell(input)
        /\ output' = Statistics(input, output)
    BY <1>6 DEF PublishCells, CellsKnown
  <2>2. CASE Fits(input)
    <3>1. TellsExtremes(input.voltages, output') /\ TellsAverage(output')
      BY Zenon, <2>1, <2>2, PublishedAreExtremes
    <3> QED
      BY <2>1, <3>1 DEF TelemetryKnown, EventsKnown, AnswersKnown, CellsKnown,
           PowerKnown, RegistersKnown, TextsKnown, StatusKnown, AlarmsKnown,
           ExtremesAreCells, AverageIsBetween
  <2>3. CASE ~Fits(input)
    BY <2>1, <2>3 DEF TelemetryKnown, EventsKnown, AnswersKnown, CellsKnown,
         PowerKnown, RegistersKnown, TextsKnown, StatusKnown, AlarmsKnown,
         ExtremesAreCells, AverageIsBetween
  <2> QED
    BY <2>2, <2>3
<1>7. CASE DecodeAnswer
  BY <1>7 DEF DecodeAnswer, TelemetryKnown, EventsKnown, AnswersKnown, CellsKnown,
       PowerKnown, RegistersKnown, TextsKnown, StatusKnown, AlarmsKnown,
       ExtremesAreCells, AverageIsBetween
<1>8. CASE DropAnswer
  BY <1>8 DEF DropAnswer, TelemetryKnown, EventsKnown, AnswersKnown, CellsKnown,
       PowerKnown, RegistersKnown, TextsKnown, StatusKnown, AlarmsKnown,
       ExtremesAreCells, AverageIsBetween
<1>9. CASE TooShort \/ SendRequest \/ DamageCharacter \/ ParseRequest \/ SendFrame
            \/ DamageFrame \/ CheckFrame
  <2>1. stage' \notin {"telemetry", "telemetry decoded", "unhandled", "events", "events decoded",
                       "answer", "answer decoded", "answer dropped", "cells", "cell loop",
                       "cells published", "power", "power decoded",
                        "registers", "registers decoded", "texts published",
                        "status", "status decoded", "alarms", "alarms told"}
    BY <1>9 DEF TooShort, SendRequest,
                DamageCharacter, ParseRequest, SendFrame, DamageFrame, CheckFrame
  <2> QED
    BY <2>1, OtherStages
<1>10. CASE DecodePower
  BY <1>10 DEF DecodePower, TelemetryKnown, EventsKnown, AnswersKnown, CellsKnown,
       PowerKnown, RegistersKnown, TextsKnown, StatusKnown, AlarmsKnown,
       ExtremesAreCells, AverageIsBetween
<1>11. CASE DecodeRegisters
  BY <1>11 DEF DecodeRegisters, TelemetryKnown, EventsKnown, AnswersKnown, CellsKnown,
       PowerKnown, RegistersKnown, TextsKnown, StatusKnown, AlarmsKnown,
       ExtremesAreCells, AverageIsBetween
<1>12. CASE PublishTexts
  BY <1>12 DEF PublishTexts, TelemetryKnown, EventsKnown, AnswersKnown, CellsKnown,
       PowerKnown, RegistersKnown, TextsKnown, StatusKnown, AlarmsKnown,
       ExtremesAreCells, AverageIsBetween
<1>13. CASE DecodeStatus
  BY <1>13 DEF DecodeStatus, TelemetryKnown, EventsKnown, AnswersKnown, CellsKnown,
       PowerKnown, RegistersKnown, TextsKnown, StatusKnown, AlarmsKnown,
       ExtremesAreCells, AverageIsBetween
<1>14. CASE TellAlarms
  BY <1>14 DEF TellAlarms, TelemetryKnown, EventsKnown, AnswersKnown, CellsKnown,
       PowerKnown, RegistersKnown, TextsKnown, StatusKnown, AlarmsKnown,
       ExtremesAreCells, AverageIsBetween
<1>15. CASE UNCHANGED vars
  <2>1. stage' = stage /\ input' = input /\ output' = output
    BY <1>15 DEF vars
  <2>2. TelemetryKnown' /\ EventsKnown' /\ AnswersKnown' /\ CellsKnown'
    BY <2>1 DEF TelemetryKnown, EventsKnown, AnswersKnown, CellsKnown
  <2>3. PowerKnown'
    BY <2>1 DEF PowerKnown
  <2>4. RegistersKnown'
    BY <2>1 DEF RegistersKnown
  <2>5. TextsKnown' /\ StatusKnown' /\ AlarmsKnown'
    BY <2>1 DEF TextsKnown, StatusKnown, AlarmsKnown
  <2>6. ExtremesAreCells' /\ AverageIsBetween'
    BY <2>1 DEF ExtremesAreCells, AverageIsBetween
  <2> QED
    BY <2>2, <2>3, <2>4, <2>5, <2>6
<1> QED
  BY <1>1, <1>2, <1>3, <1>4, <1>5, <1>6, <1>7, <1>8, <1>9, <1>10, <1>11, <1>12, <1>13,
     <1>14, <1>15 DEF Next

LEMMA StageInvariant == Spec => []StageInv
BY StageInvInit, StageInvNext, PTL DEF Spec

-----------------------------------------------------------------------------
(* The theorems. *)

LEMMA TelemetryInputType ==
  ASSUME NEW i \in TelemetryInputs
  PROVE  i.frame \in TelemetryFrame /\ i.override \in { n \in Nat : n <= 16 }
BY TelemetryAssumption

\* Every value of a well-formed telemetry frame is read from its documented place, and
\* nothing is made up but the rated capacity (on_telemetry_data_), for every frame and
\* every configured cell count.
LEMMA TelemetryReadWhereDocumented == Spec => []ReadWhereDocumented
<1>1. StageInv => ReadWhereDocumented
  <2> SUFFICES ASSUME StageInv, stage = "telemetry decoded", WellFormed(input.frame),
                      CountKnown(input.frame, input.override)
               PROVE  AgreesWithDrawing(output, input.frame)
    BY DEF ReadWhereDocumented
  <2>1. input \in TelemetryInputs /\ output = ReadAt(input.frame, input.override)
    BY DEF StageInv, TelemetryKnown
  <2> QED
    BY Zenon, <2>1, TelemetryInputType, DecodesAsDocumented
<1> QED
  BY <1>1, StageInvariant, PTL

\* The optional fields end 19 bytes behind their first place.
LEMMA OptionalFieldsEnd ==
  ASSUME NEW start \in Nat, NEW size \in Nat, start + 19 <= size, NEW f \in OptionalFields
  PROVE  size >= start + f[2] + 2
<1>1. f[2] \in Nat /\ f[2] <= 17
  BY DEF OptionalFields
<1> QED
  BY <1>1

LEMMA TableFrames ==
  ASSUME NEW frame, OfTheTable(frame)
  PROVE  /\ IsTelemetry(frame) /\ WellFormed(frame)
         /\ MainStart(frame) \in Nat /\ frame.size \in Nat /\ MainStart(frame) + 19 <= frame.size
<1>1. /\ frame.announced = frame.cells /\ frame.temps = 6
      /\ << frame.cells, frame.size >> \in DocumentedSizes
  BY DEF OfTheTable
<1>2. \/ frame.cells = 8 /\ frame.size = 65
      \/ frame.cells = 14 /\ frame.size = 77
      \/ frame.cells = 15 /\ frame.size = 79
      \/ frame.cells = 16 /\ frame.size = 81
  BY <1>1 DEF DocumentedSizes
<1>3. PICK c \in Nat, z \in Nat : c = frame.cells /\ z = frame.size /\ c \in 8 .. 16 /\ z >= 44
                                  /\ 41 + 2 * c <= z
  BY <1>2
<1>4. MainStart(frame) = 22 + 2 * c
  BY <1>1, <1>3 DEF MainStart
<1>5. IsTelemetry(frame)
  BY <1>1, <1>3 DEF IsTelemetry
<1>6. WellFormed(frame)
  BY <1>3, <1>4 DEF WellFormed
<1> QED
  BY <1>3, <1>4, <1>5, <1>6

\* Every frame of the table of on_seplos_modbus_data is decoded to its last field.
LEMMA TableIsDecoded == Spec => []DocumentedSizesAreDecoded
<1>1. StageInv => DocumentedSizesAreDecoded
  <2> SUFFICES ASSUME StageInv, stage \in {"telemetry decoded", "unhandled"},
                      OfTheTable(input.frame), CountKnown(input.frame, input.override)
               PROVE  stage = "telemetry decoded" /\ OptionalFields \subseteq DOMAIN output
    BY DEF DocumentedSizesAreDecoded
  <2>1. input \in TelemetryInputs
    BY DEF StageInv, TelemetryKnown
  <2>2. input.frame \in TelemetryFrame /\ input.override \in { n \in Nat : n <= 16 }
    BY <2>1, TelemetryInputType
  <2>3. PICK m \in Nat, z \in Nat : m = MainStart(input.frame) /\ z = input.frame.size /\ m + 19 <= z
    BY TableFrames
  <2>4. IsTelemetry(input.frame) /\ WellFormed(input.frame)
    BY Zenon, TableFrames
  <2>5. stage = "telemetry decoded" /\ output = ReadAt(input.frame, input.override)
    BY <2>4 DEF StageInv, TelemetryKnown
  <2>6. MainOffset(input.frame, input.override) = m
    BY Zenon, <2>2, <2>3, <2>4, Offsets
  <2>7. \A f \in OptionalFields : input.frame.size >= m + f[2] + 2
    BY Zenon, <2>3, OptionalFieldsEnd
  <2>8. OptionalFields \subseteq Present(input.frame, input.override)
    BY <2>3, <2>6, <2>7 DEF Present
  <2>9. OptionalFields \subseteq Published(input.frame, input.override)
    BY <2>8 DEF Published
  <2> QED
    BY <2>5, <2>9 DEF ReadAt
<1> QED
  BY <1>1, StageInvariant, PTL

\* on_telemetry_data_ reads every well-formed frame as documented, and no frame of the
\* table is left undecoded, whatever the sizes, counts and overrides.
THEOREM TelemetryCorrect == Spec => []TelemetryAsDocumented
BY TelemetryReadWhereDocumented, TableIsDecoded, PTL DEF TelemetryAsDocumented

\* The cell numbers published with the lowest and the highest voltage are those of the
\* first cells that have them, in both decoders, for every number of cells with sensors.
LEMMA ExtremesAreThoseOfCells == Spec => []ExtremesAreCells
BY StageInvariant, PTL DEF StageInv

\* The published average lies between the lowest and the highest cell.
LEMMA AverageLiesBetween == Spec => []AverageIsBetween
BY StageInvariant, PTL DEF StageInv

\* Lowest, highest and average cell are those of the frame, in both decoders, for every
\* number of cells with sensors, any voltages, and any numbers left from the frame before.
THEOREM CellsCorrect == Spec => []StatisticsAreOfCells
BY ExtremesAreThoseOfCells, AverageLiesBetween, PTL DEF StatisticsAreOfCells

-----------------------------------------------------------------------------
(* The places of the fields of the other answers. *)

\* Fields of one byte at the places in B and of two from the places in W.
FieldsAt(B, W) == { << p, p >> : p \in B } \cup { << w, w + 1 >> : w \in W }

LEMMA OneByteFields ==
  ASSUME NEW B PROVE Answers!OneByte(B) = { << p, p >> : p \in B }
BY DEF Answers!OneByte

LEMMA FieldsApart ==
  ASSUME NEW B, NEW W, B \subseteq Nat, W \subseteq Nat,
         \A v, w \in W : v # w => v + 1 < w \/ w + 1 < v,
         \A p \in B, w \in W : p # w /\ p # w + 1,
         NEW f \in FieldsAt(B, W), NEW g \in FieldsAt(B, W), f # g
  PROVE  Answers!Places(f) \cap Answers!Places(g) = {}
<1>1. CASE f \in { << p, p >> : p \in B } /\ g \in { << p, p >> : p \in B }
  <2>1. PICK p \in B, q \in B : f = << p, p >> /\ g = << q, q >>
    BY <1>1
  <2> QED
    BY <2>1 DEF Answers!Places
<1>2. CASE f \in { << p, p >> : p \in B } /\ g \in { << w, w + 1 >> : w \in W }
  <2>1. PICK p \in B, w \in W : f = << p, p >> /\ g = << w, w + 1 >>
    BY <1>2
  <2> QED
    BY <2>1 DEF Answers!Places
<1>3. CASE f \in { << w, w + 1 >> : w \in W } /\ g \in { << p, p >> : p \in B }
  <2>1. PICK p \in B, w \in W : g = << p, p >> /\ f = << w, w + 1 >>
    BY <1>3
  <2> QED
    BY <2>1 DEF Answers!Places
<1>4. CASE f \in { << w, w + 1 >> : w \in W } /\ g \in { << w, w + 1 >> : w \in W }
  <2>1. PICK v \in W, w \in W : f = << v, v + 1 >> /\ g = << w, w + 1 >>
    BY <1>4
  <2>2. v # w
    BY <2>1
  <2> QED
    BY <2>1, <2>2 DEF Answers!Places
<1> QED
  BY <1>1, <1>2, <1>3, <1>4 DEF FieldsAt

\* No field reaches behind the last place.
LEMMA FieldsEnd ==
  ASSUME NEW B, NEW W, NEW last \in Nat, B \subseteq 0 .. last, W \subseteq 0 .. last - 1,
         NEW f \in FieldsAt(B, W)
  PROVE  f[2] \in 0 .. last /\ Answers!Places(f) \subseteq 0 .. last
<1>1. CASE f \in { << p, p >> : p \in B }
  <2>1. PICK p \in B : f = << p, p >>
    BY <1>1
  <2> QED
    BY <2>1 DEF Answers!Places
<1>2. CASE f \in { << w, w + 1 >> : w \in W }
  <2>1. PICK w \in W : f = << w, w + 1 >>
    BY <1>2
  <2> QED
    BY <2>1 DEF Answers!Places
<1> QED
  BY <1>1, <1>2 DEF FieldsAt

\* Places that are all different and not behind the last.
DifferentPlaces(B, W, last) ==
  /\ B \subseteq 0 .. last /\ W \subseteq 0 .. last - 1
  /\ \A v, w \in W : v # w => v + 1 < w \/ w + 1 < v
  /\ \A p \in B, w \in W : p # w /\ p # w + 1

\* What FieldsAreInFrame says, of fields that end at the last place.
KeptApart(fields, last, frame) ==
  /\ \A f \in fields : f[2] < frame.size
  /\ \A f, g \in fields : f # g => Answers!Places(f) \cap Answers!Places(g) = {}
  /\ last + 3 < frame.size =>
       \A f \in fields : Answers!Places(f) \cap Answers!Trailer(frame) = {}

LEMMA FieldsInside ==
  ASSUME NEW B, NEW W, NEW last \in Nat, DifferentPlaces(B, W, last),
         NEW frame, frame.size \in Nat, last < frame.size
  PROVE  KeptApart(FieldsAt(B, W), last, frame)
<1> DEFINE fields == FieldsAt(B, W)
<1>1. /\ B \subseteq Nat /\ W \subseteq Nat
      /\ B \subseteq 0 .. last /\ W \subseteq 0 .. last - 1
      /\ \A v, w \in W : v # w => v + 1 < w \/ w + 1 < v
      /\ \A p \in B, w \in W : p # w /\ p # w + 1
  BY DEF DifferentPlaces
<1>2. \A f, g \in fields : f # g => Answers!Places(f) \cap Answers!Places(g) = {}
  BY Zenon, <1>1, FieldsApart
<1>3. ASSUME NEW f \in fields PROVE f[2] \in 0 .. last /\ Answers!Places(f) \subseteq 0 .. last
  BY Zenon, <1>1, <1>3, FieldsEnd
<1>4. ASSUME NEW f \in fields PROVE f[2] < frame.size
  BY <1>3, <1>4
<1>5. ASSUME NEW f \in fields, last + 3 < frame.size
      PROVE  Answers!Places(f) \cap Answers!Trailer(frame) = {}
  <2>1. \A n \in Answers!Trailer(frame) : n \notin 0 .. last
    BY <1>5 DEF Answers!Trailer
  <2> QED
    BY <1>3, <2>1
<1> QED
  BY <1>2, <1>4, <1>5 DEF KeptApart

SettingsBytes == {7, 8} \cup 130 .. 143
SettingsWords == { 9 + 2 * k : k \in 0 .. 59 }

LEMMA SettingsPlaces == Answers!SettingsFields = FieldsAt(SettingsBytes, SettingsWords)
<1>1. Answers!Words(9, 60) = { << w, w + 1 >> : w \in SettingsWords }
  <2>1. Answers!Words(9, 60) = { << 9 + 2 * k, 9 + 2 * k + 1 >> : k \in 0 .. 59 }
    BY DEF Answers!Words
  <2> QED
    BY <2>1 DEF SettingsWords
<1>2. /\ Answers!OneByte({7, 8}) = { << p, p >> : p \in {7, 8} }
      /\ Answers!OneByte(130 .. 135) = { << p, p >> : p \in 130 .. 135 }
      /\ Answers!OneByte(136 .. 143) = { << p, p >> : p \in 136 .. 143 }
  BY OneByteFields
<1>3. 130 .. 143 = (130 .. 135) \cup (136 .. 143)
  OBVIOUS
<1> QED
  BY <1>1, <1>2, <1>3 DEF Answers!SettingsFields, Answers!FunctionSwitches, FieldsAt, SettingsBytes

ParallelBytes(alarms) == {7, 8, 9, 14, 29} \cup 44 .. 46 + alarms
ParallelWords ==
  { 10 + 2 * k : k \in 0 .. 1 } \cup { 15 + 2 * k : k \in 0 .. 6 } \cup { 30 + 2 * k : k \in 0 .. 6 }

\* The alarm events that are read are the eight that are always there, or all the frame has.
LEMMA ParallelPlaces ==
  ASSUME NEW frame, frame.alarms \in Nat, frame.size \in Nat, frame.size >= 58
  PROVE  \/ /\ Answers!ParallelFields \cup Answers!CustomEvents(frame)
                 = FieldsAt(ParallelBytes(8), ParallelWords)
            /\ frame.alarms <= 8 \/ frame.size <= 47 + frame.alarms
         \/ /\ Answers!ParallelFields \cup Answers!CustomEvents(frame)
                 = FieldsAt(ParallelBytes(frame.alarms), ParallelWords)
            /\ frame.alarms > 8 /\ frame.size > 47 + frame.alarms
<1>1. /\ Answers!Words(10, 2) = { << w, w + 1 >> : w \in { 10 + 2 * k : k \in 0 .. 1 } }
      /\ Answers!Words(15, 7) = { << w, w + 1 >> : w \in { 15 + 2 * k : k \in 0 .. 6 } }
      /\ Answers!Words(30, 7) = { << w, w + 1 >> : w \in { 30 + 2 * k : k \in 0 .. 6 } }
  <2>1. /\ Answers!Words(10, 2) = { << 10 + 2 * k, 10 + 2 * k + 1 >> : k \in 0 .. 1 }
        /\ Answers!Words(15, 7) = { << 15 + 2 * k, 15 + 2 * k + 1 >> : k \in 0 .. 6 }
        /\ Answers!Words(30, 7) = { << 30 + 2 * k, 30 + 2 * k + 1 >> : k \in 0 .. 6 }
    BY DEF Answers!Words
  <2> QED
    BY <2>1
<1>2. /\ Answers!OneByte({7, 8, 9, 14, 29}) = { << p, p >> : p \in {7, 8, 9, 14, 29} }
      /\ Answers!OneByte({44, 45, 46}) = { << p, p >> : p \in {44, 45, 46} }
      /\ Answers!OneByte(47 .. 54) = { << p, p >> : p \in 47 .. 54 }
  BY OneByteFields
<1>3. 44 .. 46 + 8 = {44, 45, 46} \cup (47 .. 54)
  OBVIOUS
<1>4. Answers!ParallelFields = FieldsAt(ParallelBytes(8), ParallelWords)
  BY <1>1, <1>2, <1>3 DEF Answers!ParallelFields, FieldsAt, ParallelBytes, ParallelWords
<1>5. CASE frame.alarms > 8 /\ frame.size > 47 + frame.alarms
  <2>1. PICK a \in Nat, z \in Nat : a = frame.alarms /\ z = frame.size /\ a > 8 /\ z > 47 + a
    BY <1>5
  <2>2. { 47 + i : i \in 8 .. a - 1 } \cap (0 .. z - 1) = 55 .. 46 + a
    <3>1. ASSUME NEW n \in 55 .. 46 + a PROVE \E i \in 8 .. a - 1 : n = 47 + i
      <4>1. n - 47 \in 8 .. a - 1 /\ n = 47 + (n - 47)
        BY <2>1
      <4> QED
        BY <4>1
    <3> QED
      BY <2>1, <3>1
  <2>3. Answers!CustomEvents(frame) = { << p, p >> : p \in 55 .. 46 + a }
    BY <2>1, <2>2, OneByteFields DEF Answers!CustomEvents
  <2>4. ParallelBytes(a) = ParallelBytes(8) \cup (55 .. 46 + a)
    BY <2>1 DEF ParallelBytes
  <2> QED
    BY <1>4, <1>5, <2>1, <2>3, <2>4 DEF FieldsAt
<1>6. CASE ~(frame.alarms > 8 /\ frame.size > 47 + frame.alarms)
  <2>1. Answers!CustomEvents(frame) = {}
    BY <1>6 DEF Answers!CustomEvents
  <2> QED
    BY <1>4, <1>6, <2>1
<1> QED
  BY <1>5, <1>6

LEMMA ManufacturerInside ==
  ASSUME NEW frame, frame.size \in Nat, frame.size >= 45
  PROVE  KeptApart(Answers!ManufacturerFields, 42, frame)
<1>1. ASSUME NEW f \in Answers!ManufacturerFields
      PROVE  \/ f = << 7, 26 >> \/ f = << 27, 36 >> \/ \E p \in 37 .. 42 : f = << p, p >>
  BY <1>1 DEF Answers!ManufacturerFields, Answers!OneByte
<1>2. ASSUME NEW f \in Answers!ManufacturerFields
      PROVE  f[2] < 43 /\ f[2] \in Nat /\ Answers!Places(f) \subseteq 0 .. 42
  BY <1>1, <1>2 DEF Answers!Places
<1>3. ASSUME NEW f \in Answers!ManufacturerFields, NEW g \in Answers!ManufacturerFields, f # g
      PROVE  Answers!Places(f) \cap Answers!Places(g) = {}
  <2>1. CASE f = << 7, 26 >> \/ f = << 27, 36 >>
    BY <1>1, <1>3, <2>1 DEF Answers!Places
  <2>2. CASE \E p \in 37 .. 42 : f = << p, p >>
    BY <1>1, <1>3, <2>2 DEF Answers!Places
  <2> QED
    BY <1>1, <1>3, <2>1, <2>2
<1>4. 42 + 3 < frame.size => \A n \in Answers!Trailer(frame) : n \notin 0 .. 42
  BY DEF Answers!Trailer
<1>5. \A f \in Answers!ManufacturerFields : f[2] < frame.size
  BY <1>2
<1> QED
  BY <1>2, <1>3, <1>4, <1>5 DEF KeptApart

LEMMA SettingsInside ==
  ASSUME NEW frame, frame.size \in Nat, frame.size >= 145
  PROVE  KeptApart(Answers!SettingsFields, 143, frame)
<1>1. DifferentPlaces(SettingsBytes, SettingsWords, 143)
  BY DEF DifferentPlaces, SettingsBytes, SettingsWords
<1>2. 143 \in Nat /\ 143 < frame.size
  OBVIOUS
<1> QED
  BY Zenon, <1>1, <1>2, SettingsPlaces, FieldsInside

LEMMA ParallelInside ==
  ASSUME NEW frame, frame.size \in Nat, NEW a \in Nat, a >= 8, 46 + a < frame.size
  PROVE  KeptApart(FieldsAt(ParallelBytes(a), ParallelWords), 46 + a, frame)
<1>1. DifferentPlaces(ParallelBytes(a), ParallelWords, 46 + a)
  BY DEF DifferentPlaces, ParallelBytes, ParallelWords
<1>2. 46 + a \in Nat
  OBVIOUS
<1> QED
  BY Zenon, <1>1, <1>2, FieldsInside

LEMMA AnswerType ==
  ASSUME NEW i \in AnswerInputs
  PROVE  /\ i.size \in Nat /\ i.function \in {"manufacturer", "settings", "parallel"}
         /\ i.function = "parallel" => i.alarms \in Nat
<1>1. i \in Answers!V2Frame
  BY AnswerAssumption
<1>2. CASE i \in [function : {"manufacturer"}, size : 10 .. 200, texts : Answers!Texts]
  BY <1>2
<1>3. CASE i \in [function : {"settings"}, size : 10 .. 200]
  BY <1>3
<1>4. CASE i \in [function : {"parallel"}, size : 10 .. 200, alarms : 0 .. 255]
  BY <1>4
<1> QED
  BY <1>1, <1>2, <1>3, <1>4 DEF Answers!V2Frame

\* What a decoder reads of a frame that is long enough.
LEMMA AnswerInside ==
  ASSUME NEW i \in AnswerInputs, Answers!LongEnough(i)
  PROVE  /\ \A f \in Answers!FieldsOf(i) : f[2] < i.size
         /\ \A f, g \in Answers!FieldsOf(i) :
              f # g => Answers!Places(f) \cap Answers!Places(g) = {}
         /\ i.size = Answers!RecordedSize(i) =>
              /\ \A f \in Answers!FieldsOf(i) : Answers!Places(f) \cap Answers!Trailer(i) = {}
              /\ i.function = "parallel" =>
                   \A n \in 1 .. i.alarms : << 46 + n, 46 + n >> \in Answers!FieldsOf(i)
<1>1. i.size \in Nat
  BY AnswerType
<1>2. CASE i.function = "manufacturer"
  <2>1. i.size >= 45 /\ Answers!RecordedSize(i) = 46
    BY <1>2 DEF Answers!LongEnough, Answers!RecordedSize
  <2>2. Answers!FieldsOf(i) = Answers!ManufacturerFields
    BY <1>2 DEF Answers!FieldsOf
  <2>3. KeptApart(Answers!ManufacturerFields, 42, i)
    BY Zenon, <1>1, <2>1, ManufacturerInside
  <2>4. i.size = 46 => 42 + 3 < i.size
    OBVIOUS
  <2> QED
    BY <1>2, <2>1, <2>2, <2>3, <2>4 DEF KeptApart
<1>3. CASE i.function = "settings"
  <2>1. i.size >= 145 /\ Answers!RecordedSize(i) = 179
    BY <1>3 DEF Answers!LongEnough, Answers!RecordedSize
  <2>2. Answers!FieldsOf(i) = Answers!SettingsFields
    BY <1>3 DEF Answers!FieldsOf
  <2>3. KeptApart(Answers!SettingsFields, 143, i)
    BY Zenon, <1>1, <2>1, SettingsInside
  <2>4. i.size = 179 => 143 + 3 < i.size
    OBVIOUS
  <2> QED
    BY <1>3, <2>1, <2>2, <2>3, <2>4 DEF KeptApart
<1>4. CASE i.function = "parallel"
  <2>1. PICK alarms \in Nat, size \in Nat : alarms = i.alarms /\ size = i.size
    BY <1>1, <1>4, AnswerType
  <2>2. i.size >= 58 /\ Answers!RecordedSize(i) = 50 + i.alarms
    BY <1>4 DEF Answers!LongEnough, Answers!RecordedSize
  <2>3. Answers!FieldsOf(i) = Answers!ParallelFields \cup Answers!CustomEvents(i)
    BY <1>4 DEF Answers!FieldsOf
  <2>4. PICK a \in Nat : /\ Answers!FieldsOf(i) = FieldsAt(ParallelBytes(a), ParallelWords)
                         /\ a >= 8 /\ 46 + a < i.size
                         /\ i.size = 50 + i.alarms => a = i.alarms
    <3>1. CASE /\ Answers!FieldsOf(i) = FieldsAt(ParallelBytes(8), ParallelWords)
               /\ i.alarms <= 8 \/ i.size <= 47 + i.alarms
      <4>1. 46 + 8 < i.size /\ (i.size = 50 + i.alarms => 8 = i.alarms)
        BY <2>1, <2>2, <3>1
      <4> QED
        BY <3>1, <4>1
    <3>2. CASE /\ Answers!FieldsOf(i) = FieldsAt(ParallelBytes(i.alarms), ParallelWords)
               /\ i.alarms > 8 /\ i.size > 47 + i.alarms
      <4>1. alarms >= 8 /\ 46 + alarms < i.size
        BY <2>1, <3>2
      <4> QED
        BY <2>1, <3>2, <4>1
    <3> QED
      BY <2>1, <2>2, <2>3, <3>1, <3>2, ParallelPlaces
  <2>5. KeptApart(Answers!FieldsOf(i), 46 + a, i)
    BY Zenon, <1>1, <2>4, ParallelInside
  <2>6. i.size = Answers!RecordedSize(i) => 46 + a + 3 < i.size /\ a = i.alarms
    BY <2>1, <2>2, <2>4
  <2>7. \A n \in 1 .. a : << 46 + n, 46 + n >> \in Answers!FieldsOf(i)
    <3>1. ASSUME NEW n \in 1 .. a PROVE 46 + n \in ParallelBytes(a)
      <4>1. CASE n <= a
        BY <2>4, <4>1 DEF ParallelBytes
      <4> QED
        BY <4>1
    <3> QED
      BY <2>4, <3>1 DEF FieldsAt
  <2> QED
    BY <2>5, <2>6, <2>7 DEF KeptApart
<1> QED
  BY <1>2, <1>3, <1>4, AnswerType

-----------------------------------------------------------------------------
(* The event codes. *)

\* What each bit of the problem code stands for.
LEMMA ProblemBits ==
  ASSUME NEW data \in Events!EventBytes
  PROVE  /\ Events!ProblemCode(data) \subseteq 0 .. 6
         /\ 0 \in Events!ProblemCode(data) <=> data[1] # {}
         /\ 1 \in Events!ProblemCode(data) <=> data[2] # {}
         /\ 2 \in Events!ProblemCode(data) <=> Events!AmbientEvents(data) # {}
         /\ 3 \in Events!ProblemCode(data) <=> data[4] # {}
         /\ 4 \in Events!ProblemCode(data) <=> data[5] # {}
         /\ 5 \in Events!ProblemCode(data) <=> data[6] # {}
         /\ 6 \in Events!ProblemCode(data) <=> data[9] # {}
<1>1. 0 \in Events!ProblemCode(data) <=> data[1] # {}
  BY DEF Events!ProblemCode
<1>2. 1 \in Events!ProblemCode(data) <=> data[2] # {}
  BY DEF Events!ProblemCode
<1>3. 2 \in Events!ProblemCode(data) <=> Events!AmbientEvents(data) # {}
  BY DEF Events!ProblemCode
<1>4. 3 \in Events!ProblemCode(data) <=> data[4] # {}
  BY DEF Events!ProblemCode
<1>5. 4 \in Events!ProblemCode(data) <=> data[5] # {}
  BY DEF Events!ProblemCode
<1>6. 5 \in Events!ProblemCode(data) <=> data[6] # {}
  BY DEF Events!ProblemCode
<1>7. 6 \in Events!ProblemCode(data) <=> data[9] # {}
  BY DEF Events!ProblemCode
<1>8. Events!ProblemCode(data) \subseteq 0 .. 6
  BY DEF Events!ProblemCode
<1> QED
  BY <1>1, <1>2, <1>3, <1>4, <1>5, <1>6, <1>7, <1>8

LEMMA EventBits ==
  ASSUME NEW data \in Events!EventBytes, NEW n \in 0 .. 9, NEW b \in data[n]
  PROVE  b \in 0 .. 7
<1>1. data[n] \in SUBSET (0 .. 7)
  BY DEF Events!EventBytes
<1> QED
  BY <1>1

LEMMA AlarmsAreCounted ==
  ASSUME NEW data \in Events!EventBytes, NEW bit \in Events!AlarmBits, bit[2] \in data[bit[1]],
         bit[1] # 8
  PROVE  Events!ProblemCode(data) # {}
<1>1. \/ bit[1] \in {1, 2, 4, 5, 6, 9}
      \/ bit[1] = 3 /\ bit[2] \in 0 .. 5
  BY DEF Events!AlarmBits
<1>2. CASE bit[1] = 3 /\ bit[2] \in 0 .. 5
  <2>1. Events!AmbientEvents(data) # {}
    BY <1>2 DEF Events!AmbientEvents
  <2> QED
    BY <2>1, ProblemBits
<1>3. CASE bit[1] \in {1, 2, 4, 5, 6, 9}
  <2>1. \/ data[1] # {} \/ data[2] # {} \/ data[4] # {} \/ data[5] # {} \/ data[6] # {}
        \/ data[9] # {}
    BY <1>3
  <2> QED
    BY <2>1, ProblemBits
<1> QED
  BY <1>1, <1>2, <1>3

LEMMA StatesAreNot ==
  ASSUME NEW data \in Events!EventBytes, Events!OnlyDefined(data),
         Events!Alarms(data) \ Events!BatteryStateAlarms(data) = {}
  PROVE  Events!ProblemCode(data) = {}
<1>1. ASSUME NEW n \in 0 .. 9, NEW b \in data[n]
      PROVE  << n, b >> \in Events!StateBits \/ n = 8
  <2>1. << n, b >> \in Events!AlarmBits \/ << n, b >> \in Events!StateBits
    BY DEF Events!OnlyDefined
  <2>2. << n, b >> \in Events!AlarmBits => n = 8
    <3>1. << n, b >>[2] \in data[<< n, b >>[1]] /\ << n, b >>[1] = n
      BY <1>1
    <3> QED
      BY <3>1 DEF Events!Alarms, Events!BatteryStateAlarms
  <2> QED
    BY <2>1, <2>2
<1>2. ASSUME NEW n \in 0 .. 9, NEW b \in data[n]
      PROVE  n \in {0, 7, 8} \/ (n = 3 /\ b = 6)
  <2>1. << n, b >> \in Events!StateBits \/ n = 8
    BY <1>1, <1>2
  <2> QED
    BY <2>1 DEF Events!StateBits
<1>3. /\ data[1] = {} /\ data[2] = {} /\ data[4] = {} /\ data[5] = {} /\ data[6] = {}
      /\ data[9] = {}
  BY <1>2
<1>4. Events!AmbientEvents(data) = {}
  <2>1. \A b \in data[3] : b = 6
    BY <1>2
  <2> QED
    BY <2>1 DEF Events!AmbientEvents
<1>5. \A k \in 0 .. 6 : k \notin Events!ProblemCode(data)
  BY <1>3, <1>4, ProblemBits
<1> QED
  BY <1>5, ProblemBits

LEMMA TemperatureCode ==
  ASSUME NEW data \in Events!EventBytes
  PROVE  ({ b + 8 : b \in data[2] } \cup data[3]) \ {6, 7} # {}
           <=> data[2] # {} \/ Events!AmbientEvents(data) # {}
<1>1. ASSUME NEW b \in data[2] PROVE b + 8 \notin {6, 7}
  <2>1. b \in 0 .. 7
    BY <1>1, EventBits
  <2> QED
    BY <2>1
<1>2. ASSUME NEW b \in data[3] PROVE b \notin {6, 7} <=> b \in 0 .. 5
  <2>1. b \in 0 .. 7
    BY <1>2, EventBits
  <2> QED
    BY <2>1
<1>3. Events!AmbientEvents(data) # {} <=> \E b \in data[3] : b \notin {6, 7}
  BY <1>2 DEF Events!AmbientEvents
<1> QED
  BY <1>1, <1>3

LEMMA EventsDecoded ==
  ASSUME StageInv, stage = "events decoded"
  PROVE  /\ input \in Events!EventBytes
         /\ output = Events!PublishedEvents(input)
BY EventAssumption DEF StageInv, EventsKnown

\* decode_eic_data_ reports a problem for every alarm bit of the tables outside TB08, and
\* none for the states of normal operation.
LEMMA AlarmsAreReported == Spec => []AlarmsAreProblems
<1>1. StageInv => AlarmsAreProblems
  <2> SUFFICES ASSUME StageInv, stage = "events decoded" PROVE AlarmsAreProblems
    BY DEF AlarmsAreProblems
  <2> DEFINE alarms == Events!Alarms(input) \ Events!BatteryStateAlarms(input)
  <2>1. input \in Events!EventBytes /\ output = Events!PublishedEvents(input)
    BY EventsDecoded
  <2>2. /\ output.problem_code = Events!ProblemCode(input)
        /\ output.problem_text = IF Events!ProblemCode(input) # {}
                                 THEN "Problem detected" ELSE "No problems"
    BY <2>1 DEF Events!PublishedEvents
  <2>3. alarms # {} => Events!ProblemCode(input) # {}
    BY <2>1, AlarmsAreCounted DEF Events!Alarms, Events!BatteryStateAlarms
  <2>4. alarms = {} /\ Events!OnlyDefined(input) => Events!ProblemCode(input) = {}
    BY <2>1, StatesAreNot
  <2> QED
    BY <2>2, <2>3, <2>4 DEF AlarmsAreProblems
<1> QED
  BY <1>1, StageInvariant, PTL

\* The protection flags and the bits of the problem code agree.
LEMMA FlagsTellTheCode == Spec => []FlagsAgreeWithCode
<1>1. StageInv => FlagsAgreeWithCode
  <2> SUFFICES ASSUME StageInv, stage = "events decoded" PROVE FlagsAgreeWithCode
    BY DEF FlagsAgreeWithCode
  <2>1. input \in Events!EventBytes /\ output = Events!PublishedEvents(input)
    BY EventsDecoded
  <2>2. /\ output.problem_code = Events!ProblemCode(input)
        /\ output.voltage_protection = (input[1] # {})
        /\ output.temperature_protection = (input[2] # {} \/ Events!AmbientEvents(input) # {})
        /\ output.current_protection = (input[4] # {} \/ input[5] # {})
        /\ output.system_fault = (input[9] # {})
        /\ output.temperature_event_code = { b + 8 : b \in input[2] } \cup input[3]
    BY <2>1 DEF Events!PublishedEvents, Events!CurrentProtection
  <2>3. output.temperature_event_code \ {6, 7} # {} <=> output.temperature_protection
    BY <2>1, <2>2, TemperatureCode
  <2>4. /\ output.voltage_protection <=> 0 \in output.problem_code
        /\ output.temperature_protection <=> output.problem_code \cap {1, 2} # {}
        /\ output.current_protection <=> output.problem_code \cap {3, 4} # {}
        /\ output.system_fault <=> 6 \in output.problem_code
    BY <2>1, <2>2, ProblemBits
  <2> QED
    BY <2>3, <2>4 DEF FlagsAgreeWithCode
<1> QED
  BY <1>1, StageInvariant, PTL

\* For all ten event bytes, decode_eic_data_ reports the alarms of the tables TB02 to TB06,
\* TB15 and TB16 and nothing else, by text, code and flags alike; of TB08 it reports none.
THEOREM EventsCorrect == Spec => []EventsAsDocumented
BY AlarmsAreReported, FlagsTellTheCode, PTL DEF EventsAsDocumented

\* The decoders of the manufacturer information, the settings and the parallel data read
\* inside the frame, each byte once, and of a frame as recorded every alarm event.
THEOREM AnswersAreReadInside == Spec => []FieldsAreInFrame
<1>1. StageInv => FieldsAreInFrame
  <2> SUFFICES ASSUME StageInv PROVE FieldsAreInFrame
    OBVIOUS
  <2>1. ASSUME stage = "answer decoded"
        PROVE  /\ input \in AnswerInputs /\ Answers!LongEnough(input)
               /\ output = Answers!FieldsOf(input)
    BY <2>1 DEF StageInv, AnswersKnown
  <2>2. ASSUME stage = "answer dropped", input.size = Answers!RecordedSize(input)
        PROVE  input.function = "parallel" /\ input.alarms < 8
    <3>1. input \in AnswerInputs /\ ~Answers!LongEnough(input)
      BY <2>2 DEF StageInv, AnswersKnown
    <3>2. input.function \in {"manufacturer", "settings", "parallel"}
      BY <3>1, AnswerType
    <3>3. input.function = "parallel"
      <4>1. ASSUME input.function = "manufacturer" PROVE FALSE
        <5>1. input.size = 46 /\ ~(input.size >= 45)
          BY <2>2, <3>1, <4>1 DEF Answers!LongEnough, Answers!RecordedSize
        <5> QED
          BY <5>1
      <4>2. ASSUME input.function = "settings" PROVE FALSE
        <5>1. input.size = 179 /\ ~(input.size >= 145)
          BY <2>2, <3>1, <4>2 DEF Answers!LongEnough, Answers!RecordedSize
        <5> QED
          BY <5>1
      <4> QED
        BY <3>2, <4>1, <4>2
    <3>4. PICK alarms \in Nat : alarms = input.alarms
      BY <3>1, <3>3, AnswerType
    <3>5. ~(50 + alarms >= 58)
      BY <2>2, <3>1, <3>3, <3>4 DEF Answers!LongEnough, Answers!RecordedSize
    <3> QED
      BY <3>3, <3>4, <3>5
  <2> QED
    BY <2>1, <2>2, AnswerInside DEF FieldsAreInFrame
<1> QED
  BY <1>1, StageInvariant, PTL

-----------------------------------------------------------------------------
(* The texts of an answer. *)

\* Trimmed leaves the text without the blanks behind it.
LEMMA TrimmedText ==
  ASSUME NEW field \in Seq(0 .. 255)
  PROVE  LET text == Answers!Trimmed(field)
         IN /\ text = SubSeq(field, 1, Len(text))
            /\ text # << >> => text[Len(text)] # Answers!Blank
            /\ \A k \in Len(text) + 1 .. Len(field) : field[k] = Answers!Blank
<1> DEFINE others == { n \in 1 .. Len(field) : field[n] # Answers!Blank } \cup {0}
           last == CHOOSE n \in others : \A m \in others : m <= n
           text == Answers!Trimmed(field)
<1>1. Len(field) \in Nat /\ others \subseteq 0 .. Len(field) /\ others # {}
  OBVIOUS
<1>2. last \in others /\ \A m \in others : m <= last
  <2>1. \E n \in others : \A m \in others : m <= n
    BY <1>1, Greatest
  <2> QED
    BY <2>1
<1>3. text = SubSeq(field, 1, last)
  BY DEF Answers!Trimmed
<1>4. last \in 0 .. Len(field)
  BY <1>1, <1>2
<1> HIDE DEF last, text
<1>5. Len(text) = last /\ \A k \in 1 .. last : text[k] = field[k]
  BY <1>1, <1>3, <1>4
<1>6. text = SubSeq(field, 1, Len(text))
  BY <1>3, <1>5
<1>7. ASSUME text # << >> PROVE text[Len(text)] # Answers!Blank
  <2>1. last # 0
    BY <1>1, <1>3, <1>4, <1>5, <1>7
  <2>2. last \in { n \in 1 .. Len(field) : field[n] # Answers!Blank }
    BY <1>2, <2>1
  <2>3. last \in 1 .. last
    BY <2>2
  <2> QED
    BY <1>5, <2>2, <2>3
<1>8. ASSUME NEW k \in Len(text) + 1 .. Len(field) PROVE field[k] = Answers!Blank
  BY <1>1, <1>2, <1>4, <1>5
<1> QED
  BY <1>6, <1>7, <1>8 DEF text

LEMMA TextType ==
  ASSUME NEW i \in AnswerInputs, i.function = "manufacturer", NEW n \in DOMAIN i.texts
  PROVE  i.texts[n] \in Seq(0 .. 255)
<1> DEFINE S == Seq(0 .. 255)
<1>1. i \in Answers!V2Frame
  BY AnswerAssumption
<1>2. i \in [function : {"manufacturer"}, size : 10 .. 200, texts : Answers!Texts]
  BY <1>1 DEF Answers!V2Frame
<1>3. i.texts \in Seq(S)
  BY <1>2 DEF Answers!Texts
<1> HIDE DEF S
<1>4. PICK t \in Seq(S) : t = i.texts
  BY <1>3
<1>5. DOMAIN t = 1 .. Len(t) /\ \A k \in 1 .. Len(t) : t[k] \in S
  OBVIOUS
<1> QED
  BY <1>4, <1>5 DEF S

\* Every text of the manufacturer information is published without the blanks that fill its
\* field, and with those inside.
THEOREM TextsCorrect == Spec => []OnlyPaddingIsTrimmed
<1>1. StageInv => OnlyPaddingIsTrimmed
  <2> SUFFICES ASSUME StageInv, stage = "texts published", NEW n \in DOMAIN input.texts
               PROVE  LET text == output[n]
                          field == input.texts[n]
                      IN /\ text = SubSeq(field, 1, Len(text))
                         /\ text # << >> => text[Len(text)] # Answers!Blank
                         /\ \A k \in Len(text) + 1 .. Len(field) : field[k] = Answers!Blank
    BY DEF OnlyPaddingIsTrimmed
  <2>1. input \in AnswerInputs /\ input.function = "manufacturer"
        /\ output[n] = Answers!Trimmed(input.texts[n])
    BY DEF StageInv, TextsKnown
  <2>2. input.texts[n] \in Seq(0 .. 255)
    BY <2>1, TextType
  <2> QED
    BY Zenon, <2>1, <2>2, TrimmedText
<1> QED
  BY <1>1, StageInvariant, PTL

-----------------------------------------------------------------------------
(* The register blocks. *)

\* The field a decoder reads for a row of its table.
Width(reader) == IF reader \in {"u32", "s32"} THEN 4 ELSE 2

Matches(block, row, f) ==
  /\ row[2] \in Nat /\ Registers!FirstRegister[block] \in Nat
  /\ f[1] = row[1] /\ f[2] = 2 * (row[2] - Registers!FirstRegister[block])
    /\ f[4] = Registers!FactorOf(row[4])
  /\ f[2] \in Nat /\ f[2] + Width(f[3]) <= Registers!BlockSize[block]
  /\ \/ row[3] = "UINT16" /\ f[3] = "u16"
     \/ row[3] = "UINT16" /\ f[3] \in {"s16", "|s16|"} /\ row[1] \in Registers!ReadAsSigned
     \/ row[3] = "INT16" /\ f[3] = "s16"
     \/ row[3] = "UINT32" /\ f[3] = "u32"
     \/ row[3] = "INT32" /\ f[3] = "s32"

\* Each row of the tables that is a number has a field of the decoder: its place is that of
\* the register, inside the answer, its reader the data type and its factor the unit.
LEMMA EiaRows ==
  \A row \in Registers!Rows["EIA"] :
    row[3] # "ASCII" => \E f \in Registers!EiaFields : Matches("EIA", row, f)
BY SMTT(60) DEF Registers!Rows, Registers!EiaFields, Matches, Width, Registers!FactorOf,
   Registers!FirstRegister, Registers!BlockSize

LEMMA EibRows ==
  \A row \in Registers!Rows["EIB"] :
    row[3] # "ASCII" => \E f \in Registers!EibFields : Matches("EIB", row, f)
BY SMTT(60) DEF Registers!Rows, Registers!EibFields, Matches, Width, Registers!FactorOf,
   Registers!FirstRegister, Registers!BlockSize, Registers!ReadAsSigned

LEMMA PctRows ==
  \A row \in Registers!Rows["PCT"] :
    row[3] # "ASCII" => \E f \in Registers!PctFields : Matches("PCT", row, f)
BY SMTT(60) DEF Registers!Rows, Registers!PctFields, Matches, Width, Registers!FactorOf,
   Registers!FirstRegister, Registers!BlockSize

LEMMA Spa1Rows ==
  \A row \in Registers!Rows["SPA1"] :
    row[3] # "ASCII" => \E f \in Registers!Spa1Fields : Matches("SPA1", row, f)
BY SMTT(60) DEF Registers!Rows, Registers!Spa1Fields, Registers!Parameter, Matches, Width,
   Registers!FactorOf, Registers!FirstRegister, Registers!BlockSize, Registers!ReadAsSigned

LEMMA Spa2Rows ==
  \A row \in Registers!Rows["SPA2"] :
    row[3] # "ASCII" => \E f \in Registers!Spa2Fields : Matches("SPA2", row, f)
BY SMTT(60) DEF Registers!Rows, Registers!Spa2Fields, Registers!Parameter, Matches, Width,
   Registers!FactorOf, Registers!FirstRegister, Registers!BlockSize, Registers!ReadAsSigned

LEMMA PiaRows ==
  \A row \in Registers!Rows["PIA"] :
    row[3] # "ASCII" => \E f \in Registers!PiaFields : Matches("PIA", row, f)
BY SMTT(60) DEF Registers!Rows, Registers!PiaFields, Matches, Width, Registers!FactorOf,
   Registers!FirstRegister, Registers!BlockSize

LEMMA PibRows ==
  \A row \in Registers!Rows["PIB"] :
    row[3] # "ASCII" => \E f \in Registers!PibFields : Matches("PIB", row, f)
<1> SUFFICES ASSUME NEW row \in Registers!Rows["PIB"]
             PROVE  \E f \in Registers!PibFields : Matches("PIB", row, f)
  OBVIOUS
<1> USE DEF Width, Registers!FactorOf, Registers!FirstRegister, Registers!BlockSize
<1>1. ASSUME NEW c \in 1 .. 16,
  row = << <<"pack_cell_voltage", c>>, \h1100 + c - 1, "UINT16", "1mV" >>
      PROVE  \E f \in Registers!PibFields : Matches("PIB", row, f)
  <2> DEFINE f == << <<"pack_cell_voltage", c>>, 2 * (c - 1), "u16", "0.001" >>
  <2>1. f \in Registers!PibFields
    BY DEF Registers!PibFields
  <2>2. Matches("PIB", row, f)
    BY <1>1 DEF Matches
  <2> QED
    BY <2>1, <2>2
<1>2. ASSUME NEW t \in 1 .. 4,
  row = << <<"pack_temperature", t>>, \h1110 + t - 1, "UINT16", "0.1K" >>
      PROVE  \E f \in Registers!PibFields : Matches("PIB", row, f)
  <2> DEFINE f == << <<"pack_temperature", t>>, 32 + 2 * (t - 1), "u16", "celsius" >>
  <2>1. f \in Registers!PibFields
    BY DEF Registers!PibFields
  <2>2. Matches("PIB", row, f)
    BY <1>2 DEF Matches
  <2> QED
    BY <2>1, <2>2
<1>3. CASE row = << <<"ambient_temperature", 1>>, \h1118, "UINT16", "0.1K" >>
  <2> DEFINE f == << <<"ambient_temperature", 1>>, 48, "u16", "celsius" >>
  <2>1. f \in Registers!PibFields
    BY DEF Registers!PibFields
  <2>2. Matches("PIB", row, f)
    BY <1>3 DEF Matches
  <2> QED
    BY <2>1, <2>2
<1>4. CASE row = << <<"mosfet_temperature", 1>>, \h1119, "UINT16", "0.1K" >>
  <2> DEFINE f == << <<"mosfet_temperature", 1>>, 50, "u16", "celsius" >>
  <2>1. f \in Registers!PibFields
    BY DEF Registers!PibFields
  <2>2. Matches("PIB", row, f)
    BY <1>4 DEF Matches
  <2> QED
    BY <2>1, <2>2
<1>5. \/ \E c \in 1 .. 16 :
           row = << <<"pack_cell_voltage", c>>, \h1100 + c - 1, "UINT16", "1mV" >>
      \/ \E t \in 1 .. 4 : row = << <<"pack_temperature", t>>, \h1110 + t - 1, "UINT16", "0.1K" >>
      \/ row = << <<"ambient_temperature", 1>>, \h1118, "UINT16", "0.1K" >>
      \/ row = << <<"mosfet_temperature", 1>>, \h1119, "UINT16", "0.1K" >>
  BY DEF Registers!Rows
<1> QED
  BY <1>1, <1>2, <1>3, <1>4, <1>5

LEMMA RowsHaveFields ==
  ASSUME NEW block \in Registers!RegisterBlocks
  PROVE  \A row \in Registers!Rows[block] : row[3] # "ASCII"
    => \E f \in Registers!Fields(block) : Matches(block, row, f)
<1>1. block \in {"EIA", "EIB", "VIA", "PCT", "SPA1", "SPA2", "PIA", "PIB"}
  BY DEF Registers!RegisterBlocks, Registers!BlockSize
<1>2. \A row \in Registers!Rows["VIA"] : row[3] = "ASCII"
  BY DEF Registers!Rows
<1> QED
  BY <1>1, <1>2, EiaRows, EibRows, PctRows, Spa1Rows, Spa2Rows, PiaRows,
     PibRows DEF Registers!Fields

\* A word of two bytes is a natural.
LEMMA WordType ==
  ASSUME NEW data, NEW i \in Nat, data[i] \in 0 .. 255, data[i + 1] \in 0 .. 255
  PROVE  Registers!Word(data, i) \in Nat
<1>1. PICK a \in 0 .. 255, b \in 0 .. 255 : a = data[i] /\ b = data[i + 1]
  OBVIOUS
<1>2. Registers!Word(data, i) = 256 * a + b
  BY <1>1 DEF Registers!Word
<1>3. 256 * a + b \in Nat
  OBVIOUS
<1> QED
  BY <1>2, <1>3

\* The field reads what the register shows, except above 32767 where it is read as signed.
LEMMA FieldShows ==
  ASSUME NEW block \in Registers!RegisterBlocks, Registers!BlockSize[block] \in Nat,
         NEW data, \A n \in 0 .. Registers!BlockSize[block] - 1 : data[n] \in 0 .. 255,
         NEW row, NEW f, Matches(block, row, f)
  PROVE  \/ Registers!Read(data, f[3], f[2]) = Registers!Shown(block, data, row)
         \/ row[1] \in Registers!ReadAsSigned /\ Registers!Shown(block, data, row) >= 32768
<1>1. PICK i \in Nat, addr \in Nat, first \in Nat :
        i = f[2] /\ addr = row[2] /\ first = Registers!FirstRegister[block]
          /\ i = 2 * (addr - first)
        /\ i + Width(f[3]) <= Registers!BlockSize[block]
  BY DEF Matches
<1> DEFINE low == Registers!Word(data, i)
           high == Registers!Word(data, i + 2)
<1>2. Registers!RegisterAt(block, data, row[2]) = low
  BY <1>1 DEF Registers!RegisterAt, Registers!Word
<1>3. Registers!RegisterAt(block, data, row[2] + 1) = high
  <2>1. 2 * ((addr + 1) - first) = i + 2
    BY <1>1
  <2> QED
    BY <1>1, <2>1 DEF Registers!RegisterAt, Registers!Word
<1>4. i + 2 <= Registers!BlockSize[block]
  BY <1>1 DEF Width
<1>5. low \in Nat
  <2>1. data[i] \in 0 .. 255 /\ data[i + 1] \in 0 .. 255
    BY <1>4
  <2> QED
    BY <2>1, WordType
<1>6. f[3] \in {"u32", "s32"} => high \in Nat
  <2> SUFFICES ASSUME f[3] \in {"u32", "s32"} PROVE high \in Nat
    OBVIOUS
  <2>1. i + 4 <= Registers!BlockSize[block]
    BY <1>1 DEF Width
  <2>2. data[i + 2] \in 0 .. 255 /\ data[(i + 2) + 1] \in 0 .. 255
    BY <2>1
  <2> QED
    <3>1. i + 2 \in Nat
      OBVIOUS
    <3> QED
      BY Zenon, <2>2, <3>1, WordType
<1> HIDE DEF low, high
<1>7. CASE row[3] = "UINT16" /\ f[3] = "u16"
  BY <1>1, <1>2, <1>7 DEF Registers!Read, Registers!Shown, low
<1>8. CASE row[3] = "UINT16" /\ f[3] \in {"s16", "|s16|"} /\ row[1] \in Registers!ReadAsSigned
  <2>1. Registers!Shown(block, data, row) = low
    BY <1>2, <1>8 DEF Registers!Shown
  <2>2. low < 32768 => Registers!Signed(low) = low
    /\ Registers!Magnitude(Registers!Signed(low)) = low
    BY <1>5 DEF Registers!Signed, Registers!Magnitude
  <2>3. Registers!Read(data, f[3], f[2]) \in
          {Registers!Signed(low), Registers!Magnitude(Registers!Signed(low))}
    BY <1>1, <1>8 DEF Registers!Read, low
  <2> QED
    BY <1>5, <1>8, <2>1, <2>2, <2>3
<1>9. CASE row[3] = "INT16" /\ f[3] = "s16"
  <2>1. Registers!Shown(block, data, row) = Registers!TwosComplement(low, 32768)
    BY <1>2, <1>9 DEF Registers!Shown
  <2>2. Registers!Read(data, f[3], f[2]) = Registers!Signed(low)
    BY <1>1, <1>9 DEF Registers!Read, low
  <2> QED
    BY <1>5, <2>1, <2>2 DEF Registers!Signed, Registers!TwosComplement
<1>10. CASE row[3] = "UINT32" /\ f[3] = "u32"
  <2>1. Registers!Shown(block, data, row) = << high, low >>
    BY <1>2, <1>3, <1>10 DEF Registers!Shown
  <2>2. Registers!Read(data, f[3], f[2]) = << high, low >>
    BY <1>1, <1>10 DEF Registers!Read, Registers!Long, low, high
  <2> QED
    BY <2>1, <2>2
<1>11. CASE row[3] = "INT32" /\ f[3] = "s32"
  <2>1. Registers!Shown(block, data, row) = Registers!TwosComplement(high, 32768) * 65536 + low
    BY <1>2, <1>3, <1>11 DEF Registers!Shown
  <2>2. Registers!Read(data, f[3], f[2]) = 65536 * Registers!Signed(high) + low
    BY <1>1, <1>11 DEF Registers!Read, Registers!SignedLong, low, high
  <2>3. Registers!TwosComplement(high, 32768) = Registers!Signed(high)
    /\ Registers!Signed(high) \in Int
    BY <1>6, <1>11 DEF Registers!TwosComplement, Registers!Signed
  <2> QED
    BY <1>5, <2>1, <2>2, <2>3
<1> QED
  BY <1>7, <1>8, <1>9, <1>10, <1>11 DEF Matches

TextMatches(block, row, t) ==
  /\ row[2] \in Nat /\ Registers!FirstRegister[block] \in Nat
  /\ t[1] = row[1] /\ t[2] = 2 * (row[2] - Registers!FirstRegister[block]) /\ t[2] \in Nat
  /\ t[3] = row[4] /\ t[3] \in Nat

\* Each row that is a text has a field with its place and its length.
LEMMA ViaTextRows ==
  \A row \in Registers!Rows["VIA"] : \E t \in Registers!ViaTexts : TextMatches("VIA", row, t)
BY SMTT(60) DEF Registers!Rows, Registers!ViaTexts, TextMatches, Registers!FirstRegister

LEMMA PctTextRows ==
  \A row \in Registers!Rows["PCT"] : row[3] = "ASCII"
    => \E t \in Registers!PctTexts : TextMatches("PCT", row, t)
BY SMTT(60) DEF Registers!Rows, Registers!PctTexts, TextMatches, Registers!FirstRegister

LEMMA NoOtherTexts ==
  \A block \in {"EIA", "EIB", "SPA1", "SPA2", "PIA"} :
    \A row \in Registers!Rows[block] : row[3] # "ASCII"
<1>1. \A row \in Registers!Rows["EIA"] : row[3] # "ASCII"
  BY DEF Registers!Rows
<1>2. \A row \in Registers!Rows["EIB"] : row[3] # "ASCII"
  BY DEF Registers!Rows
<1>3. \A row \in Registers!Rows["SPA1"] : row[3] # "ASCII"
  BY DEF Registers!Rows
<1>4. \A row \in Registers!Rows["SPA2"] : row[3] # "ASCII"
  BY DEF Registers!Rows
<1>5. \A row \in Registers!Rows["PIA"] : row[3] # "ASCII"
  BY DEF Registers!Rows
<1> QED
  BY <1>1, <1>2, <1>3, <1>4, <1>5

LEMMA NoPibTexts == \A row \in Registers!Rows["PIB"] : row[3] # "ASCII"
BY DEF Registers!Rows

LEMMA TextsHaveFields ==
  ASSUME NEW block \in Registers!RegisterBlocks
  PROVE  \A row \in Registers!Rows[block] : row[3] = "ASCII"
    => \E t \in Registers!Texts(block) : TextMatches(block, row, t)
<1>1. block \in {"EIA", "EIB", "VIA", "PCT", "SPA1", "SPA2", "PIA", "PIB"}
  BY DEF Registers!RegisterBlocks, Registers!BlockSize
<1> QED
  BY <1>1, ViaTextRows, PctTextRows, NoOtherTexts, NoPibTexts DEF Registers!Texts

\* extract_string reads the field up to its first zero.
LEMMA TextFills ==
  ASSUME NEW block, NEW data, NEW row, NEW t, TextMatches(block, row, t)
  PROVE  Registers!FillsField(block, data, row, Registers!Text(data, t[2], t[3]))
<1>1. PICK i \in Nat, len \in Nat :
        i = t[2] /\ len = t[3] /\ len = row[4]
          /\ i = 2 * (row[2] - Registers!FirstRegister[block])
  BY DEF TextMatches
<1> DEFINE ends == { n \in 0 .. len - 1 : data[i + n] = 0 } \cup { len }
           cut == CHOOSE n \in ends : \A m \in ends : n <= m
           text == Registers!Text(data, i, len)
<1>2. cut \in ends /\ \A m \in ends : cut <= m
  <2>1. ends \subseteq Nat /\ ends # {}
    OBVIOUS
  <2>2. \E n \in ends : \A m \in ends : n <= m
    BY <2>1, Smallest
  <2> QED
    BY <2>2
<1>3. text = [n \in 1 .. cut |-> data[i + n - 1]]
  BY DEF Registers!Text
<1>4. cut \in 0 .. len
  BY <1>2
<1> HIDE DEF cut, text
<1>5. Len(text) = cut /\ \A n \in 1 .. cut : text[n] = data[i + n - 1]
  BY <1>3, <1>4
<1>6. ASSUME NEW n \in 1 .. cut PROVE data[i + n - 1] # 0
  <2>1. n - 1 \in 0 .. len - 1 /\ n - 1 \notin ends
    BY <1>2, <1>4
  <2>2. data[i + (n - 1)] # 0
    BY <2>1
  <2>3. i + (n - 1) = i + n - 1
    BY <1>4
  <2> QED
    BY <2>2, <2>3
<1>7. cut < len => data[i + cut] = 0
  BY <1>2, <1>4
<1> QED
  BY <1>1, <1>4, <1>5, <1>6, <1>7 DEF Registers!FillsField, text

\* No two values of a block have one name.
LEMMA EiaUnique == \A f, g \in Registers!EiaFields : f[1] = g[1] => f = g
BY SMTT(60) DEF Registers!EiaFields

LEMMA EibUnique == \A f, g \in Registers!EibFields : f[1] = g[1] => f = g
BY SMTT(60) DEF Registers!EibFields

LEMMA PctUnique == \A f, g \in Registers!PctFields : f[1] = g[1] => f = g
BY SMTT(60) DEF Registers!PctFields

LEMMA Spa1Unique == \A f, g \in Registers!Spa1Fields : f[1] = g[1] => f = g
BY SMTT(60) DEF Registers!Spa1Fields, Registers!Parameter

LEMMA Spa2Unique == \A f, g \in Registers!Spa2Fields : f[1] = g[1] => f = g
BY SMTT(60) DEF Registers!Spa2Fields, Registers!Parameter

LEMMA PiaUnique == \A f, g \in Registers!PiaFields : f[1] = g[1] => f = g
BY SMTT(60) DEF Registers!PiaFields

LEMMA PibUnique == \A f, g \in Registers!PibFields : f[1] = g[1] => f = g
BY SMTT(60) DEF Registers!PibFields

LEMMA ViaUnique == \A f, g \in Registers!ViaTexts : f[1] = g[1] => f = g
BY SMTT(60) DEF Registers!ViaTexts

LEMMA PctTextUnique == \A f, g \in Registers!PctTexts : f[1] = g[1] => f = g
BY SMTT(60) DEF Registers!PctTexts

LEMMA PctApart == \A f \in Registers!PctFields, t \in Registers!PctTexts : f[1] # t[1]
BY SMTT(60) DEF Registers!PctFields, Registers!PctTexts

LEMMA FieldsUnique ==
  ASSUME NEW block \in Registers!RegisterBlocks
  PROVE  /\ \A f, g \in Registers!Fields(block) : f[1] = g[1] => f = g
         /\ \A f, g \in Registers!Texts(block) : f[1] = g[1] => f = g
         /\ \A f \in Registers!Fields(block), t \in Registers!Texts(block) : f[1] # t[1]
<1>1. block \in {"EIA", "EIB", "VIA", "PCT", "SPA1", "SPA2", "PIA", "PIB"}
  BY DEF Registers!RegisterBlocks, Registers!BlockSize
<1> QED
  BY <1>1, EiaUnique, EibUnique, PctUnique, Spa1Unique, Spa2Unique, PiaUnique, PibUnique,
     ViaUnique,
     PctTextUnique, PctApart DEF Registers!Fields, Registers!Texts

\* The names of the values decode_eia_data_ computes.
EiaNames ==
  { "power", "charging_power", "discharging_power", "charging", "discharging", "pack_count",
    "cycle_capacity", "runtime" }

\* The values decode_eia_data_ computes have names of their own, and there is a runtime
\* only of a battery that is being emptied.
LEMMA EiaDerivedUnique ==
  ASSUME NEW data
  PROVE  /\ \A v \in Registers!EiaDerived(data) : v[1] \in EiaNames
         /\ \A v, w \in Registers!EiaDerived(data) : v[1] = w[1] => v = w
         /\ \A v \in Registers!EiaDerived(data) :
              v[1] = "runtime" =>
                /\ Registers!Discharging(Registers!SignedLong(data, 4))
                /\ v[2] = << Registers!Long(data, 8), -Registers!SignedLong(data, 4) >>
<1> DEFINE current == Registers!SignedLong(data, 4)
           voltage == Registers!Long(data, 0)
           packs == Registers!Word(data, 44)
           power == <<"power", << voltage, current >>, "0.001">>
           up == << "charging_power",
                    << voltage, IF Registers!Charging(current) THEN current ELSE 0 >>, "0.001" >>
           down == << "discharging_power",
                      << voltage, IF Registers!Discharging(current) THEN -current ELSE 0 >>,
                      "0.001" >>
           in == << "charging", Registers!Charging(current), "" >>
           out == << "discharging", Registers!Discharging(current), "" >>
           count == <<"pack_count", IF packs <= 16 THEN packs ELSE 16, "1">>
           cycle == <<"cycle_capacity",
                      << Registers!Long(data, 16), Registers!Word(data, 46) >>, "10">>
           left == << "runtime", << Registers!Long(data, 8), -current >>, "0.1" >>
<1>1. ASSUME NEW v \in Registers!EiaDerived(data)
      PROVE  \/ v = power \/ v = up \/ v = down \/ v = in \/ v = out \/ v = count \/ v = cycle
             \/ v = left /\ Registers!Discharging(current)
  <2> HIDE DEF current, voltage
  <2> QED
    BY Zenon DEF Registers!EiaDerived, current, voltage
<1>2. /\ power[1] = "power" /\ up[1] = "charging_power" /\ down[1] = "discharging_power"
      /\ in[1] = "charging" /\ out[1] = "discharging" /\ count[1] = "pack_count"
      /\ cycle[1] = "cycle_capacity" /\ left[1] = "runtime"
  OBVIOUS
<1>3. left[2] = << Registers!Long(data, 8), -Registers!SignedLong(data, 4) >>
  OBVIOUS
<1> HIDE DEF power, up, down, in, out, count, cycle, left
<1>4. \A v \in Registers!EiaDerived(data) : v[1] \in EiaNames
  BY <1>1, <1>2 DEF EiaNames
<1>5. \A v, w \in Registers!EiaDerived(data) : v[1] = w[1] => v = w
  BY <1>1, <1>2
<1>6. \A v \in Registers!EiaDerived(data) : v[1] = "runtime" => v = left
  /\ Registers!Discharging(current)
  BY <1>1, <1>2
<1> QED
  BY <1>3, <1>4, <1>5, <1>6

\* No computed value has the name of a register.
LEMMA EiaApart == \A f \in Registers!EiaFields : f[1] \notin EiaNames
BY DEF Registers!EiaFields, EiaNames

LEMMA EibApart == \A f \in Registers!EibFields : f[1] # "delta_voltage"
BY DEF Registers!EibFields

LEMMA DerivedUnique ==
  ASSUME NEW block \in Registers!RegisterBlocks, NEW data
  PROVE  /\ \A v, w \in Registers!Derived(block, data) : v[1] = w[1] => v = w
         /\ \A v \in Registers!Derived(block, data), f \in Registers!Fields(block) : v[1] # f[1]
         /\ Registers!Texts(block) # {} => Registers!Derived(block, data) = {}
<1>1. CASE block = "EIA"
  BY <1>1, EiaDerivedUnique, EiaApart DEF Registers!Derived, Registers!Fields, Registers!Texts
<1>2. CASE block = "EIB"
  BY <1>2, EibApart DEF Registers!Derived, Registers!EibDerived, Registers!Fields, Registers!Texts
<1>3. CASE block \notin {"EIA", "EIB"}
  BY <1>3 DEF Registers!Derived
<1> QED
  BY <1>1, <1>2, <1>3

\* No sensor gets two values.
LEMMA PublishedUnique ==
  ASSUME NEW block \in Registers!RegisterBlocks, NEW data,
         NEW published, published = Registers!PublishedOf(block, data)
  PROVE  \A v, w \in published : v[1] = w[1] => v = w
<1> DEFINE F == { << f[1], Registers!Read(data, f[3], f[2]), f[4] >> :
                    f \in Registers!Fields(block) }
           T == { << t[1], Registers!Text(data, t[2], t[3]), "" >> :
                    t \in Registers!Texts(block) }
           D == Registers!Derived(block, data)
<1>1. published = F \cup T \cup D
  BY DEF Registers!PublishedOf
<1>2. \A v \in F : \E f \in Registers!Fields(block) : v[1] = f[1]
  /\ v = << f[1], Registers!Read(data, f[3], f[2]), f[4] >>
  OBVIOUS
<1>3. \A v \in T : \E t \in Registers!Texts(block) : v[1] = t[1]
  /\ v = << t[1], Registers!Text(data, t[2], t[3]), "" >>
  <2> SUFFICES ASSUME NEW v \in T
               PROVE  \E t \in Registers!Texts(block) : v[1] = t[1]
                 /\ v = << t[1], Registers!Text(data, t[2], t[3]), "" >>
    OBVIOUS
  <2>1. PICK t \in Registers!Texts(block) : v = << t[1], Registers!Text(data, t[2], t[3]), "" >>
    OBVIOUS
  <2>2. v[1] = t[1]
    BY <2>1
  <2> QED
    BY <2>1, <2>2
<1>4. \A v, w \in F : v[1] = w[1] => v = w
  BY <1>2, FieldsUnique
<1>5. \A v, w \in T : v[1] = w[1] => v = w
  BY <1>3, FieldsUnique
<1>6. \A v \in F, w \in T : v[1] # w[1]
  <2> SUFFICES ASSUME NEW v \in F, NEW w \in T PROVE v[1] # w[1]
    OBVIOUS
  <2>1. PICK f \in Registers!Fields(block) : v[1] = f[1]
    BY <1>2
  <2>2. PICK t \in Registers!Texts(block) : w[1] = t[1]
    BY <1>3
  <2> QED
    BY <2>1, <2>2, FieldsUnique
<1>7. \A v \in D : (\A w \in D : v[1] = w[1] => v = w) /\ (\A w \in F : v[1] # w[1]) /\ T = {}
  <2> SUFFICES ASSUME NEW v \in D
               PROVE  (\A w \in D : v[1] = w[1] => v = w) /\ (\A w \in F : v[1] # w[1]) /\ T = {}
    OBVIOUS
  <2>1. \A w \in D : v[1] = w[1] => v = w
    BY DerivedUnique
  <2>2. ASSUME NEW w \in F PROVE v[1] # w[1]
    <3>1. PICK f \in Registers!Fields(block) : w[1] = f[1]
      BY <1>2
    <3> QED
      BY <3>1, DerivedUnique
  <2>3. T = {}
    BY DerivedUnique
  <2> QED
    BY <2>1, <2>2, <2>3
<1> HIDE DEF F, T, D
<1> QED
  BY <1>1, <1>4, <1>5, <1>6, <1>7

\* A value is found by the name of its sensor.
LEMMA ValueOfSensor ==
  ASSUME NEW published, \A v, w \in published : v[1] = w[1] => v = w, NEW v \in published
  PROVE  (CHOOSE w \in published : w[1] = v[1]) = v
OBVIOUS

\* The runtime is computed, not read from a register.
LEMMA RuntimeIsDerived ==
  ASSUME NEW data, NEW v \in Registers!PublishedOf("EIA", data), v[1] = "runtime"
  PROVE  /\ Registers!Discharging(Registers!SignedLong(data, 4))
         /\ v[2] = << Registers!Long(data, 8), -Registers!SignedLong(data, 4) >>
<1>1. v \in { << f[1], Registers!Read(data, f[3], f[2]), f[4] >> : f \in Registers!EiaFields }
        \/ v \in Registers!EiaDerived(data)
  BY DEF Registers!PublishedOf, Registers!Fields, Registers!Texts, Registers!Derived
<1>2. ASSUME NEW f \in Registers!EiaFields, v = << f[1], Registers!Read(data, f[3], f[2]), f[4] >>
      PROVE  FALSE
  <2>1. v[1] = f[1]
    BY <1>2
  <2> QED
    BY <2>1, EiaApart DEF EiaNames
<1> QED
  BY <1>1, <1>2, EiaDerivedUnique

\* The powers and the binary sensors decode_eia_data_ publishes agree on the direction.
LEMMA EiaSplit ==
  ASSUME NEW data, Registers!SignedLong(data, 4) \in Int,
         NEW published, published = Registers!PublishedOf("EIA", data)
  PROVE  SplitByCurrent(published)
<1> DEFINE current == Registers!SignedLong(data, 4)
           voltage == Registers!Long(data, 0)
           value(sensor) == (CHOOSE v \in published : v[1] = sensor)[2]
           charged == IF Registers!Charging(current) THEN current ELSE 0
           discharged == IF Registers!Discharging(current) THEN -current ELSE 0
           now == << "current", current, "0.1" >>
           up == << "charging_power", << voltage, charged >>, "0.001" >>
           down == << "discharging_power", << voltage, discharged >>, "0.001" >>
           in == << "charging", Registers!Charging(current), "" >>
           out == << "discharging", Registers!Discharging(current), "" >>
<1>1. "EIA" \in Registers!RegisterBlocks
  BY DEF Registers!RegisterBlocks, Registers!BlockSize
<1>2. \A v, w \in published : v[1] = w[1] => v = w
  BY <1>1, PublishedUnique
<1>3. {up, down, in, out} \subseteq published
  <2>1. {up, down, in, out} \subseteq Registers!EiaDerived(data)
    BY DEF Registers!EiaDerived
  <2>2. Registers!Derived("EIA", data) = Registers!EiaDerived(data)
    BY DEF Registers!Derived
  <2>3. Registers!Derived("EIA", data) \subseteq published
    BY Zenon DEF Registers!PublishedOf
  <2> QED
    BY Zenon, <2>1, <2>2, <2>3
<1>4. now \in published
  <2> DEFINE f == <<"current", 4, "s32", "0.1">>
  <2>1. f \in Registers!Fields("EIA")
    BY DEF Registers!Fields, Registers!EiaFields
  <2>2. f[1] = "current" /\ f[2] = 4 /\ f[3] = "s32" /\ f[4] = "0.1"
    OBVIOUS
  <2>3. Registers!Read(data, "s32", 4) = current
    BY DEF Registers!Read
  <2> HIDE DEF f
  <2>4. << f[1], Registers!Read(data, f[3], f[2]), f[4] >> \in published
    BY Zenon, <2>1 DEF Registers!PublishedOf
  <2> QED
    BY <2>2, <2>3, <2>4
<1>5. /\ now[1] = "current" /\ up[1] = "charging_power" /\ down[1] = "discharging_power"
      /\ in[1] = "charging" /\ out[1] = "discharging"
  OBVIOUS
<1>6. /\ now[2] = current /\ up[2] = << voltage, charged >> /\ down[2] = << voltage, discharged >>
      /\ in[2] = Registers!Charging(current) /\ out[2] = Registers!Discharging(current)
  OBVIOUS
<1> HIDE DEF now, up, down, in, out, current, voltage, charged, discharged
<1>6a. \A v \in {now, up, down, in, out} : (CHOOSE w \in published : w[1] = v[1]) = v
  BY <1>2, <1>3, <1>4, ValueOfSensor
<1>7. /\ value("current") = current
      /\ value("charging_power") = << voltage, charged >>
      /\ value("discharging_power") = << voltage, discharged >>
  BY <1>5, <1>6, <1>6a
<1>8. /\ value("charging") = Registers!Charging(current)
      /\ value("discharging") = Registers!Discharging(current)
  <2>1. /\ (CHOOSE w \in published : w[1] = "charging") = in
        /\ (CHOOSE w \in published : w[1] = "discharging") = out
    BY <1>5, <1>6a
  <2> QED
    BY Zenon, <1>6, <2>1
<1>9. current \in Int
  BY DEF current
<1>10. /\ charged >= 0 /\ discharged >= 0 /\ charged - discharged = current
       /\ Registers!Charging(current) <=> charged > 0
       /\ Registers!Discharging(current) <=> discharged > 0
       /\ ~(Registers!Charging(current) /\ Registers!Discharging(current))
       /\ Registers!Discharging(current) => discharged = -current
  BY <1>9 DEF charged, discharged, Registers!Charging, Registers!Discharging
<1>11. ASSUME NEW v \in published, v[1] = "runtime"
       PROVE  Registers!Discharging(current) /\ v[2][2] = discharged /\ v[2][2] > 0
  <2>1. /\ Registers!Discharging(current)
        /\ v[2] = << Registers!Long(data, 8), -current >>
    BY <1>11, RuntimeIsDerived DEF current
  <2> QED
    BY <1>10, <2>1
<1>12. value("charging_power")[2] = charged /\ value("discharging_power")[2] = discharged
  BY <1>7
<1> HIDE DEF value
<1>13. /\ value("charging_power")[2] >= 0 /\ value("discharging_power")[2] >= 0
       /\ value("charging_power")[2] - value("discharging_power")[2] = value("current")
  BY <1>7, <1>10, <1>12
<1>14. /\ value("charging") <=> value("charging_power")[2] > 0
       /\ value("discharging") <=> value("discharging_power")[2] > 0
       /\ ~(value("charging") /\ value("discharging"))
       /\ \A v \in published :
            v[1] = "runtime" =>
              value("discharging") /\ v[2][2] = value("discharging_power")[2] /\ v[2][2] > 0
  BY Zenon, <1>8, <1>10, <1>11, <1>12
<1> QED
  BY Zenon, <1>13, <1>14 DEF SplitByCurrent, value

\* The answer to a request for a block has as many bytes as the block.
LEMMA BlockBytes ==
  ASSUME NEW i \in RegisterInputs
  PROVE  /\ i.block \in Registers!RegisterBlocks /\ Registers!BlockSize[i.block] \in Nat
         /\ \A n \in 0 .. Registers!BlockSize[i.block] - 1 : i.data[n] \in 0 .. 255
<1>1. /\ i.block \in Registers!RegisterBlocks
      /\ i.data \in [0 .. Registers!BlockSize[i.block] - 1 -> Bytes]
  BY RegisterAssumption
<1>2. Registers!BlockSize[i.block] \in Nat
  BY <1>1 DEF Registers!RegisterBlocks, Registers!BlockSize
<1>3. ASSUME NEW n \in 0 .. Registers!BlockSize[i.block] - 1 PROVE i.data[n] \in 0 .. 255
  <2>1. i.data[n] \in Bytes
    BY <1>1
  <2> QED
    BY <2>1 DEF Bytes
<1> QED
  BY <1>1, <1>2, <1>3

LEMMA RegistersDecoded ==
  ASSUME StageInv, stage = "registers decoded"
  PROVE  input \in RegisterInputs /\ output = Registers!PublishedOf(input.block, input.data)
BY DEF StageInv, RegistersKnown

LEMMA RegistersShown ==
  ASSUME NEW block \in Registers!RegisterBlocks, Registers!BlockSize[block] \in Nat,
         NEW data, \A n \in 0 .. Registers!BlockSize[block] - 1 : data[n] \in 0 .. 255,
         NEW published, published = Registers!PublishedOf(block, data)
  PROVE  /\ \A v, w \in published : v[1] = w[1] => v = w
         /\ \A row \in Registers!Rows[block] : ShowsRegister(block, data, row, published)
<1>1. \A v, w \in published : v[1] = w[1] => v = w
  BY PublishedUnique
<1>2. ASSUME NEW row \in Registers!Rows[block], row[3] = "ASCII"
      PROVE  ShowsRegister(block, data, row, published)
  <2>1. PICK t \in Registers!Texts(block) : TextMatches(block, row, t)
    BY <1>2, TextsHaveFields
  <2> DEFINE text == Registers!Text(data, t[2], t[3])
             v == << t[1], text, "" >>
  <2>2. Registers!FillsField(block, data, row, text)
    BY <2>1, TextFills
  <2>3. v \in published
    BY Zenon DEF Registers!PublishedOf
  <2>4. v[1] = row[1] /\ v[2] = text
    BY <2>1 DEF TextMatches
  <2> HIDE DEF text, v
  <2>5. \E w \in published : w[1] = row[1] /\ Registers!FillsField(block, data, row, w[2])
    BY <2>2, <2>3, <2>4
  <2> QED
    BY <1>2, <2>5 DEF ShowsRegister
<1>3. ASSUME NEW row \in Registers!Rows[block], row[3] # "ASCII"
      PROVE  ShowsRegister(block, data, row, published)
  <2>1. PICK f \in Registers!Fields(block) : Matches(block, row, f)
    BY <1>3, RowsHaveFields
  <2>2. \/ Registers!Read(data, f[3], f[2]) = Registers!Shown(block, data, row)
        \/ row[1] \in Registers!ReadAsSigned /\ Registers!Shown(block, data, row) >= 32768
    BY <2>1, FieldShows
  <2>3. f[1] = row[1] /\ f[4] = Registers!FactorOf(row[4])
    BY <2>1 DEF Matches
  <2>4. << f[1], Registers!Read(data, f[3], f[2]), f[4] >> \in published
    BY Zenon DEF Registers!PublishedOf
  <2>5. ASSUME Registers!Read(data, f[3], f[2]) = Registers!Shown(block, data, row)
        PROVE  << row[1], Registers!Shown(block, data, row), Registers!FactorOf(row[4]) >>
                 \in published
    BY Zenon, <2>3, <2>4, <2>5
  <2> QED
    BY <1>3, <2>2, <2>5 DEF ShowsRegister
<1> QED
  BY <1>1, <1>2, <1>3

\* The decoders of the register blocks publish every register of the tables that has a
\* sensor from its place, in its data type and with its unit, and no sensor twice.
THEOREM RegistersCorrect == Spec => []RegistersAsDocumented
<1>1. ASSUME StageInv, stage = "registers decoded" PROVE RegistersAsDocumented
  <2>1. input \in RegisterInputs /\ output = Registers!PublishedOf(input.block, input.data)
    BY <1>1, RegistersDecoded
  <2>2. /\ input.block \in Registers!RegisterBlocks
        /\ Registers!BlockSize[input.block] \in Nat
        /\ \A n \in 0 .. Registers!BlockSize[input.block] - 1 : input.data[n] \in 0 .. 255
    BY Zenon, <2>1, BlockBytes
  <2>3. \A v, w \in output : v[1] = w[1] => v = w
    BY Zenon, <2>1, <2>2, RegistersShown
  <2>4. \A row \in Registers!Rows[input.block] :
          ShowsRegister(input.block, input.data, row, output)
    <3>1. \A block \in Registers!RegisterBlocks : \A data :
            /\ Registers!BlockSize[block] \in Nat
            /\ \A n \in 0 .. Registers!BlockSize[block] - 1 : data[n] \in 0 .. 255
            => \A row \in Registers!Rows[block] :
                 ShowsRegister(block, data, row, Registers!PublishedOf(block, data))
      BY RegistersShown
    <3> QED
      BY Zenon, <2>1, <2>2, <3>1
  <2> QED
    BY Zenon, <2>3, <2>4 DEF RegistersAsDocumented
<1>2. StageInv => RegistersAsDocumented
  BY <1>1 DEF RegistersAsDocumented
<1> QED
  BY <1>2, StageInvariant, PTL

-----------------------------------------------------------------------------
(* Power and its direction. *)

\* The two parts of a power.
LEMMA PowerParts ==
  ASSUME NEW i \in Powers!PowerInput
  PROVE  SplitByDirection(Powers!PublishedPower(i))
<1> DEFINE v == i.voltage
           c == Powers!SignedCurrent(i)
           published == Powers!PublishedPower(i)
<1>1. v \in Nat /\ c \in Int
  <2>1. i.voltage \in Nat /\ i.current \in Nat
    BY DEF Powers!PowerInput, Powers!PowerWords
  <2> QED
    BY <2>1 DEF Powers!SignedCurrent
<1> HIDE DEF c, v
<1>2. /\ published.power = << v, c >>
      /\ published.charging_power = << v, IF v > 0 /\ c > 0 THEN c ELSE 0 >>
      /\ published.discharging_power = << v, IF v > 0 /\ c < 0 THEN -c ELSE 0 >>
  BY DEF Powers!PublishedPower, Powers!Charged, Powers!Discharged, c, v
<1>3. \/ published.directions = << >>
      \/ published.directions = [charging |-> c > 10, discharging |-> c < -10]
  BY DEF Powers!PublishedPower, Powers!Directions, c
<1>4. published.directions # << >> =>
        (published.directions.charging <=> c > 10)
          /\ (published.directions.discharging <=> c < -10)
  <2>1. CASE published.directions = << >>
    BY <2>1
  <2>2. CASE published.directions = [charging |-> c > 10, discharging |-> c < -10]
    <3>1. published.directions.charging = (c > 10) /\ published.directions.discharging = (c < -10)
      BY <2>2
    <3> QED
      BY <3>1
  <2> QED
    BY <1>3, <2>1, <2>2
<1> HIDE DEF published
<1> QED
  BY <1>1, <1>2, <1>4 DEF SplitByDirection, published

LEMMA CurrentType ==
  ASSUME NEW i \in RegisterInputs, i.block = "EIA"
  PROVE  Registers!SignedLong(i.data, 4) \in Int
<1>1. PICK data : data = i.data
  OBVIOUS
<1>2. Registers!BlockSize["EIA"] = 52
  BY DEF Registers!BlockSize
<1>3. \A n \in 0 .. 52 - 1 : data[n] \in 0 .. 255
  BY <1>1, <1>2, BlockBytes
<1>4. Registers!Word(data, 4) \in Nat /\ Registers!Word(data, 6) \in Nat
  <2>1. /\ data[4] \in 0 .. 255 /\ data[4 + 1] \in 0 .. 255
        /\ data[6] \in 0 .. 255 /\ data[6 + 1] \in 0 .. 255
    BY <1>3
  <2> QED
    BY <2>1, WordType
<1>5. Registers!Signed(Registers!Word(data, 6)) \in Int
  BY <1>4 DEF Registers!Signed
<1>6. Registers!SignedLong(data, 4) =
        65536 * Registers!Signed(Registers!Word(data, 6)) + Registers!Word(data, 4)
  BY DEF Registers!SignedLong
<1> QED
  BY <1>1, <1>4, <1>5, <1>6

\* Of every current and voltage the three decoders publish a charging and a discharging
\* power that are the power split by its direction, and no sensor contradicts them.
THEOREM PowerCorrect == Spec => []PowerIsSplit
<1>1. ASSUME StageInv, stage = "power decoded" PROVE SplitByDirection(output)
  <2>1. input \in PowerInputs /\ output = Powers!PublishedPower(input)
    BY <1>1 DEF StageInv, PowerKnown
  <2> QED
    BY <2>1, PowerAssumption, PowerParts
<1>2. ASSUME StageInv, stage = "registers decoded", input.block = "EIA"
      PROVE  SplitByCurrent(output)
  <2>1. input \in RegisterInputs /\ output = Registers!PublishedOf("EIA", input.data)
    BY <1>2, RegistersDecoded
  <2>2. Registers!SignedLong(input.data, 4) \in Int
    BY <1>2, <2>1, CurrentType
  <2> QED
    BY <2>1, <2>2, EiaSplit
<1>3. StageInv => PowerIsSplit
  BY <1>1, <1>2 DEF PowerIsSplit
<1> QED
  BY <1>3, StageInvariant, PTL

-----------------------------------------------------------------------------
(* The status frames. *)

\* What the frames of the assumption are.
LEMMA StatusType ==
  ASSUME NEW frame \in StatusInputs
  PROVE  /\ frame.size \in Nat /\ frame.cells \in Nat /\ frame.temps \in Nat /\ frame.alarms \in Nat
         /\ frame.temps >= 2 /\ frame.alarms >= 8 /\ frame.size >= Status!DrawnSize(frame)
         /\ Status!BitBytes(frame) \in Nat /\ frame.temps - 2 \in Nat
<1>1. /\ frame \in Status!StatusFrame
      /\ frame.temps >= 2 /\ frame.alarms >= 8 /\ frame.size >= Status!DrawnSize(frame)
  BY Zenon, StatusAssumption
<1>2. frame.size \in Nat /\ frame.cells \in Nat /\ frame.temps \in Nat /\ frame.alarms \in Nat
  BY <1>1 DEF Status!StatusFrame
<1>3. (frame.cells + 7) \div 8 \in Nat /\ frame.temps - 2 \in Nat
  BY <1>1, <1>2
<1> QED
  BY Zenon, <1>1, <1>2, <1>3 DEF Status!BitBytes

\* How many values a group of the drawing has, and of how many bytes.
LEMMA DrawingType ==
  ASSUME NEW frame \in StatusInputs, NEW k \in 1 .. 30
  PROVE  Status!Drawing(frame)[k][2] \in Nat /\ Status!Drawing(frame)[k][3] \in Nat
<1>1. \/ k \in {1, 2, 3, 5} \/ k \in 7 .. 18 \/ k \in 21 .. 27
      \/ k \in {4, 19} \/ k \in {6, 20} \/ k = 28 \/ k \in {29, 30}
  OBVIOUS
<1> QED
  BY <1>1, StatusType DEF Status!Drawing, Status!BitBytes

\* Where a group of the drawing begins.
LEMMA GroupsFollow ==
  ASSUME NEW frame \in StatusInputs
  PROVE  /\ Status!GroupPlace(frame)[1] = 7
         /\ \A k \in 1 .. 30 :
              Status!GroupPlace(frame)[k + 1]
                = Status!GroupPlace(frame)[k]
                    + Status!Drawing(frame)[k][2] * Status!Drawing(frame)[k][3]
<1> DEFINE group == Status!Drawing(frame)
           width == [k \in 1 .. 30 |-> group[k][2] * group[k][3]]
           step == [k \in 1 .. 30 |-> [p \in Nat |-> p + width[k]]]
           Places(f) == f = [k \in 1 .. 31 |-> IF k = 1 THEN 7
                                              ELSE f[k - 1] + group[k - 1][2] * group[k - 1][3]]
<1>1. \A k \in 1 .. 30 : width[k] \in Nat
  <2>1. ASSUME NEW k \in 1 .. 30 PROVE width[k] \in Nat
    <3>1. group[k][2] \in Nat /\ group[k][3] \in Nat
      BY DrawingType
    <3> HIDE DEF group
    <3> QED
      BY <3>1
  <2> QED
    BY <2>1
<1>2. \A k \in 1 .. 30 : step[k] \in [Nat -> Nat]
  <2> HIDE DEF width
  <2>1. ASSUME NEW k \in 1 .. 30 PROVE step[k] \in [Nat -> Nat]
    <3>1. PICK w \in Nat : w = width[k]
      BY <1>1
    <3>2. [p \in Nat |-> p + w] \in [Nat -> Nat]
      OBVIOUS
    <3> QED
      BY <3>1, <3>2
  <2> QED
    BY <2>1
<1>3. PICK f \in [0 .. 30 -> Nat] : Follows(f, 30, 7, step)
  <2> HIDE DEF step
  <2>1. PICK thirty \in Nat : thirty = 30
    OBVIOUS
  <2>2. \E f \in [0 .. thirty -> Nat] : Follows(f, thirty, 7, step)
    BY <1>2, <2>1, Recursion
  <2> QED
    BY <2>1, <2>2
<1> DEFINE g == [k \in 1 .. 31 |-> f[k - 1]]
<1>4. ASSUME NEW k \in 1 .. 31
      PROVE  g[k] = IF k = 1 THEN 7 ELSE g[k - 1] + group[k - 1][2] * group[k - 1][3]
  <2>1. CASE k = 1
    BY <1>3, <2>1 DEF Follows
  <2>2. CASE k # 1
    <3>1. k - 1 \in 1 .. 30 /\ k - 1 \in 1 .. 31 /\ f[(k - 1) - 1] \in Nat
      BY <1>3, <2>2
    <3>2. f[k - 1] = step[k - 1][f[(k - 1) - 1]]
      BY <1>3, <3>1 DEF Follows
    <3>3. f[k - 1] = f[(k - 1) - 1] + width[k - 1]
      <4> HIDE DEF width
      <4> QED
        BY <3>1, <3>2
    <3>4. width[k - 1] = group[k - 1][2] * group[k - 1][3]
      <4> HIDE DEF group
      <4> QED
        BY <3>1
    <3> HIDE DEF group, width, step
    <3> QED
      BY <2>2, <3>1, <3>3, <3>4
  <2> QED
    BY <2>1, <2>2
<1>5. Places(g)
  <2> HIDE DEF group
  <2> QED
    BY <1>4
<1>6. Status!GroupPlace(frame) = CHOOSE h : Places(h)
  <2>1. Len(group) = 30
    BY DEF Status!Drawing
  <2>2. Len(group) + 1 = 31
    BY <2>1
  <2> QED
    BY <2>2, Zenon DEF Status!GroupPlace
<1>7. Places(Status!GroupPlace(frame))
  <2> HIDE DEF g, Places
  <2> QED
    BY Zenon, <1>5, <1>6
<1>8. PICK h : h = Status!GroupPlace(frame)
  OBVIOUS
<1> HIDE DEF group
<1>9. h[1] = 7 /\ \A k \in 1 .. 30 : h[k + 1] = h[k] + group[k][2] * group[k][3]
  <2>1. \A k \in 1 .. 31 : h[k] = IF k = 1 THEN 7 ELSE h[k - 1] + group[k - 1][2] * group[k - 1][3]
    BY <1>7, <1>8
  <2>2. ASSUME NEW k \in 1 .. 30
        PROVE  h[k + 1] = h[k] + group[k][2] * group[k][3]
    <3>1. k + 1 \in 1 .. 31 /\ k + 1 # 1 /\ (k + 1) - 1 = k
      OBVIOUS
    <3> QED
      BY <2>1, <3>1
  <2> QED
    BY <2>1, <2>2
<1> QED
  BY <1>8, <1>9 DEF group

\* Where each group of the drawing begins, in the counts, and what is behind the last one.
StartsAt(place, c, t, a, b) ==
  /\ place[1] = 7 /\ place[2] = 8 /\ place[3] = 9 /\ place[4] = 10
  /\ place[5] = 10 + 2 * c /\ place[6] = 11 + 2 * c
  /\ place[7] = 7 + 2 * c + 2 * t /\ place[8] = 9 + 2 * c + 2 * t
  /\ place[9] = 11 + 2 * c + 2 * t /\ place[10] = 13 + 2 * c + 2 * t
  /\ place[11] = 15 + 2 * c + 2 * t /\ place[12] = 17 + 2 * c + 2 * t
  /\ place[13] = 18 + 2 * c + 2 * t /\ place[14] = 20 + 2 * c + 2 * t
  /\ place[15] = 22 + 2 * c + 2 * t /\ place[16] = 24 + 2 * c + 2 * t
  /\ place[17] = 26 + 2 * c + 2 * t /\ place[18] = 28 + 2 * c + 2 * t
  /\ place[19] = 30 + 2 * c + 2 * t /\ place[20] = 30 + 3 * c + 2 * t
  /\ place[21] = 28 + 3 * c + 3 * t /\ place[22] = 29 + 3 * c + 3 * t
  /\ place[23] = 30 + 3 * c + 3 * t /\ place[24] = 31 + 3 * c + 3 * t
  /\ place[25] = 32 + 3 * c + 3 * t /\ place[26] = 33 + 3 * c + 3 * t
  /\ place[27] = 34 + 3 * c + 3 * t /\ place[28] = 35 + 3 * c + 3 * t
  /\ place[29] = 35 + 3 * c + 3 * t + a /\ place[30] = 35 + 3 * c + 3 * t + a + b
  /\ place[31] = 35 + 3 * c + 3 * t + a + 2 * b

LEMMA GroupStarts ==
  ASSUME NEW frame \in StatusInputs,
         NEW c \in Nat, NEW t \in Nat, NEW a \in Nat, NEW b \in Nat,
         c = frame.cells, t = frame.temps, a = frame.alarms, b = Status!BitBytes(frame)
  PROVE  StartsAt(Status!GroupPlace(frame), c, t, a, b)
<1> DEFINE row == Status!Drawing(frame)
<1>1. PICK h : h = Status!GroupPlace(frame)
  OBVIOUS
<1>2. h[1] = 7 /\ \A k \in 1 .. 30 : h[k + 1] = h[k] + row[k][2] * row[k][3]
  BY <1>1, GroupsFollow
<1>3. /\ h[2] = 8 /\ h[3] = 9 /\ h[4] = 10 /\ h[5] = 10 + 2 * c /\ h[6] = 11 + 2 * c
      /\ h[7] = 7 + 2 * c + 2 * t
  <2>1. /\ 1 \in 1 .. 30 /\ 1 + 1 = 2 /\ 2 \in 1 .. 30 /\ 2 + 1 = 3
        /\ 3 \in 1 .. 30 /\ 3 + 1 = 4 /\ 4 \in 1 .. 30 /\ 4 + 1 = 5
        /\ 5 \in 1 .. 30 /\ 5 + 1 = 6 /\ 6 \in 1 .. 30 /\ 6 + 1 = 7
    OBVIOUS
  <2>2. /\ h[2] = h[1] + 1 /\ h[3] = h[2] + 1 /\ h[4] = h[3] + 1
        /\ h[5] = h[4] + 2 * c /\ h[6] = h[5] + 1 /\ h[7] = h[6] + 2 * (t - 2)
    BY <1>2, <2>1 DEF Status!Drawing, Status!BitBytes
  <2> QED
    BY <1>2, <2>2
<1>4. /\ h[8] = 9 + 2 * c + 2 * t /\ h[9] = 11 + 2 * c + 2 * t
      /\ h[10] = 13 + 2 * c + 2 * t /\ h[11] = 15 + 2 * c + 2 * t
      /\ h[12] = 17 + 2 * c + 2 * t /\ h[13] = 18 + 2 * c + 2 * t
  <2>1. /\ 7 \in 1 .. 30 /\ 7 + 1 = 8 /\ 8 \in 1 .. 30 /\ 8 + 1 = 9
        /\ 9 \in 1 .. 30 /\ 9 + 1 = 10 /\ 10 \in 1 .. 30 /\ 10 + 1 = 11
        /\ 11 \in 1 .. 30 /\ 11 + 1 = 12 /\ 12 \in 1 .. 30 /\ 12 + 1 = 13
    OBVIOUS
  <2>2. /\ h[8] = h[7] + 2 /\ h[9] = h[8] + 2 /\ h[10] = h[9] + 2 /\ h[11] = h[10] + 2
        /\ h[12] = h[11] + 2 /\ h[13] = h[12] + 1
    BY <1>2, <2>1 DEF Status!Drawing, Status!BitBytes
  <2> QED
    BY <1>3, <2>2
<1>5. /\ h[14] = 20 + 2 * c + 2 * t /\ h[15] = 22 + 2 * c + 2 * t
      /\ h[16] = 24 + 2 * c + 2 * t /\ h[17] = 26 + 2 * c + 2 * t
      /\ h[18] = 28 + 2 * c + 2 * t /\ h[19] = 30 + 2 * c + 2 * t
  <2>1. /\ 13 \in 1 .. 30 /\ 13 + 1 = 14 /\ 14 \in 1 .. 30 /\ 14 + 1 = 15
        /\ 15 \in 1 .. 30 /\ 15 + 1 = 16 /\ 16 \in 1 .. 30 /\ 16 + 1 = 17
        /\ 17 \in 1 .. 30 /\ 17 + 1 = 18 /\ 18 \in 1 .. 30 /\ 18 + 1 = 19
    OBVIOUS
  <2>2. /\ h[14] = h[13] + 2 /\ h[15] = h[14] + 2 /\ h[16] = h[15] + 2
        /\ h[17] = h[16] + 2 /\ h[18] = h[17] + 2 /\ h[19] = h[18] + 2
    BY <1>2, <2>1 DEF Status!Drawing, Status!BitBytes
  <2> QED
    BY <1>4, <2>2
<1>6. /\ h[20] = 30 + 3 * c + 2 * t /\ h[21] = 28 + 3 * c + 3 * t
      /\ h[22] = 29 + 3 * c + 3 * t /\ h[23] = 30 + 3 * c + 3 * t
      /\ h[24] = 31 + 3 * c + 3 * t /\ h[25] = 32 + 3 * c + 3 * t
  <2>1. /\ 19 \in 1 .. 30 /\ 19 + 1 = 20 /\ 20 \in 1 .. 30 /\ 20 + 1 = 21
        /\ 21 \in 1 .. 30 /\ 21 + 1 = 22 /\ 22 \in 1 .. 30 /\ 22 + 1 = 23
        /\ 23 \in 1 .. 30 /\ 23 + 1 = 24 /\ 24 \in 1 .. 30 /\ 24 + 1 = 25
    OBVIOUS
  <2>2. /\ h[20] = h[19] + c /\ h[21] = h[20] + (t - 2) /\ h[22] = h[21] + 1
        /\ h[23] = h[22] + 1 /\ h[24] = h[23] + 1 /\ h[25] = h[24] + 1
    BY <1>2, <2>1 DEF Status!Drawing, Status!BitBytes
  <2> QED
    BY <1>5, <2>2
<1>7. /\ h[26] = 33 + 3 * c + 3 * t /\ h[27] = 34 + 3 * c + 3 * t
      /\ h[28] = 35 + 3 * c + 3 * t /\ h[29] = 35 + 3 * c + 3 * t + a
      /\ h[30] = 35 + 3 * c + 3 * t + a + b /\ h[31] = 35 + 3 * c + 3 * t + a + 2 * b
  <2>1. /\ 25 \in 1 .. 30 /\ 25 + 1 = 26 /\ 26 \in 1 .. 30 /\ 26 + 1 = 27
        /\ 27 \in 1 .. 30 /\ 27 + 1 = 28 /\ 28 \in 1 .. 30 /\ 28 + 1 = 29
        /\ 29 \in 1 .. 30 /\ 29 + 1 = 30 /\ 30 \in 1 .. 30 /\ 30 + 1 = 31
    OBVIOUS
  <2>2. /\ h[26] = h[25] + 1 /\ h[27] = h[26] + 1 /\ h[28] = h[27] + 1
        /\ h[29] = h[28] + a /\ h[30] = h[29] + b /\ h[31] = h[30] + b
    BY <1>2, <2>1 DEF Status!Drawing, Status!BitBytes
  <2> QED
    BY <1>6, <2>2
<1> HIDE DEF row
<1>8. StartsAt(h, c, t, a, b)
  BY <1>2, <1>3, <1>4, <1>5, <1>6, <1>7 DEF StartsAt
<1> QED
  BY Zenon, <1>1, <1>8
LEMMA PlacesType ==
  ASSUME NEW frame \in StatusInputs
  PROVE  \A k \in 1 .. 31 : Status!GroupPlace(frame)[k] \in Nat
<1>1. PICK c \in Nat, t \in Nat, a \in Nat, b \in Nat :
        c = frame.cells /\ t = frame.temps /\ a = frame.alarms /\ b = Status!BitBytes(frame)
  BY StatusType
<1>2. t >= 2
  BY <1>1, StatusType
<1>3. PICK h : h = Status!GroupPlace(frame)
  OBVIOUS
<1>4. StartsAt(h, c, t, a, b)
  BY Zenon, <1>1, <1>3, GroupStarts
<1>5. \A k \in 1 .. 31 : h[k] \in Nat
  BY <1>2, <1>4 DEF StartsAt
<1> QED
  BY <1>3, <1>5

\* The values of a group: name, number and first byte.
ValuesOf(name, count, place, width) == { << name, i, place + (i - 1) * width >> : i \in 1 .. count }

ByCell == {"cell_voltage", "cell_alarm"}
ByTemp == {"cell_temperature", "temperature_alarm"}
Single ==
  {"cell_count", "temp_count", "ambient_temperature", "mosfet_temperature", "current",
   "total_voltage", "capacity_remaining", "battery_capacity", "state_of_charge",
   "nominal_capacity", "charging_cycles", "state_of_health", "port_voltage", "ambient_alarm",
   "mosfet_alarm", "current_alarm", "voltage_alarm", "system_status", "switch_status",
   "alarm_count"}

Fewest(n, m) == IF n <= m THEN n ELSE m

\* The values of a group there is a sensor for.
Sensed(group, place) ==
  { v \in ValuesOf(group[1], group[2], place, group[3]) : Status!HasSensor(v) }

LEMMA SensedType ==
  ASSUME NEW name, NEW count \in Nat, NEW width \in Nat, NEW place \in Nat, NEW v
  PROVE  v \in Sensed(<< name, count, width >>, place)
           <=> \E i \in 1 .. count : /\ v = << name, i, place + (i - 1) * width >>
                                     /\ name \notin {"address", "reserved"}
                                     /\ name \in ByCell => i <= 24
                                     /\ name \in ByTemp => i <= 8
BY DEF Sensed, ValuesOf, Status!HasSensor, ByCell, ByTemp

\* Of the bytes that mean nothing, none.
LEMMA SensedNone ==
  ASSUME NEW name \in {"address", "reserved"}, NEW place \in Nat, NEW v
  PROVE  ~(v \in Sensed(<< name, 1, 1 >>, place))
BY SensedType

\* Of a single value, that value.
LEMMA SensedOne ==
  ASSUME NEW name \in Single, NEW width \in Nat, NEW place \in Nat, NEW v
  PROVE  v \in Sensed(<< name, 1, width >>, place) <=> v = << name, 1, place >>
<1>0. name \notin {"address", "reserved"} /\ name \notin ByCell /\ name \notin ByTemp
  BY DEF Single, ByCell, ByTemp
<1>1. v \in Sensed(<< name, 1, width >>, place)
        <=> \E i \in 1 .. 1 : v = << name, i, place + (i - 1) * width >>
  BY <1>0, SensedType
<1>2. \A i \in 1 .. 1 : i = 1 /\ place + (i - 1) * width = place
  OBVIOUS
<1> QED
  BY <1>1, <1>2

\* Of one value for each cell or temperature, as many as there are sensors.
LEMMA SensedCells ==
  ASSUME NEW name \in ByCell, NEW count \in Nat, NEW width \in Nat, NEW place \in Nat, NEW v
  PROVE  v \in Sensed(<< name, count, width >>, place)
           <=> v \in ValuesOf(name, Fewest(count, 24), place, width)
<1>1. name \notin {"address", "reserved"} /\ name \notin ByTemp
  BY DEF ByCell, ByTemp
<1>2. \A i : i \in 1 .. count /\ i <= 24 <=> i \in 1 .. Fewest(count, 24)
  BY DEF Fewest
<1>3. v \in Sensed(<< name, count, width >>, place)
        <=> \E i \in 1 .. count : v = << name, i, place + (i - 1) * width >> /\ i <= 24
  BY <1>1, SensedType
<1>4. v \in ValuesOf(name, Fewest(count, 24), place, width)
        <=> \E i \in 1 .. Fewest(count, 24) : v = << name, i, place + (i - 1) * width >>
  BY Zenon DEF ValuesOf
<1> QED
  BY Zenon, <1>2, <1>3, <1>4

LEMMA SensedTemps ==
  ASSUME NEW name \in ByTemp, NEW count \in Nat, NEW width \in Nat, NEW place \in Nat, NEW v
  PROVE  v \in Sensed(<< name, count, width >>, place)
           <=> v \in ValuesOf(name, Fewest(count, 8), place, width)
<1>1. name \notin {"address", "reserved"} /\ name \notin ByCell
  BY DEF ByCell, ByTemp
<1>2. \A i : i \in 1 .. count /\ i <= 8 <=> i \in 1 .. Fewest(count, 8)
  BY DEF Fewest
<1>3. v \in Sensed(<< name, count, width >>, place)
        <=> \E i \in 1 .. count : v = << name, i, place + (i - 1) * width >> /\ i <= 8
  BY <1>1, SensedType
<1>4. v \in ValuesOf(name, Fewest(count, 8), place, width)
        <=> \E i \in 1 .. Fewest(count, 8) : v = << name, i, place + (i - 1) * width >>
  BY Zenon DEF ValuesOf
<1> QED
  BY Zenon, <1>2, <1>3, <1>4

\* Of any other group, all of it.
LEMMA SensedAll ==
  ASSUME NEW name, name \notin {"address", "reserved"}, name \notin ByCell, name \notin ByTemp,
         NEW count \in Nat, NEW width \in Nat, NEW place \in Nat, NEW v
  PROVE  v \in Sensed(<< name, count, width >>, place) <=> v \in ValuesOf(name, count, place, width)
BY SensedType DEF ValuesOf

\* Every value drawn that has a sensor is of one of the groups.
LEMMA DrawnGroups ==
  ASSUME NEW frame, NEW v
  PROVE  v \in { x \in Status!Drawn(frame) : Status!HasSensor(x) }
           <=> \E k \in 1 .. 30 :
                 v \in Sensed(Status!Drawing(frame)[k], Status!GroupPlace(frame)[k])
<1> DEFINE row == Status!Drawing(frame)
           place == Status!GroupPlace(frame)
<1>1. Len(row) = 30
  BY DEF Status!Drawing
<1>2. PICK thirty : thirty = 30
  OBVIOUS
<1>3. Status!Drawn(frame)
        = UNION { ValuesOf(row[k][1], row[k][2], place[k], row[k][3]) : k \in 1 .. thirty }
  <2> HIDE DEF row, place
  <2>1. Status!Drawn(frame)
        = UNION { ValuesOf(row[k][1], row[k][2], place[k], row[k][3]) : k \in 1 .. Len(row) }
    BY Zenon DEF Status!Drawn, ValuesOf, row, place
  <2> QED
    BY <1>1, <1>2, <2>1
<1> HIDE DEF row, place
<1>4. v \in { x \in Status!Drawn(frame) : Status!HasSensor(x) }
        <=> \E k \in 1 .. thirty : v \in Sensed(row[k], place[k])
  BY Zenon, <1>3 DEF Sensed
<1> QED
  BY <1>2, <1>4 DEF row, place

\* Where the code is, in the counts.
CodeAt(frame, c, t, a) ==
  /\ Status!CellTemps(frame) = t - 2 /\ t - 2 \in Nat
  /\ Status!TempsPlace(frame) = 10 + 2 * c /\ Status!MainPlace(frame) = 11 + 2 * c + 2 * t
  /\ Status!AlarmsPlace(frame) = 30 + 2 * c + 2 * t
  /\ Status!ProtectionPlace(frame) = 30 + 3 * c + 3 * t
  /\ Status!EventsPlace(frame) = 35 + 3 * c + 3 * t
  /\ Status!BalancingPlace(frame) = 35 + 3 * c + 3 * t + a

LEMMA CodePlaces ==
  ASSUME NEW frame \in StatusInputs, NEW c \in Nat, NEW t \in Nat, NEW a \in Nat,
         c = frame.cells, t = frame.temps, a = frame.alarms
  PROVE  CodeAt(frame, c, t, a)
<1>1. Status!CellTemps(frame) = t - 2 /\ t - 2 \in Nat
  BY StatusType DEF Status!CellTemps
<1>2. Status!TempsPlace(frame) = 10 + 2 * c /\ Status!MainPlace(frame) = 11 + 2 * c + 2 * t
  BY DEF Status!TempsPlace, Status!MainPlace
<1>3. Status!AlarmsPlace(frame) = 30 + 2 * c + 2 * t
  BY <1>2 DEF Status!AlarmsPlace
<1>4. Status!ProtectionPlace(frame) = 30 + 3 * c + 3 * t
  BY <1>3 DEF Status!ProtectionPlace
<1>5. Status!EventsPlace(frame) = 35 + 3 * c + 3 * t
  BY <1>4 DEF Status!EventsPlace
<1>6. Status!BalancingPlace(frame) = 35 + 3 * c + 3 * t + a
  BY <1>5 DEF Status!BalancingPlace
<1> QED
  BY <1>1, <1>2, <1>3, <1>4, <1>5, <1>6 DEF CodeAt

\* As the code writes them.
LEMMA ValuesOfWords ==
  ASSUME NEW name, NEW count \in Nat, NEW place \in Nat
  PROVE  { << name, i, place + 2 * (i - 1) >> : i \in 1 .. count } = ValuesOf(name, count, place, 2)
<1>1. \A i \in 1 .. count : place + 2 * (i - 1) = place + (i - 1) * 2
  OBVIOUS
<1> QED
  BY <1>1 DEF ValuesOf

LEMMA ValuesOfBytes ==
  ASSUME NEW name, NEW count \in Nat, NEW place \in Nat
  PROVE  { << name, i, place + i - 1 >> : i \in 1 .. count } = ValuesOf(name, count, place, 1)
<1>1. \A i \in 1 .. count : place + i - 1 = place + (i - 1) * 1
  OBVIOUS
<1> QED
  BY <1>1 DEF ValuesOf

\* The alarm events the code reads are all there are: the first eight, and the others, which
\* end before the frame does.
LEMMA EventsRead ==
  ASSUME NEW frame \in StatusInputs, NEW a \in Nat, a = frame.alarms,
         NEW events \in Nat, events = Status!EventsPlace(frame)
  PROVE  { << "alarm_event", i, events + i - 1 >> : i \in 1 .. 8 }
           \cup { << "alarm_event", i, events + i - 1 >> :
                    i \in { n \in 9 .. frame.alarms : events + n - 1 < frame.size } }
         = ValuesOf("alarm_event", a, events, 1)
<1>1. PICK c \in Nat, t \in Nat, b \in Nat :
        c = frame.cells /\ t = frame.temps /\ b = Status!BitBytes(frame)
  BY StatusType
<1>2. events = 35 + 3 * c + 3 * t
  <2>1. CodeAt(frame, c, t, a)
    BY Zenon, <1>1, CodePlaces
  <2> QED
    BY <2>1 DEF CodeAt
<1>3. Status!DrawnSize(frame) = 38 + 3 * c + 3 * t + a + 2 * b
  <2>1. Status!GroupPlace(frame)[31] = 35 + 3 * c + 3 * t + a + 2 * b
    <3>1. StartsAt(Status!GroupPlace(frame), c, t, a, b)
      BY Zenon, <1>1, GroupStarts
    <3> QED
      BY Zenon, <3>1 DEF StartsAt
  <2>2. Len(Status!Drawing(frame)) = 30
    BY DEF Status!Drawing
  <2>3. Status!DrawnSize(frame) = Status!GroupPlace(frame)[31] + 3
    BY <2>2 DEF Status!DrawnSize
  <2> QED
    BY <1>1, <2>1, <2>3
<1>4. events + a < frame.size /\ a >= 8 /\ frame.size \in Nat
  BY <1>1, <1>2, <1>3, StatusType
<1>5. (1 .. 8) \cup { n \in 9 .. frame.alarms : events + n - 1 < frame.size } = 1 .. a
  BY <1>4
<1>6. { << "alarm_event", i, events + i - 1 >> : i \in 1 .. 8 }
        \cup { << "alarm_event", i, events + i - 1 >> :
                 i \in { n \in 9 .. frame.alarms : events + n - 1 < frame.size } }
      = { << "alarm_event", i, events + i - 1 >> : i \in 1 .. a }
  <2> DEFINE S == { n \in 9 .. frame.alarms : events + n - 1 < frame.size }
             T == 1 .. a
             E == 1 .. 8
  <2>1. E \cup S = T
    BY <1>5
  <2> HIDE DEF S, T, E
  <2>2. { << "alarm_event", i, events + i - 1 >> : i \in E }
          \cup { << "alarm_event", i, events + i - 1 >> : i \in S }
        = { << "alarm_event", i, events + i - 1 >> : i \in T }
    BY <2>1
  <2> QED
    BY Zenon, <2>2 DEF S, T, E
<1> QED
  BY <1>6, ValuesOfBytes

\* Whether a value is one of those the code reads, by the places of the groups and the counts.
OneRead(v, h, c, t, a, b) ==
  \/ v = << "cell_count", 1, h[3] >>
  \/ v \in ValuesOf("cell_voltage", Fewest(c, 24), h[4], 2)
  \/ v = << "temp_count", 1, h[5] >>
  \/ v \in ValuesOf("cell_temperature", Fewest(t - 2, 8), h[6], 2)
  \/ v = << "ambient_temperature", 1, h[7] >>
  \/ v = << "mosfet_temperature", 1, h[8] >>
  \/ v = << "current", 1, h[9] >>
  \/ v = << "total_voltage", 1, h[10] >>
  \/ v = << "capacity_remaining", 1, h[11] >>
  \/ v = << "battery_capacity", 1, h[13] >>
  \/ v = << "state_of_charge", 1, h[14] >>
  \/ v = << "nominal_capacity", 1, h[15] >>
  \/ v = << "charging_cycles", 1, h[16] >>
  \/ v = << "state_of_health", 1, h[17] >>
  \/ v = << "port_voltage", 1, h[18] >>
  \/ v \in ValuesOf("cell_alarm", Fewest(c, 24), h[19], 1)
  \/ v \in ValuesOf("temperature_alarm", Fewest(t - 2, 8), h[20], 1)
  \/ v = << "ambient_alarm", 1, h[21] >>
  \/ v = << "mosfet_alarm", 1, h[22] >>
  \/ v = << "current_alarm", 1, h[23] >>
  \/ v = << "voltage_alarm", 1, h[24] >>
  \/ v = << "system_status", 1, h[25] >>
  \/ v = << "switch_status", 1, h[26] >>
  \/ v = << "alarm_count", 1, h[27] >>
  \/ v \in ValuesOf("alarm_event", a, h[28], 1)
  \/ v \in ValuesOf("balancing", b, h[29], 1)
  \/ v \in ValuesOf("disconnected", b, h[30], 1)

\* The values of each group that have a sensor.
LEMMA DrawnRead ==
  ASSUME NEW frame \in StatusInputs,
         NEW c \in Nat, NEW t \in Nat, NEW a \in Nat, NEW b \in Nat,
         c = frame.cells, t = frame.temps, a = frame.alarms, b = Status!BitBytes(frame), NEW v
  PROVE  v \in { x \in Status!Drawn(frame) : Status!HasSensor(x) }
           <=> OneRead(v, Status!GroupPlace(frame), c, t, a, b)
<1>0. t - 2 \in Nat /\ 1 \in Nat /\ 2 \in Nat
  BY StatusType
<1>1. PICK h : h = Status!GroupPlace(frame)
  OBVIOUS
<1>2. \A k \in 1 .. 31 : h[k] \in Nat
  BY <1>1, PlacesType
<1>3. PICK row : row = Status!Drawing(frame)
  OBVIOUS
<1>4. v \in { x \in Status!Drawn(frame) : Status!HasSensor(x) }
        <=> \E k \in 1 .. 30 : v \in Sensed(row[k], h[k])
  BY Zenon, <1>1, <1>3, DrawnGroups
<1>5. /\ row[1] = << "address", 1, 1 >> /\ row[2] = << "reserved", 1, 1 >>
      /\ row[3] = << "cell_count", 1, 1 >> /\ row[4] = << "cell_voltage", c, 2 >>
      /\ row[5] = << "temp_count", 1, 1 >> /\ row[6] = << "cell_temperature", t - 2, 2 >>
      /\ row[7] = << "ambient_temperature", 1, 2 >>
      /\ row[8] = << "mosfet_temperature", 1, 2 >> /\ row[9] = << "current", 1, 2 >>
      /\ row[10] = << "total_voltage", 1, 2 >>
      /\ row[11] = << "capacity_remaining", 1, 2 >> /\ row[12] = << "reserved", 1, 1 >>
      /\ row[13] = << "battery_capacity", 1, 2 >>
      /\ row[14] = << "state_of_charge", 1, 2 >>
      /\ row[15] = << "nominal_capacity", 1, 2 >>
      /\ row[16] = << "charging_cycles", 1, 2 >>
      /\ row[17] = << "state_of_health", 1, 2 >> /\ row[18] = << "port_voltage", 1, 2 >>
      /\ row[19] = << "cell_alarm", c, 1 >>
      /\ row[20] = << "temperature_alarm", t - 2, 1 >>
      /\ row[21] = << "ambient_alarm", 1, 1 >> /\ row[22] = << "mosfet_alarm", 1, 1 >>
      /\ row[23] = << "current_alarm", 1, 1 >> /\ row[24] = << "voltage_alarm", 1, 1 >>
      /\ row[25] = << "system_status", 1, 1 >> /\ row[26] = << "switch_status", 1, 1 >>
      /\ row[27] = << "alarm_count", 1, 1 >> /\ row[28] = << "alarm_event", a, 1 >>
      /\ row[29] = << "balancing", b, 1 >> /\ row[30] = << "disconnected", b, 1 >>
  BY Zenon, <1>3 DEF Status!Drawing, Status!BitBytes
<1>6. ~(v \in Sensed(row[1], h[1]))
  BY <1>0, <1>2, <1>5, SensedNone
<1>7. ~(v \in Sensed(row[2], h[2]))
  BY <1>0, <1>2, <1>5, SensedNone
<1>8. v \in Sensed(row[3], h[3]) <=> v = << "cell_count", 1, h[3] >>
  BY <1>0, <1>2, <1>5, SensedOne DEF Single
<1>9. v \in Sensed(row[4], h[4]) <=> v \in ValuesOf("cell_voltage", Fewest(c, 24), h[4], 2)
  <2>1. row[4] = << "cell_voltage", c, 2 >> /\ h[4] \in Nat
    BY <1>2, <1>5
  <2> QED
    BY <1>0, <2>1, SensedCells DEF ByCell
<1>10. v \in Sensed(row[5], h[5]) <=> v = << "temp_count", 1, h[5] >>
  BY <1>0, <1>2, <1>5, SensedOne DEF Single
<1>11. v \in Sensed(row[6], h[6])
         <=> v \in ValuesOf("cell_temperature", Fewest(t - 2, 8), h[6], 2)
  <2>1. row[6] = << "cell_temperature", t - 2, 2 >> /\ h[6] \in Nat
    BY <1>2, <1>5
  <2> QED
    BY <1>0, <2>1, SensedTemps DEF ByTemp
<1>12. v \in Sensed(row[7], h[7]) <=> v = << "ambient_temperature", 1, h[7] >>
  BY <1>0, <1>2, <1>5, SensedOne DEF Single
<1>13. v \in Sensed(row[8], h[8]) <=> v = << "mosfet_temperature", 1, h[8] >>
  BY <1>0, <1>2, <1>5, SensedOne DEF Single
<1>14. v \in Sensed(row[9], h[9]) <=> v = << "current", 1, h[9] >>
  BY <1>0, <1>2, <1>5, SensedOne DEF Single
<1>15. v \in Sensed(row[10], h[10]) <=> v = << "total_voltage", 1, h[10] >>
  BY <1>0, <1>2, <1>5, SensedOne DEF Single
<1>16. v \in Sensed(row[11], h[11]) <=> v = << "capacity_remaining", 1, h[11] >>
  BY <1>0, <1>2, <1>5, SensedOne DEF Single
<1>17. ~(v \in Sensed(row[12], h[12]))
  BY <1>0, <1>2, <1>5, SensedNone
<1>18. v \in Sensed(row[13], h[13]) <=> v = << "battery_capacity", 1, h[13] >>
  BY <1>0, <1>2, <1>5, SensedOne DEF Single
<1>19. v \in Sensed(row[14], h[14]) <=> v = << "state_of_charge", 1, h[14] >>
  BY <1>0, <1>2, <1>5, SensedOne DEF Single
<1>20. v \in Sensed(row[15], h[15]) <=> v = << "nominal_capacity", 1, h[15] >>
  BY <1>0, <1>2, <1>5, SensedOne DEF Single
<1>21. v \in Sensed(row[16], h[16]) <=> v = << "charging_cycles", 1, h[16] >>
  BY <1>0, <1>2, <1>5, SensedOne DEF Single
<1>22. v \in Sensed(row[17], h[17]) <=> v = << "state_of_health", 1, h[17] >>
  BY <1>0, <1>2, <1>5, SensedOne DEF Single
<1>23. v \in Sensed(row[18], h[18]) <=> v = << "port_voltage", 1, h[18] >>
  BY <1>0, <1>2, <1>5, SensedOne DEF Single
<1>24. v \in Sensed(row[19], h[19]) <=> v \in ValuesOf("cell_alarm", Fewest(c, 24), h[19], 1)
  <2>1. row[19] = << "cell_alarm", c, 1 >> /\ h[19] \in Nat
    BY <1>2, <1>5
  <2> QED
    BY <1>0, <2>1, SensedCells DEF ByCell
<1>25. v \in Sensed(row[20], h[20])
         <=> v \in ValuesOf("temperature_alarm", Fewest(t - 2, 8), h[20], 1)
  <2>1. row[20] = << "temperature_alarm", t - 2, 1 >> /\ h[20] \in Nat
    BY <1>2, <1>5
  <2> QED
    BY <1>0, <2>1, SensedTemps DEF ByTemp
<1>26. v \in Sensed(row[21], h[21]) <=> v = << "ambient_alarm", 1, h[21] >>
  BY <1>0, <1>2, <1>5, SensedOne DEF Single
<1>27. v \in Sensed(row[22], h[22]) <=> v = << "mosfet_alarm", 1, h[22] >>
  BY <1>0, <1>2, <1>5, SensedOne DEF Single
<1>28. v \in Sensed(row[23], h[23]) <=> v = << "current_alarm", 1, h[23] >>
  BY <1>0, <1>2, <1>5, SensedOne DEF Single
<1>29. v \in Sensed(row[24], h[24]) <=> v = << "voltage_alarm", 1, h[24] >>
  BY <1>0, <1>2, <1>5, SensedOne DEF Single
<1>30. v \in Sensed(row[25], h[25]) <=> v = << "system_status", 1, h[25] >>
  BY <1>0, <1>2, <1>5, SensedOne DEF Single
<1>31. v \in Sensed(row[26], h[26]) <=> v = << "switch_status", 1, h[26] >>
  BY <1>0, <1>2, <1>5, SensedOne DEF Single
<1>32. v \in Sensed(row[27], h[27]) <=> v = << "alarm_count", 1, h[27] >>
  BY <1>0, <1>2, <1>5, SensedOne DEF Single
<1>33. v \in Sensed(row[28], h[28]) <=> v \in ValuesOf("alarm_event", a, h[28], 1)
  <2>1. row[28] = << "alarm_event", a, 1 >> /\ h[28] \in Nat
    BY <1>2, <1>5
  <2> QED
    BY <1>0, <2>1, SensedAll DEF ByCell, ByTemp
<1>34. v \in Sensed(row[29], h[29]) <=> v \in ValuesOf("balancing", b, h[29], 1)
  <2>1. row[29] = << "balancing", b, 1 >> /\ h[29] \in Nat
    BY <1>2, <1>5
  <2> QED
    BY <1>0, <2>1, SensedAll DEF ByCell, ByTemp
<1>35. v \in Sensed(row[30], h[30]) <=> v \in ValuesOf("disconnected", b, h[30], 1)
  <2>1. row[30] = << "disconnected", b, 1 >> /\ h[30] \in Nat
    BY <1>2, <1>5
  <2> QED
    BY <1>0, <2>1, SensedAll DEF ByCell, ByTemp
<1>36. OneRead(v, h, c, t, a, b) <=> \E k \in 1 .. 30 : v \in Sensed(row[k], h[k])
  <2>1. ASSUME NEW k \in 1 .. 30, v \in Sensed(row[k], h[k])
        PROVE  OneRead(v, h, c, t, a, b)
    BY <2>1, <1>6, <1>7, <1>8, <1>9, <1>10, <1>11, <1>12, <1>13, <1>14, <1>15, <1>16, <1>17,
       <1>18, <1>19, <1>20, <1>21, <1>22, <1>23, <1>24, <1>25, <1>26, <1>27, <1>28,
       <1>29, <1>30, <1>31, <1>32, <1>33, <1>34, <1>35 DEF OneRead
  <2>2. ASSUME OneRead(v, h, c, t, a, b) PROVE \E k \in 1 .. 30 : v \in Sensed(row[k], h[k])
    BY <2>2, <1>6, <1>7, <1>8, <1>9, <1>10, <1>11, <1>12, <1>13, <1>14, <1>15, <1>16, <1>17,
       <1>18, <1>19, <1>20, <1>21, <1>22, <1>23, <1>24, <1>25, <1>26, <1>27, <1>28,
       <1>29, <1>30, <1>31, <1>32, <1>33, <1>34, <1>35 DEF OneRead
  <2> QED
    BY <2>1, <2>2
<1> QED
  BY Zenon, <1>1, <1>4, <1>36

\* The values the code reads, by where it is when it reads them.
LEMMA CodeRead ==
  ASSUME NEW frame \in StatusInputs,
         NEW c \in Nat, NEW t \in Nat, NEW a \in Nat, NEW b \in Nat,
         c = frame.cells, t = frame.temps, a = frame.alarms, b = Status!BitBytes(frame), NEW v
  PROVE  v \in Status!Read(frame) <=> OneRead(v, Status!GroupPlace(frame), c, t, a, b)
<1>1. PICK h : h = Status!GroupPlace(frame)
  OBVIOUS
<1>2. StartsAt(h, c, t, a, b)
  BY Zenon, <1>1, GroupStarts
<1>3. CodeAt(frame, c, t, a)
  BY Zenon, CodePlaces
<1>4. PICK temps \in Nat, main \in Nat, alarms \in Nat, protection \in Nat, events \in Nat,
           balancing \in Nat, cellTemps \in Nat :
        /\ temps = Status!TempsPlace(frame) /\ main = Status!MainPlace(frame)
        /\ alarms = Status!AlarmsPlace(frame) /\ protection = Status!ProtectionPlace(frame)
        /\ events = Status!EventsPlace(frame) /\ balancing = Status!BalancingPlace(frame)
        /\ cellTemps = Status!CellTemps(frame)
  <2>1. /\ Status!TempsPlace(frame) \in Nat /\ Status!MainPlace(frame) \in Nat
        /\ Status!AlarmsPlace(frame) \in Nat /\ Status!ProtectionPlace(frame) \in Nat
        /\ Status!EventsPlace(frame) \in Nat /\ Status!BalancingPlace(frame) \in Nat
        /\ Status!CellTemps(frame) \in Nat
    BY <1>3 DEF CodeAt
  <2> QED
    BY Zenon, <2>1
<1>5. \A k \in 1 .. 31 : h[k] \in Nat
  BY <1>1, PlacesType
<1>6. /\ 9 = h[3] /\ 10 = h[4] /\ temps = h[5] /\ temps + 1 = h[6]
      /\ temps + 1 + 2 * cellTemps = h[7] /\ temps + 3 + 2 * cellTemps = h[8]
      /\ main = h[9] /\ main + 2 = h[10] /\ main + 4 = h[11] /\ main + 7 = h[13]
      /\ main + 9 = h[14] /\ main + 11 = h[15] /\ main + 13 = h[16]
      /\ main + 15 = h[17] /\ main + 17 = h[18]
  BY <1>2, <1>3, <1>4 DEF StartsAt, CodeAt
<1>7. /\ alarms = h[19] /\ alarms + c = h[20]
      /\ alarms + c + t - 2 = h[21] /\ alarms + c + t - 1 = h[22]
      /\ protection = h[23] /\ protection + 1 = h[24] /\ protection + 2 = h[25]
      /\ protection + 3 = h[26] /\ protection + 4 = h[27]
      /\ events = h[28] /\ balancing = h[29] /\ balancing + b = h[30]
  BY <1>2, <1>3, <1>4 DEF StartsAt, CodeAt
<1>8. /\ \A n \in Nat : Status!UpTo(n, 24) = 1 .. Fewest(n, 24) /\ Fewest(n, 24) \in Nat
      /\ \A n \in Nat : Status!UpTo(n, 8) = 1 .. Fewest(n, 8) /\ Fewest(n, 8) \in Nat
  BY DEF Status!UpTo, Fewest
<1>9. { << "cell_voltage", i, 10 + 2 * (i - 1) >> : i \in Status!UpTo(c, 24) }
        = ValuesOf("cell_voltage", Fewest(c, 24), h[4], 2)
  BY <1>5, <1>6, <1>8, ValuesOfWords
<1>10. { << "cell_temperature", i, temps + 1 + 2 * (i - 1) >> : i \in Status!UpTo(cellTemps, 8) }
        = ValuesOf("cell_temperature", Fewest(t - 2, 8), h[6], 2)
  <2>1. Status!UpTo(cellTemps, 8) = 1 .. Fewest(t - 2, 8) /\ Fewest(t - 2, 8) \in Nat
    BY <1>3, <1>4, <1>8 DEF CodeAt
  <2>2. temps + 1 \in Nat
    OBVIOUS
  <2>3. { << "cell_temperature", i, temps + 1 + 2 * (i - 1) >> : i \in 1 .. Fewest(t - 2, 8) }
          = ValuesOf("cell_temperature", Fewest(t - 2, 8), temps + 1, 2)
    BY Zenon, <2>1, <2>2, ValuesOfWords
  <2> QED
    BY <1>6, <2>1, <2>3
<1>11. { << "cell_alarm", i, alarms + i - 1 >> : i \in Status!UpTo(c, 24) }
        = ValuesOf("cell_alarm", Fewest(c, 24), h[19], 1)
  BY <1>5, <1>7, <1>8, ValuesOfBytes
<1>12. { << "temperature_alarm", i, alarms + c + i - 1 >> : i \in Status!UpTo(cellTemps, 8) }
        = ValuesOf("temperature_alarm", Fewest(t - 2, 8), h[20], 1)
  <2>1. Status!UpTo(cellTemps, 8) = 1 .. Fewest(t - 2, 8) /\ Fewest(t - 2, 8) \in Nat
    BY <1>3, <1>4, <1>8 DEF CodeAt
  <2>2. alarms + c \in Nat
    OBVIOUS
  <2>3. { << "temperature_alarm", i, alarms + c + i - 1 >> : i \in 1 .. Fewest(t - 2, 8) }
          = ValuesOf("temperature_alarm", Fewest(t - 2, 8), alarms + c, 1)
    BY Zenon, <2>1, <2>2, ValuesOfBytes
  <2> QED
    BY <1>7, <2>1, <2>3
<1>13. { << "alarm_event", i, events + i - 1 >> : i \in 1 .. 8 }
         \cup { << "alarm_event", i, events + i - 1 >> :
                  i \in { n \in 9 .. frame.alarms : events + n - 1 < frame.size } }
       = ValuesOf("alarm_event", a, h[28], 1)
  <2>1. { << "alarm_event", i, events + i - 1 >> : i \in 1 .. 8 }
          \cup { << "alarm_event", i, events + i - 1 >> :
                   i \in { n \in 9 .. frame.alarms : events + n - 1 < frame.size } }
        = ValuesOf("alarm_event", a, events, 1)
    BY Zenon, <1>4, EventsRead
  <2> QED
    BY <1>7, <2>1
<1>14. { << "balancing", i, balancing + i - 1 >> : i \in 1 .. b }
         = ValuesOf("balancing", b, h[29], 1)
  BY <1>7, ValuesOfBytes
<1>15. { << "disconnected", i, balancing + b + i - 1 >> : i \in 1 .. b }
         = ValuesOf("disconnected", b, h[30], 1)
  <2>1. balancing + b \in Nat
    OBVIOUS
  <2>2. { << "disconnected", i, balancing + b + i - 1 >> : i \in 1 .. b }
          = ValuesOf("disconnected", b, balancing + b, 1)
    BY Zenon, <2>1, ValuesOfBytes
  <2> QED
    BY <1>7, <2>2
<1>16. Status!ReadValues(frame)
         = { << "cell_count", 1, h[3] >>, << "temp_count", 1, h[5] >>,
             << "ambient_temperature", 1, h[7] >>, << "mosfet_temperature", 1, h[8] >>,
             << "current", 1, h[9] >>, << "total_voltage", 1, h[10] >>,
             << "capacity_remaining", 1, h[11] >>, << "battery_capacity", 1, h[13] >>,
             << "state_of_charge", 1, h[14] >>, << "nominal_capacity", 1, h[15] >>,
             << "charging_cycles", 1, h[16] >>, << "state_of_health", 1, h[17] >>,
             << "port_voltage", 1, h[18] >>, << "ambient_alarm", 1, h[21] >>,
             << "mosfet_alarm", 1, h[22] >>, << "current_alarm", 1, h[23] >>,
             << "voltage_alarm", 1, h[24] >>, << "system_status", 1, h[25] >>,
             << "switch_status", 1, h[26] >>, << "alarm_count", 1, h[27] >> }
           \cup ValuesOf("cell_voltage", Fewest(c, 24), h[4], 2)
           \cup ValuesOf("cell_temperature", Fewest(t - 2, 8), h[6], 2)
           \cup ValuesOf("cell_alarm", Fewest(c, 24), h[19], 1)
           \cup ValuesOf("temperature_alarm", Fewest(t - 2, 8), h[20], 1)
  BY <1>4, <1>6, <1>7, <1>9, <1>10, <1>11, <1>12 DEF Status!ReadValues
<1>17. Status!Read(frame)
         = Status!ReadValues(frame)
             \cup ValuesOf("alarm_event", a, h[28], 1) \cup ValuesOf("balancing", b, h[29], 1)
             \cup ValuesOf("disconnected", b, h[30], 1)
  BY <1>4, <1>13, <1>14, <1>15 DEF Status!Read
<1>18. v \in Status!Read(frame) <=> OneRead(v, h, c, t, a, b)
  BY <1>16, <1>17 DEF OneRead
<1> QED
  BY Zenon, <1>1, <1>18

\* What the code reads is what is drawn.
LEMMA ReadAsDrawn ==
  ASSUME NEW frame \in StatusInputs
  PROVE  Status!Read(frame) = { v \in Status!Drawn(frame) : Status!HasSensor(v) }
<1>1. PICK c \in Nat, t \in Nat, a \in Nat, b \in Nat :
        c = frame.cells /\ t = frame.temps /\ a = frame.alarms /\ b = Status!BitBytes(frame)
  BY StatusType
<1>2. ASSUME NEW v
      PROVE  v \in Status!Read(frame)
               <=> v \in { x \in Status!Drawn(frame) : Status!HasSensor(x) }
  <2>1. v \in Status!Read(frame) <=> OneRead(v, Status!GroupPlace(frame), c, t, a, b)
    BY Zenon, <1>1, CodeRead
  <2>2. v \in { x \in Status!Drawn(frame) : Status!HasSensor(x) }
          <=> OneRead(v, Status!GroupPlace(frame), c, t, a, b)
    BY Zenon, <1>1, DrawnRead
  <2> QED
    BY Zenon, <2>1, <2>2
<1> QED
  BY <1>2

\* Every value of a status frame is read from where the drawing has it, for every number of
\* cells, temperatures and alarm events, and every value drawn that has a sensor is read.
THEOREM StatusCorrect == Spec => []StatusReadWhereDrawn
<1>1. StageInv => StatusReadWhereDrawn
  BY ReadAsDrawn DEF StageInv, StatusKnown, StatusReadWhereDrawn
<1> QED
  BY <1>1, StageInvariant, PTL
-----------------------------------------------------------------------------
(* The texts of the alarms. *)

\* Whether a text names a set of alarms, in their order, a separator between two of them.
NamesAll(text, S) ==
  IF S = {} THEN text = << >>
  ELSE /\ Len(text) + 1 = 2 * Cardinality(S)
       /\ \A k \in 1 .. Len(text) :
            IF k % 2 = 0 THEN text[k] = Texts!Separator
            ELSE text[k] \in S /\ (k > 1 => Texts!Before(text[k - 2], text[k]))

Token == (0 .. 9) \X (0 .. 9)

\* The alarms that are named before others.
Precede(S, T) == \A m \in S, n \in T : Texts!Before(m, n)

\* Two sequences in a row.
InARow(c, a, b, m, r) ==
  /\ Len(c) = m + r
  /\ \A k \in 1 .. m : c[k] = a[k]
  /\ \A k \in 1 .. r : c[m + k] = b[k]

LEMMA Concatenated ==
  ASSUME NEW E, NEW a \in Seq(E), NEW b \in Seq(E), NEW m \in Nat, NEW r \in Nat,
         m = Len(a), r = Len(b), NEW c, c = a \o b
  PROVE  InARow(c, a, b, m, r)
BY DEF InARow

LEMMA SeparatorType == Texts!Separator \in Token
BY DEF Texts!Separator, Token

\* Behind a text of the earlier alarms and a separator, a text of the later ones.
LEMMA NamesMore ==
  ASSUME NEW S, NEW T, IsFiniteSet(S), IsFiniteSet(T), S # {}, T # {}, S \cap T = {}, Precede(S, T),
         NEW text \in Seq(Token), NEW alarms \in Seq(Token), NamesAll(text, S), NamesAll(alarms, T)
  PROVE  NamesAll(text \o << Texts!Separator >> \o alarms, S \cup T)
<1>1. PICK p \in Nat, q \in Nat : p = Cardinality(S) /\ q = Cardinality(T) /\ p > 0 /\ q > 0
  BY FS_CardinalityType, FS_EmptySet
<1>0. p >= 1
  BY <1>1
<1>2. Cardinality(S \cup T) = p + q
  <2>1. Cardinality(S \cup T) = Cardinality(S) + Cardinality(T) - Cardinality(S \cap T)
    BY Zenon, FS_Union
  <2>2. Cardinality(S \cap T) = 0
    BY Zenon, FS_EmptySet
  <2> QED
    BY <1>1, <2>1, <2>2
<1>3. Len(text) = 2 * p - 1 /\ Len(alarms) = 2 * q - 1
  BY <1>1 DEF NamesAll
<1>4. PICK new : new = text \o << Texts!Separator >> \o alarms
  OBVIOUS
<1>5. /\ Len(new) = 2 * (p + q) - 1
      /\ \A k \in 1 .. 2 * p - 1 : new[k] = text[k]
      /\ new[2 * p] = Texts!Separator
      /\ \A k \in 1 .. 2 * q - 1 : new[2 * p + k] = alarms[k]
  <2>1. PICK sep \in Token : sep = Texts!Separator
    BY SeparatorType
  <2>2. PICK front : front = text \o << sep >>
    OBVIOUS
  <2>3. /\ front \in Seq(Token) /\ Len(front) = 2 * p /\ front[2 * p] = sep
        /\ \A k \in 1 .. 2 * p - 1 : front[k] = text[k]
    <3>1. PICK n \in Nat : n = Len(text)
      BY <1>1, <1>3
    <3>2. /\ front \in Seq(Token) /\ Len(front) = n + 1 /\ front[n + 1] = sep
          /\ \A k \in 1 .. n : front[k] = text[k]
      BY <2>2, <3>1
    <3>3. n = 2 * p - 1 /\ n + 1 = 2 * p
      BY <1>1, <1>3, <3>1
    <3> QED
      BY <3>2, <3>3
  <2>4. new = front \o alarms
    BY Zenon, <1>4, <2>1, <2>2
  <2>5. PICK m \in Nat, r \in Nat : m = Len(front) /\ r = Len(alarms)
    BY <1>1, <1>3, <2>3
  <2>6. InARow(new, front, alarms, m, r)
    BY Zenon, <2>3, <2>4, <2>5, Concatenated
  <2>7. m = 2 * p /\ r = 2 * q - 1
    BY <1>3, <2>3, <2>5
  <2> QED
    <3>1. Len(new) = 2 * (p + q) - 1
      <4>1. 2 * p + (2 * q - 1) = 2 * (p + q) - 1
        OBVIOUS
      <4> QED
        BY <2>6, <2>7, <4>1 DEF InARow
    <3>2. ASSUME NEW k \in 1 .. 2 * p - 1 PROVE new[k] = text[k]
      <4>1. k \in 1 .. m
        BY <2>7
      <4>2. new[k] = front[k]
        BY Zenon, <2>6, <4>1 DEF InARow
      <4>3. front[k] = text[k]
        BY Zenon, <2>3
      <4> QED
        BY Zenon, <4>2, <4>3
    <3>3. new[2 * p] = Texts!Separator
      <4>1. 2 * p \in 1 .. m
        BY <1>1, <2>7
      <4> QED
        BY <2>1, <2>3, <2>6, <4>1 DEF InARow
    <3> QED
      BY <2>6, <2>7, <3>1, <3>2, <3>3 DEF InARow
<1>6. ASSUME NEW k \in 1 .. 2 * p - 1
      PROVE  IF k % 2 = 0 THEN text[k] = Texts!Separator
             ELSE text[k] \in S /\ (k > 1 => Texts!Before(text[k - 2], text[k]))
  BY <1>3 DEF NamesAll
<1>7. ASSUME NEW k \in 1 .. 2 * q - 1
      PROVE  IF k % 2 = 0 THEN alarms[k] = Texts!Separator
             ELSE alarms[k] \in T /\ (k > 1 => Texts!Before(alarms[k - 2], alarms[k]))
  BY <1>3 DEF NamesAll
<1>8. ASSUME NEW k \in 1 .. 2 * (p + q) - 1
      PROVE  IF k % 2 = 0 THEN new[k] = Texts!Separator
             ELSE new[k] \in S \cup T /\ (k > 1 => Texts!Before(new[k - 2], new[k]))
  <2>1. CASE k <= 2 * p - 1
    <3>1. k \in 1 .. 2 * p - 1 /\ new[k] = text[k] /\ (k > 2 => new[k - 2] = text[k - 2])
      BY <1>5, <2>1
    <3>2. k % 2 # 0 /\ k > 1 => k > 2
      OBVIOUS
    <3> QED
      BY <1>6, <3>1, <3>2
  <2>2. CASE k = 2 * p
    <3>1. k % 2 = 0
      BY <2>2
    <3> QED
      BY <1>5, <2>2, <3>1
  <2>3. CASE k > 2 * p
    <3>1. PICK j \in 1 .. 2 * q - 1 : k = 2 * p + j
      <4>1. k - 2 * p \in 1 .. 2 * q - 1 /\ k = 2 * p + (k - 2 * p)
        BY <2>3
      <4> QED
        BY <4>1
    <3>2. k % 2 = j % 2
      BY <3>1
    <3>3. new[k] = alarms[j]
      BY <1>5, <3>1
    <3>4. CASE j = 1
      <4>1. k - 2 = 2 * p - 1 /\ 2 * p - 1 \in 1 .. 2 * p - 1 /\ j % 2 # 0
        <5>1. j = 1 /\ j % 2 # 0
          BY <3>4
        <5>2. k - 2 = 2 * p - 1
          BY <3>1, <5>1
        <5>3. 2 * p - 1 \in 1 .. 2 * p - 1
          BY <1>0
        <5> QED
          BY <5>1, <5>2, <5>3
      <4>0. (2 * p - 1) % 2 # 0
        OBVIOUS
      <4>2. new[k - 2] = text[2 * p - 1] /\ text[2 * p - 1] \in S /\ alarms[j] \in T
        BY <1>5, <1>6, <1>7, <4>0, <4>1
      <4> QED
        BY <3>2, <3>3, <4>1, <4>2 DEF Precede
    <3>5. CASE j > 1 /\ j % 2 # 0
      <4>1. j - 2 \in 1 .. 2 * q - 1 /\ k - 2 = 2 * p + (j - 2)
        BY <3>1, <3>5
      <4>2. new[k - 2] = alarms[j - 2]
        BY <1>5, <4>1
      <4> QED
        BY <1>7, <3>2, <3>3, <3>5, <4>2
    <3>6. CASE j % 2 = 0
      BY <1>7, <3>2, <3>3, <3>6
    <3> QED
      BY <3>4, <3>5, <3>6
  <2> QED
    BY <2>1, <2>2, <2>3
<1>9. S \cup T # {} /\ Len(new) + 1 = 2 * Cardinality(S \cup T)
  BY <1>1, <1>2, <1>5
<1>10. \A k \in 1 .. Len(new) :
         IF k % 2 = 0 THEN new[k] = Texts!Separator
         ELSE new[k] \in S \cup T /\ (k > 1 => Texts!Before(new[k - 2], new[k]))
  BY <1>5, <1>8
<1> QED
  BY Zenon, <1>4, <1>9, <1>10 DEF NamesAll

\* A text is empty when there is nothing to name.
LEMMA NamesNothing ==
  ASSUME NEW S, IsFiniteSet(S), NEW text \in Seq(Token), NamesAll(text, S)
  PROVE  text = << >> <=> S = {}
<1>1. CASE S # {}
  <2>1. Cardinality(S) \in Nat /\ Cardinality(S) # 0
    BY <1>1, FS_CardinalityType, FS_EmptySet
  <2>2. Len(text) + 1 = 2 * Cardinality(S)
    BY <1>1 DEF NamesAll
  <2>3. PICK n \in Nat : n = Len(text)
    OBVIOUS
  <2>4. n # 0
    BY <2>1, <2>2, <2>3
  <2> QED
    BY <1>1, <2>3, <2>4
<1>2. CASE S = {}
  BY <1>2 DEF NamesAll
<1> QED
  BY <1>1, <1>2

\* Joining goes on with a text, and starts one.
LEMMA JoinedNames ==
  ASSUME NEW S, NEW T, IsFiniteSet(S), IsFiniteSet(T), S \cap T = {}, Precede(S, T),
         NEW text \in Seq(Token), NEW alarms \in Seq(Token), NamesAll(text, S), NamesAll(alarms, T)
  PROVE  /\ Texts!Joined(text, alarms) \in Seq(Token)
         /\ NamesAll(Texts!Joined(text, alarms), S \cup T)
<1>1. CASE T = {}
  <2>1. alarms = << >> /\ S \cup T = S
    BY Zenon, <1>1, NamesNothing
  <2>2. Texts!Joined(text, alarms) = text
    BY <2>1 DEF Texts!Joined
  <2> QED
    BY <2>1, <2>2
<1>2. CASE T # {} /\ S = {}
  <2>1. alarms # << >> /\ text = << >>
    BY Zenon, <1>2, NamesNothing
  <2>2. S \cup T = T
    BY <1>2
  <2>3. Texts!Joined(text, alarms) = alarms
    BY <2>1 DEF Texts!Joined
  <2> QED
    BY <2>2, <2>3
<1>3. CASE T # {} /\ S # {}
  <2>1. alarms # << >> /\ text # << >>
    BY Zenon, <1>3, NamesNothing
  <2>2. Texts!Joined(text, alarms) = text \o << Texts!Separator >> \o alarms
    BY Zenon, <2>1 DEF Texts!Joined
  <2>3. NamesAll(text \o << Texts!Separator >> \o alarms, S \cup T)
    BY Zenon, <1>3, NamesMore
  <2>4. text \o << Texts!Separator >> \o alarms \in Seq(Token)
    <3>1. PICK sep \in Token : sep = Texts!Separator
      BY SeparatorType
    <3>2. text \o << sep >> \o alarms \in Seq(Token)
      OBVIOUS
    <3> QED
      BY Zenon, <3>1, <3>2
  <2> QED
    BY Zenon, <2>2, <2>3, <2>4
<1> QED
  BY <1>1, <1>2, <1>3

\* One message is a text of one alarm.
LEMMA NamesOne ==
  ASSUME NEW m \in Token
  PROVE  << m >> \in Seq(Token) /\ NamesAll(<< m >>, {m}) /\ IsFiniteSet({m})
<1>1. Cardinality({m}) = 1 /\ IsFiniteSet({m})
  BY FS_Singleton
<1>2. PICK one : one = << m >>
  OBVIOUS
<1>3. one \in Seq(Token) /\ Len(one) = 1 /\ one[1] = m
  BY <1>2
<1>4. \A k \in 1 .. Len(one) : k = 1 /\ ~(k % 2 = 0) /\ ~(k > 1)
  BY <1>3
<1>5. NamesAll(one, {m})
  BY <1>1, <1>3, <1>4 DEF NamesAll
<1> QED
  BY Zenon, <1>1, <1>2, <1>3, <1>5

\* A text with a separator behind it.
Ended(text) == IF text = << >> THEN << >> ELSE text \o << Texts!Separator >>

LEMMA EndedFront ==
  ASSUME NEW text \in Seq(Token)
  PROVE  (IF Ended(text) # << >> THEN Texts!Front(Ended(text)) ELSE Ended(text)) = text
<1>1. CASE text = << >>
  BY <1>1 DEF Ended
<1>2. CASE text # << >>
  <2>1. PICK sep \in Token : sep = Texts!Separator
    BY SeparatorType
  <2>2. PICK n \in Nat : n = Len(text)
    OBVIOUS
  <2>3. PICK ended : ended = text \o << sep >>
    OBVIOUS
  <2>4. ended \in Seq(Token) /\ Len(ended) = n + 1 /\ \A k \in 1 .. n : ended[k] = text[k]
    BY <2>2, <2>3
  <2>5. ended # << >> /\ Len(ended) - 1 = n
    BY <2>4
  <2>6. SubSeq(ended, 1, n) = text
    BY <2>2, <2>4
  <2>7. Texts!Front(ended) = text
    BY <2>5, <2>6 DEF Texts!Front
  <2>8. Ended(text) = ended
    BY Zenon, <1>2, <2>1, <2>3 DEF Ended
  <2> QED
    BY Zenon, <2>5, <2>7, <2>8
<1> QED
  BY <1>1, <1>2

\* A message and a separator behind such a text end the longer one.
LEMMA EndedMore ==
  ASSUME NEW text \in Seq(Token), NEW m \in Token
  PROVE  Ended(text) \o << m, Texts!Separator >> = Ended(Texts!Joined(text, << m >>))
<1>1. PICK sep \in Token : sep = Texts!Separator
  BY SeparatorType
<1>2. << m >> # << >>
  OBVIOUS
<1>3. CASE text = << >>
  <2>1. Texts!Joined(text, << m >>) = << m >>
    BY Zenon, <1>2, <1>3 DEF Texts!Joined
  <2>2. Ended(<< m >>) = << m >> \o << sep >> /\ Ended(text) = << >>
    BY Zenon, <1>1, <1>2, <1>3 DEF Ended
  <2>3. << >> \o << m, sep >> = << m >> \o << sep >>
    OBVIOUS
  <2> QED
    BY Zenon, <1>1, <2>1, <2>2, <2>3
<1>4. CASE text # << >>
  <2>1. Texts!Joined(text, << m >>) = text \o << sep >> \o << m >>
    BY Zenon, <1>1, <1>2, <1>4 DEF Texts!Joined
  <2>2. PICK more : more = text \o << sep >> \o << m >>
    OBVIOUS
  <2>3. more # << >>
    BY <2>2
  <2>4. Ended(more) = more \o << sep >> /\ Ended(text) = text \o << sep >>
    BY Zenon, <1>1, <1>4, <2>3 DEF Ended
  <2>5. (text \o << sep >>) \o << m, sep >> = (text \o << sep >> \o << m >>) \o << sep >>
    OBVIOUS
  <2> QED
    BY Zenon, <1>1, <2>1, <2>2, <2>4, <2>5
<1> QED
  BY <1>3, <1>4

\* The alarms of an event up to a bit, and of the events up to one of them.
EventAlarms(event, mask, n) == { << event, bit >> : bit \in { b \in mask : b < n } }
AlarmsUpTo(events, n) == { m \in Texts!Active(events) : m[1] <= n }

\* A value for which a text names a finite set of alarms.
NamedBy(value, S) ==
  /\ IsFiniteSet(S)
  /\ \E text \in Seq(Token) : NamesAll(text, S) /\ value = Ended(text)

\* What the loop over the bits appends to the value so far.
WithBit(event, mask, n, value) ==
  IF n \in mask THEN value \o << Texts!Message(event, n), Texts!Separator >> ELSE value

LEMMA MessageType ==
  ASSUME NEW event \in 1 .. 8, NEW bit \in 0 .. 7
  PROVE  Texts!Message(event, bit) = << event, bit >> /\ << event, bit >> \in Token
BY DEF Texts!Message, Token

\* With the next bit of the mask.
LEMMA NextBit ==
  ASSUME NEW event \in 1 .. 8, NEW mask \in SUBSET (0 .. 7), NEW n \in 0 .. 7, NEW value,
         NamedBy(value, EventAlarms(event, mask, n))
  PROVE  NamedBy(WithBit(event, mask, n, value), EventAlarms(event, mask, n + 1))
<1> DEFINE S == EventAlarms(event, mask, n)
           m == << event, n >>
<1>1. PICK text \in Seq(Token) : NamesAll(text, S) /\ value = Ended(text)
  BY DEF NamedBy
<1>2. IsFiniteSet(S)
  BY DEF NamedBy
<1>3. CASE n \in mask
  <2>1. EventAlarms(event, mask, n + 1) = S \cup {m}
    <3>1. { b \in mask : b < n + 1 } = { b \in mask : b < n } \cup {n}
      <4>1. \A b \in mask : b \in 0 .. 7
        OBVIOUS
      <4>2. ASSUME NEW b PROVE b \in mask /\ b < n + 1 <=> (b \in mask /\ b < n) \/ b = n
        <5>1. CASE b \in mask
          <6>1. b \in Int /\ (b < n + 1 <=> b < n \/ b = n)
            BY <4>1, <5>1
          <6> QED
            BY <5>1, <6>1
        <5>2. CASE b \notin mask
          BY <1>3, <5>2
        <5> QED
          BY <5>1, <5>2
      <4> QED
        BY <1>3, <4>2
    <3> QED
      BY <3>1 DEF EventAlarms
  <2>2. S \cap {m} = {} /\ Precede(S, {m})
    BY DEF EventAlarms, Precede, Texts!Before
  <2>3. m \in Token /\ Texts!Message(event, n) = m
    BY MessageType
  <2> HIDE DEF S, m
  <2>4. << m >> \in Seq(Token) /\ NamesAll(<< m >>, {m}) /\ IsFiniteSet({m})
    BY Zenon, <2>3, NamesOne
  <2>5. /\ Texts!Joined(text, << m >>) \in Seq(Token)
        /\ NamesAll(Texts!Joined(text, << m >>), S \cup {m})
    BY Zenon, <1>1, <1>2, <2>2, <2>4, JoinedNames
  <2>6. Ended(text) \o << m, Texts!Separator >> = Ended(Texts!Joined(text, << m >>))
    BY Zenon, <2>3, EndedMore
  <2>7. IsFiniteSet(S \cup {m})
    BY Zenon, <1>2, FS_AddElement
  <2>8. NamedBy(Ended(text) \o << m, Texts!Separator >>, S \cup {m})
    BY Zenon, <2>5, <2>6, <2>7 DEF NamedBy
  <2> QED
    BY Zenon, <1>1, <1>3, <2>1, <2>3, <2>8 DEF WithBit
<1>4. CASE n \notin mask
  <2>1. { b \in mask : b < n + 1 } = { b \in mask : b < n }
    <3>1. \A b \in mask : b \in 0 .. 7
      OBVIOUS
    <3>2. ASSUME NEW b \in mask PROVE b < n + 1 <=> b < n
      BY <1>4, <3>1
    <3> QED
      BY <3>2
  <2> QED
    BY <1>4, <2>1 DEF EventAlarms, WithBit
<1> QED
  BY <1>3, <1>4

\* What bitmask_to_string_ makes of an event: a text that names its alarms.
LEMMA EventNamed ==
  ASSUME NEW event \in 1 .. 8, NEW mask \in SUBSET (0 .. 7)
  PROVE  /\ Texts!BitmaskToString(event, mask) \in Seq(Token)
         /\ NamesAll(Texts!BitmaskToString(event, mask), EventAlarms(event, mask, 8))
         /\ IsFiniteSet(EventAlarms(event, mask, 8))
<1> DEFINE Values(f) == f = [n \in 0 .. 8 |->
                               IF n = 0 THEN << >>
                               ELSE IF n - 1 \in mask
                                    THEN f[n - 1] \o << Texts!Message(event, n - 1), Texts!Separator >>
                                    ELSE f[n - 1]]
           V == Seq(Token)
           step == [k \in 1 .. 8 |-> [v \in V |-> WithBit(event, mask, k - 1, v)]]
<1>1. \A k \in 1 .. 8 : step[k] \in [V -> V]
  <2>1. ASSUME NEW k \in 1 .. 8, NEW v \in V PROVE WithBit(event, mask, k - 1, v) \in V
    <3>1. PICK m \in Token, sep \in Token : m = Texts!Message(event, k - 1) /\ sep = Texts!Separator
      <4>1. k - 1 \in 0 .. 7
        OBVIOUS
      <4> QED
        BY <4>1, MessageType, SeparatorType
    <3>2. v \o << m, sep >> \in V
      OBVIOUS
    <3> QED
      BY Zenon, <3>1, <3>2 DEF WithBit
  <2> HIDE DEF V
  <2> QED
    BY <2>1
<1>2. \E f : Values(f)
  <2>1. PICK eight \in Nat : eight = 8
    OBVIOUS
  <2>2. << >> \in V
    OBVIOUS
  <2>3. PICK f \in [0 .. eight -> V] : Follows(f, eight, << >>, step)
    <3> HIDE DEF step, V
    <3> QED
      BY <1>1, <2>1, <2>2, Recursion
  <2>4. f \in [0 .. 8 -> V] /\ f[0] = << >> /\ \A k \in 1 .. 8 : f[k] = step[k][f[k - 1]]
    BY <2>1, <2>3 DEF Follows
  <2>5. ASSUME NEW k \in 1 .. 8 PROVE f[k] = WithBit(event, mask, k - 1, f[k - 1])
    <3>1. k - 1 \in 0 .. 8
      OBVIOUS
    <3> HIDE DEF V
    <3> QED
      BY <2>4, <3>1
  <2>6. f = [n \in 0 .. 8 |-> IF n = 0 THEN << >> ELSE WithBit(event, mask, n - 1, f[n - 1])]
    <3>1. ASSUME NEW n \in 0 .. 8
          PROVE  f[n] = IF n = 0 THEN << >> ELSE WithBit(event, mask, n - 1, f[n - 1])
      <4>1. n # 0 => n \in 1 .. 8
        OBVIOUS
      <4> QED
        BY Zenon, <2>4, <2>5, <4>1
    <3> HIDE DEF V
    <3> QED
      BY <2>4, <3>1
  <2> QED
    BY Zenon, <2>6 DEF WithBit
<1>3. PICK g : g = CHOOSE f : Values(f)
  OBVIOUS
<1>4. Values(g)
  <2> HIDE DEF Values
  <2> QED
    BY Zenon, <1>2, <1>3
<1>5. g[0] = << >> /\ \A n \in 0 .. 7 : g[n + 1] = WithBit(event, mask, n, g[n])
  <2>1. g[0] = << >>
    <3>1. 0 \in 0 .. 8
      OBVIOUS
    <3> QED
      BY Zenon, <1>4, <3>1
  <2>2. ASSUME NEW n \in 0 .. 7 PROVE g[n + 1] = WithBit(event, mask, n, g[n])
    <3>1. n + 1 \in 0 .. 8 /\ n + 1 # 0 /\ (n + 1) - 1 = n
      OBVIOUS
    <3>2. g[n + 1] = WithBit(event, mask, (n + 1) - 1, g[(n + 1) - 1])
      BY Zenon, <1>4, <3>1 DEF WithBit
    <3> QED
      BY Zenon, <3>1, <3>2
  <2> QED
    BY <2>1, <2>2
<1> DEFINE P == { n \in 0 .. 8 : NamedBy(g[n], EventAlarms(event, mask, n)) }
<1>6. 0 \in P
  <2>1. { b \in mask : b < 0 } = {}
    <3>1. ASSUME NEW b \in mask PROVE ~(b < 0)
      <4>1. b \in 0 .. 7
        OBVIOUS
      <4> QED
        BY <4>1
    <3> QED
      BY <3>1
  <2>2. EventAlarms(event, mask, 0) = {}
    BY <2>1 DEF EventAlarms
  <2>3. << >> \in Seq(Token) /\ NamesAll(<< >>, {}) /\ Ended(<< >>) = << >>
    BY DEF NamesAll, Ended
  <2>4. NamedBy(<< >>, {})
    BY <2>3, FS_EmptySet DEF NamedBy
  <2>5. NamedBy(g[0], EventAlarms(event, mask, 0))
    BY Zenon, <1>5, <2>2, <2>4
  <2> QED
    BY <2>5
<1>7. ASSUME NEW n \in 0 .. 8, n < 8, n \in P PROVE n + 1 \in P
  <2>1. n \in 0 .. 7 /\ n + 1 \in 0 .. 8
    BY <1>7
  <2>2. NamedBy(g[n], EventAlarms(event, mask, n)) /\ g[n + 1] = WithBit(event, mask, n, g[n])
    BY <1>5, <1>7, <2>1
  <2>3. NamedBy(g[n + 1], EventAlarms(event, mask, n + 1))
    BY Zenon, <2>1, <2>2, NextBit
  <2> QED
    BY <2>1, <2>3
<1>8. 8 \in P
  <2> HIDE DEF P
  <2>1. PICK eight \in Nat : eight = 8
    OBVIOUS
  <2>2. 0 .. eight \subseteq P
    BY <1>6, <1>7, <2>1, Onward
  <2> QED
    BY <2>1, <2>2
<1>9. PICK text \in Seq(Token) : NamesAll(text, EventAlarms(event, mask, 8)) /\ g[8] = Ended(text)
  BY <1>8 DEF NamedBy
<1>10. Texts!BitmaskToString(event, mask) = IF g[8] # << >> THEN Texts!Front(g[8]) ELSE g[8]
  <2>1. Texts!BitmaskToString(event, mask)
          = IF (CHOOSE f : Values(f))[8] # << >> THEN Texts!Front((CHOOSE f : Values(f))[8])
            ELSE (CHOOSE f : Values(f))[8]
    BY Zenon DEF Texts!BitmaskToString
  <2> HIDE DEF Values
  <2> QED
    BY Zenon, <1>3, <2>1
<1>11. Texts!BitmaskToString(event, mask) = text
  BY Zenon, <1>9, <1>10, EndedFront
<1> QED
  BY <1>8, <1>9, <1>11 DEF NamedBy

\* The module of the texts counts as this one does.
LEMMA SameCardinality == \A S : Texts!Cardinality(S) = Cardinality(S)
BY DEF Texts!Cardinality, Cardinality

LEMMA JoinedType ==
  ASSUME NEW text \in Seq(Token), NEW alarms \in Seq(Token)
  PROVE  Texts!Joined(text, alarms) \in Seq(Token)
<1>1. PICK sep \in Token : sep = Texts!Separator
  BY SeparatorType
<1>2. text \o << sep >> \o alarms \in Seq(Token)
  OBVIOUS
<1> QED
  BY Zenon, <1>1, <1>2 DEF Texts!Joined

\* The alarms of one more event come behind those of the events before it.
LEMMA NextEventAlarms ==
  ASSUME NEW events \in Texts!EventSet, NEW n \in 0 .. 7
  PROVE  /\ AlarmsUpTo(events, n + 1)
              = AlarmsUpTo(events, n) \cup EventAlarms(n + 1, events[n + 1], 8)
         /\ AlarmsUpTo(events, n) \cap EventAlarms(n + 1, events[n + 1], 8) = {}
         /\ Precede(AlarmsUpTo(events, n), EventAlarms(n + 1, events[n + 1], 8))
<1>1. n + 1 \in 1 .. 8 /\ events[n + 1] \in SUBSET (0 .. 7)
  BY DEF Texts!EventSet
<1>2. ASSUME NEW m
      PROVE  m \in EventAlarms(n + 1, events[n + 1], 8)
               <=> m \in Texts!Active(events) /\ m[1] = n + 1
  <2>1. \A bit \in events[n + 1] : bit \in 0 .. 7 /\ bit < 8
    BY <1>1
  <2>2. m \in EventAlarms(n + 1, events[n + 1], 8)
          <=> \E bit \in events[n + 1] : m = << n + 1, bit >>
    BY <2>1 DEF EventAlarms
  <2>3. m \in Texts!Active(events) /\ m[1] = n + 1
          <=> \E bit \in events[n + 1] : m = << n + 1, bit >>
    BY <1>1, <2>1 DEF Texts!Active
  <2> QED
    BY Zenon, <2>2, <2>3
<1>3. ASSUME NEW m \in Texts!Active(events)
      PROVE  m[1] \in 1 .. 8 /\ m[2] \in 0 .. 7
  BY DEF Texts!Active
<1>4. ASSUME NEW m
      PROVE  m \in AlarmsUpTo(events, n + 1)
               <=> m \in AlarmsUpTo(events, n) \cup EventAlarms(n + 1, events[n + 1], 8)
  <2>1. CASE m \in Texts!Active(events)
    <3>1. m[1] <= n + 1 <=> m[1] <= n \/ m[1] = n + 1
      BY <1>3, <2>1
    <3> QED
      BY Zenon, <1>2, <2>1, <3>1 DEF AlarmsUpTo
  <2>2. CASE m \notin Texts!Active(events)
    BY Zenon, <1>2, <2>2 DEF AlarmsUpTo
  <2> QED
    BY <2>1, <2>2
<1>5. ASSUME NEW m \in AlarmsUpTo(events, n), NEW l \in EventAlarms(n + 1, events[n + 1], 8)
      PROVE  m # l /\ Texts!Before(m, l)
  <2>1. m \in Texts!Active(events) /\ m[1] <= n /\ l[1] = n + 1
    BY <1>2 DEF AlarmsUpTo
  <2>2. m[1] < l[1]
    BY <1>3, <2>1
  <2> QED
    BY <2>1, <2>2 DEF Texts!Before
<1> QED
  BY Zenon, <1>4, <1>5 DEF Precede

\* What is known of the text behind an event.
Told(text, events, n) ==
  /\ text \in Seq(Token) /\ IsFiniteSet(AlarmsUpTo(events, n))
  /\ NamesAll(text, AlarmsUpTo(events, n))

LEMMA NextEvent ==
  ASSUME NEW events \in Texts!EventSet, NEW n \in 0 .. 7, NEW text, Told(text, events, n)
  PROVE  Told(Texts!Joined(text, Texts!BitmaskToString(n + 1, events[n + 1])), events, n + 1)
<1> DEFINE S == AlarmsUpTo(events, n)
           T == EventAlarms(n + 1, events[n + 1], 8)
           alarms == Texts!BitmaskToString(n + 1, events[n + 1])
<1>1. n + 1 \in 1 .. 8 /\ events[n + 1] \in SUBSET (0 .. 7)
  BY DEF Texts!EventSet
<1>2. alarms \in Seq(Token) /\ NamesAll(alarms, T) /\ IsFiniteSet(T)
  BY Zenon, <1>1, EventNamed
<1>3. AlarmsUpTo(events, n + 1) = S \cup T /\ S \cap T = {} /\ Precede(S, T)
  BY Zenon, NextEventAlarms
<1>4. text \in Seq(Token) /\ IsFiniteSet(S) /\ NamesAll(text, S)
  BY Zenon DEF Told
<1> HIDE DEF S, T, alarms
<1>5. /\ Texts!Joined(text, alarms) \in Seq(Token)
      /\ NamesAll(Texts!Joined(text, alarms), S \cup T)
  BY Zenon, <1>2, <1>3, <1>4, JoinedNames
<1>6. IsFiniteSet(S \cup T)
  BY Zenon, <1>2, <1>4, FS_Union
<1>7. Told(Texts!Joined(text, alarms), events, n + 1)
  BY Zenon, <1>3, <1>5, <1>6 DEF Told
<1> QED
  BY Zenon, <1>7 DEF alarms

\* What decode_all_alarm_events_ makes of the events.
LEMMA AlarmsNamed ==
  ASSUME NEW events \in Texts!EventSet
  PROVE  Texts!NamesAlarms(Texts!AlarmText(events), events)
<1> DEFINE Alarms(n) == Texts!BitmaskToString(n, events[n])
           All(f) == f = [n \in 0 .. 8 |->
                            IF n = 0 THEN << >> ELSE Texts!Joined(f[n - 1], Alarms(n))]
           V == Seq(Token)
           step == [k \in 1 .. 8 |-> [v \in V |-> Texts!Joined(v, Alarms(k))]]
<1>1. \A k \in 1 .. 8 : step[k] \in [V -> V]
  <2>1. ASSUME NEW k \in 1 .. 8, NEW v \in V PROVE Texts!Joined(v, Alarms(k)) \in V
    <3>1. events[k] \in SUBSET (0 .. 7)
      BY DEF Texts!EventSet
    <3>2. Alarms(k) \in Seq(Token)
      BY Zenon, <3>1, EventNamed
    <3> QED
      BY Zenon, <3>2, JoinedType
  <2> HIDE DEF V, Alarms
  <2> QED
    BY <2>1
<1>2. \E f : All(f)
  <2>1. PICK eight \in Nat : eight = 8
    OBVIOUS
  <2>2. << >> \in V
    OBVIOUS
  <2>3. PICK f \in [0 .. eight -> V] : Follows(f, eight, << >>, step)
    <3> HIDE DEF step, V
    <3> QED
      BY <1>1, <2>1, <2>2, Recursion
  <2>4. f \in [0 .. 8 -> V] /\ f[0] = << >> /\ \A k \in 1 .. 8 : f[k] = step[k][f[k - 1]]
    BY <2>1, <2>3 DEF Follows
  <2>5. ASSUME NEW k \in 1 .. 8 PROVE f[k] = Texts!Joined(f[k - 1], Alarms(k))
    <3>1. k - 1 \in 0 .. 8
      OBVIOUS
    <3> HIDE DEF Alarms, V
    <3> QED
      BY <2>4, <3>1
  <2>6. f = [n \in 0 .. 8 |-> IF n = 0 THEN << >> ELSE Texts!Joined(f[n - 1], Alarms(n))]
    <3>1. ASSUME NEW n \in 0 .. 8
          PROVE  f[n] = IF n = 0 THEN << >> ELSE Texts!Joined(f[n - 1], Alarms(n))
      <4>1. n # 0 => n \in 1 .. 8
        OBVIOUS
      <4> QED
        BY Zenon, <2>4, <2>5, <4>1
    <3> HIDE DEF Alarms, V
    <3> QED
      BY <2>4, <3>1
  <2> QED
    BY Zenon, <2>6
<1>3. PICK g : g = CHOOSE f : All(f)
  OBVIOUS
<1>4. All(g)
  <2> HIDE DEF All
  <2> QED
    BY Zenon, <1>2, <1>3
<1>5. g[0] = << >> /\ \A n \in 0 .. 7 : g[n + 1] = Texts!Joined(g[n], Alarms(n + 1))
  <2>1. g[0] = << >>
    <3>1. 0 \in 0 .. 8
      OBVIOUS
    <3> QED
      BY Zenon, <1>4, <3>1
  <2>2. ASSUME NEW n \in 0 .. 7 PROVE g[n + 1] = Texts!Joined(g[n], Alarms(n + 1))
    <3>1. n + 1 \in 0 .. 8 /\ n + 1 # 0 /\ (n + 1) - 1 = n
      OBVIOUS
    <3>2. g[n + 1] = Texts!Joined(g[(n + 1) - 1], Alarms(n + 1))
      BY Zenon, <1>4, <3>1
    <3> QED
      BY Zenon, <3>1, <3>2
  <2> QED
    BY <2>1, <2>2
<1> DEFINE P == { n \in 0 .. 8 : Told(g[n], events, n) }
<1>6. 0 \in P
  <2>1. AlarmsUpTo(events, 0) = {}
    BY DEF AlarmsUpTo, Texts!Active
  <2>2. << >> \in Seq(Token) /\ NamesAll(<< >>, {})
    BY DEF NamesAll
  <2>3. Told(g[0], events, 0)
    BY Zenon, <1>5, <2>1, <2>2, FS_EmptySet DEF Told
  <2> QED
    BY <2>3
<1>7. ASSUME NEW n \in 0 .. 8, n < 8, n \in P PROVE n + 1 \in P
  <2>1. n \in 0 .. 7 /\ n + 1 \in 0 .. 8
    BY <1>7
  <2>2. Told(g[n], events, n) /\ g[n + 1] = Texts!Joined(g[n], Alarms(n + 1))
    BY <1>5, <1>7, <2>1
  <2>3. Told(g[n + 1], events, n + 1)
    BY Zenon, <2>1, <2>2, NextEvent
  <2> QED
    BY <2>1, <2>3
<1>8. Told(g[8], events, 8)
  <2>1. PICK eight \in Nat : eight = 8
    OBVIOUS
  <2>2. 0 .. eight \subseteq P
    <3> HIDE DEF P
    <3> QED
      BY <1>6, <1>7, <2>1, Onward
  <2> QED
    BY <2>1, <2>2
<1>9. AlarmsUpTo(events, 8) = Texts!Active(events)
  BY DEF AlarmsUpTo, Texts!Active
<1>10. Texts!AlarmText(events) = IF g[8] = << >> THEN << Texts!NoAlarms >> ELSE g[8]
  <2>1. Texts!AlarmText(events)
          = IF (CHOOSE f : All(f))[8] = << >> THEN << Texts!NoAlarms >> ELSE (CHOOSE f : All(f))[8]
    BY Zenon DEF Texts!AlarmText
  <2> HIDE DEF All
  <2> QED
    BY Zenon, <1>3, <2>1
<1>11. /\ g[8] \in Seq(Token) /\ IsFiniteSet(Texts!Active(events))
       /\ NamesAll(g[8], Texts!Active(events))
  BY Zenon, <1>8, <1>9 DEF Told
<1>12. g[8] = << >> <=> Texts!Active(events) = {}
  BY Zenon, <1>11, NamesNothing
<1>13. CASE Texts!Active(events) = {}
  BY Zenon, <1>10, <1>12, <1>13 DEF Texts!NamesAlarms
<1>14. CASE Texts!Active(events) # {}
  <2>1. PICK text : text = g[8]
    OBVIOUS
  <2>2. Texts!AlarmText(events) = text
    BY Zenon, <1>10, <1>12, <1>14, <2>1
  <2>3. NamesAll(text, Texts!Active(events))
    BY Zenon, <1>11, <2>1
  <2>4. /\ Len(text) + 1 = 2 * Cardinality(Texts!Active(events))
        /\ \A k \in 1 .. Len(text) :
             IF k % 2 = 0 THEN text[k] = Texts!Separator
             ELSE /\ text[k] \in Texts!Active(events)
                  /\ k > 1 => Texts!Before(text[k - 2], text[k])
    BY Zenon, <1>14, <2>3 DEF NamesAll
  <2>5. Texts!NamesAlarms(text, events)
    BY Zenon, <1>14, <2>4, SameCardinality DEF Texts!NamesAlarms
  <2> QED
    BY Zenon, <2>2, <2>5
<1> QED
  BY <1>13, <1>14

\* The text of the alarms names every alarm of the eight events, for all event bytes: each
\* once, in the order of the events and the bits, with a separator between two of them.
THEOREM AlarmsCorrect == Spec => []AlarmsNamedOnce
<1>1. StageInv => AlarmsNamedOnce
  BY AlarmsNamed, AlarmAssumption DEF StageInv, AlarmsKnown, AlarmsNamedOnce
<1> QED
  BY <1>1, StageInvariant, PTL
=============================================================================
