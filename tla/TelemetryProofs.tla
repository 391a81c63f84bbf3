-------------------------- MODULE TelemetryProofs --------------------------
(***************************************************************************)
(* The telemetry decoder finds every value a documented frame carries, for *)
(* every number of cells and temperatures, and the fields that are never   *)
(* read beyond the end of a frame, whatever it says.                       *)
(***************************************************************************)
EXTENDS Telemetry, TLAPS

LEMMA MaxFrame == MaxFrameSize = 167
BY DEF MaxFrameSize

\* The uint8_t offset reaches both places behind the cells without wrapping.
LEMMA Offsets ==
  ASSUME NEW frame \in TelemetryFrame, NEW override \in { n \in Nat : n <= 16 },
         WellFormed(frame), CountKnown(frame, override)
  PROVE  /\ CellCount(frame, override) = frame.cells
         /\ frame.cells \in 1 .. 16 /\ frame.temps \in Nat /\ frame.size \in Nat
         /\ TempsOffset(frame, override) = 9 + 2 * frame.cells
         /\ TempCount(frame, override) = frame.temps
         /\ MainOffset(frame, override) = MainStart(frame)
         /\ MainStart(frame) = 10 + 2 * frame.cells + 2 * frame.temps
         /\ MainStart(frame) + 11 <= frame.size
<1>1. /\ frame.cells \in 1 .. 16 /\ frame.temps \in Nat
      /\ frame.size \in Nat /\ frame.size <= 167
  BY MaxFrame DEF TelemetryFrame, Bytes
<1>2. CellCount(frame, override) = frame.cells
  BY DEF CountKnown
<1>3. MainStart(frame) = 10 + 2 * frame.cells + 2 * frame.temps
      /\ MainStart(frame) + 11 <= frame.size
  BY DEF MainStart, WellFormed
<1>4. TempsOffset(frame, override) = 9 + 2 * frame.cells
  <2>1. (9 + 2 * frame.cells) % 256 = 9 + 2 * frame.cells
    BY <1>1
  <2> QED
    BY <1>2, <2>1 DEF TempsOffset
<1>5. TempCount(frame, override) = frame.temps
  BY <1>4 DEF TempCount
<1>6. MainOffset(frame, override) = MainStart(frame)
  <2>1. MainOffset(frame, override) = (9 + 2 * frame.cells + 1 + 2 * frame.temps) % 256
    BY <1>4, <1>5 DEF MainOffset
  <2>2. 9 + 2 * frame.cells + 1 + 2 * frame.temps \in 0 .. 255
    BY <1>1, <1>3
  <2>3. (9 + 2 * frame.cells + 1 + 2 * frame.temps) % 256
          = 9 + 2 * frame.cells + 1 + 2 * frame.temps
    BY <2>2
  <2> QED
    BY <1>1, <1>3, <2>1, <2>3
<1> QED
  BY <1>1, <1>2, <1>3, <1>4, <1>5, <1>6

\* What is published of a documented frame, in the frame's own counts.
LEMMA PublishedOfDocumented ==
  ASSUME NEW frame \in TelemetryFrame, NEW override \in { n \in Nat : n <= 16 },
         WellFormed(frame), CountKnown(frame, override)
  PROVE  Published(frame, override) =
           { Cell(i) : i \in 1 .. frame.cells }
             \cup { Temperature(i) : i \in 1 .. AtMost(frame.temps, 6) } \cup MainFields
             \cup { f \in OptionalFields : MainStart(frame) + f[2] + 2 <= frame.size }
<1>1. AtMost(CellCount(frame, override), 16) = frame.cells
  BY Offsets DEF AtMost
<1>2. AtMost(TempCount(frame, override), 6) = AtMost(frame.temps, 6)
  BY Offsets
<1>3. Present(frame, override)
        = MainFields \cup { f \in OptionalFields : MainStart(frame) + f[2] + 2 <= frame.size }
  <2>1. \A f \in OptionalFields :
          frame.size >= MainStart(frame) + f[2] + 2 <=> MainStart(frame) + f[2] + 2 <= frame.size
    BY Offsets DEF OptionalFields
  <2> QED
    BY <2>1, Offsets DEF Present
<1> QED
  BY <1>1, <1>2, <1>3 DEF Published

\* The main fields a documented frame carries are all but, perhaps, the rated capacity.
LEMMA MainFieldsCarried ==
  ASSUME NEW frame \in TelemetryFrame, NEW override \in { n \in Nat : n <= 16 },
         WellFormed(frame), CountKnown(frame, override), NEW f \in MainFields
  PROVE  f = RatedCapacity \/ MainStart(frame) + f[2] + 2 <= frame.size
<1>1. CASE f = <<"rated_capacity", 11>>
  BY <1>1 DEF RatedCapacity
<1>2. CASE f # <<"rated_capacity", 11>>
  <2>1. f[2] \in Nat /\ f[2] <= 9
    BY <1>2 DEF MainFields
  <2> QED
    BY <2>1, Offsets
<1> QED
  BY <1>1, <1>2

\* Every value a documented frame carries is published and read from its place, and
\* nothing else is but a rated capacity: on_telemetry_data_ agrees with the layout its
\* comments draw.
THEOREM DecodesAsDocumented ==
  ASSUME NEW frame \in TelemetryFrame, NEW override \in { n \in Nat : n <= 16 },
         WellFormed(frame), CountKnown(frame, override)
  PROVE  AgreesWithDrawing(ReadAt(frame, override), frame)
<1> DEFINE D == { Cell(i) : i \in 1 .. frame.cells }
                \cup { Temperature(i) : i \in 1 .. AtMost(frame.temps, 6) }
                \cup { f \in MainFields \cup OptionalFields :
                         MainStart(frame) + f[2] + 2 <= frame.size }
           At(f) == IF f \in { Cell(i) : i \in 1 .. 16 } THEN 9 + 2 * (f[2] - 1)
                    ELSE IF f \in { Temperature(i) : i \in 1 .. 6 }
                         THEN TempsOffset(frame, override) + 1 + 2 * (f[2] - 1)
                    ELSE MainOffset(frame, override) + f[2]
           Doc(f) == IF f \in { Cell(i) : i \in 1 .. 16 } THEN 9 + 2 * (f[2] - 1)
                     ELSE IF f \in { Temperature(i) : i \in 1 .. 6 }
                          THEN 8 + 2 * frame.cells + 2 * f[2]
                     ELSE MainStart(frame) + f[2]
<1>1. D \subseteq Published(frame, override)
  BY PublishedOfDocumented
<1>2. Published(frame, override) \subseteq D \cup {RatedCapacity}
  BY PublishedOfDocumented, MainFieldsCarried
<1>3. ASSUME NEW f \in D PROVE At(f) = Doc(f)
  <2>1. CASE f \in { Cell(i) : i \in 1 .. 16 }
    BY <2>1
  <2>2. CASE f \notin { Cell(i) : i \in 1 .. 16 } /\ f \in { Temperature(i) : i \in 1 .. 6 }
    <3>1. PICK i \in 1 .. 6 : f = Temperature(i)
      BY <2>2
    <3>2. f[2] = i
      BY <3>1 DEF Temperature
    <3>3. TempsOffset(frame, override) + 1 + 2 * (i - 1) = 8 + 2 * frame.cells + 2 * i
      BY Offsets
    <3> QED
      BY <2>2, <3>2, <3>3
  <2>3. CASE f \notin { Cell(i) : i \in 1 .. 16 } /\ f \notin { Temperature(i) : i \in 1 .. 6 }
    BY <2>3, Offsets
  <2> QED
    BY <2>1, <2>2, <2>3
<1>4. ReadAt(frame, override) = [f \in Published(frame, override) |-> At(f)]
  BY DEF ReadAt
<1>5. DocumentedAt(frame) = [f \in D |-> Doc(f)]
  BY DEF DocumentedAt
<1> HIDE DEF D, At, Doc
<1>6. \A f \in D : ReadAt(frame, override)[f] = DocumentedAt(frame)[f]
  BY <1>1, <1>3, <1>4, <1>5
<1>7. DOMAIN ReadAt(frame, override) = Published(frame, override) /\ DOMAIN DocumentedAt(frame) = D
  BY <1>4, <1>5
<1> QED
  BY <1>1, <1>2, <1>6, <1>7 DEF AgreesWithDrawing

\* The names of the fields tell their kinds apart.
LEMMA KindsOfFields ==
  /\ \A i \in 1 .. 16 : /\ Cell(i) \notin { Temperature(j) : j \in 1 .. 6 }
                        /\ Cell(i) \notin MainFields \cup OptionalFields
  /\ \A i \in 1 .. 6 : Temperature(i) \notin MainFields \cup OptionalFields
  /\ MainFields \cap OptionalFields = {}
<1>1. \A f \in MainFields \cup OptionalFields :
        f[1] # "cell_voltage" /\ f[1] # "temperature"
  BY DEF MainFields, OptionalFields
<1>2. \A i \in Nat : Cell(i)[1] = "cell_voltage" /\ Temperature(i)[1] = "temperature"
  BY DEF Cell, Temperature
<1>3. MainFields \cap OptionalFields = {}
  BY DEF MainFields, OptionalFields
<1> QED
  BY <1>1, <1>2, <1>3

\* Whatever a frame says and however its cells are counted, the cells and the values
\* behind the early returns are not read beyond its end: 44 bytes hold sixteen cells.
THEOREM GuardedReadsInside ==
  ASSUME NEW frame \in TelemetryFrame, NEW override \in { n \in Nat : n <= 16 },
         IsTelemetry(frame), NEW f \in Published(frame, override),
         f \in { Cell(i) : i \in 1 .. 16 } \cup OptionalFields
  PROVE  ReadAt(frame, override)[f] + 1 < frame.size
<1>1. frame.size \in Nat /\ frame.size >= 44
  BY MaxFrame DEF IsTelemetry, TelemetryFrame
<1>2. CASE f \in { Cell(i) : i \in 1 .. 16 }
  <2>1. PICK i \in 1 .. 16 : f = Cell(i)
    BY <1>2
  <2>2. ReadAt(frame, override)[f] = 9 + 2 * (i - 1)
    BY <1>2, <2>1 DEF ReadAt, Cell
  <2> QED
    BY <1>1, <2>2
<1>3. CASE f \in OptionalFields
  <2>1. /\ f \notin { Cell(i) : i \in 1 .. 16 }
        /\ f \notin { Temperature(i) : i \in 1 .. 6 }
        /\ f \notin MainFields
    BY <1>3, KindsOfFields
  <2>2. f \in Present(frame, override)
    <3>1. f[1] # "cell_voltage" /\ f[1] # "temperature"
      BY <1>3 DEF OptionalFields
    <3>2. /\ f \notin { Cell(i) : i \in 1 .. AtMost(CellCount(frame, override), 16) }
          /\ f \notin { Temperature(i) : i \in 1 .. AtMost(TempCount(frame, override), 6) }
      BY <3>1 DEF Cell, Temperature
    <3> QED
      BY <3>2 DEF Published
  <2>3. frame.size >= MainOffset(frame, override) + f[2] + 2
    BY <2>1, <2>2 DEF Present
  <2>4. MainOffset(frame, override) \in Nat
    BY DEF MainOffset, TempsOffset, TempCount, CellCount, TelemetryFrame, Bytes
  <2>5. f[2] \in Nat
    BY <1>3 DEF OptionalFields
  <2>6. ReadAt(frame, override)[f] = MainOffset(frame, override) + f[2]
    BY <2>1 DEF ReadAt
  <2> QED
    BY <1>1, <2>3, <2>4, <2>5, <2>6
<1> QED
  BY <1>2, <1>3

\* Of a documented frame, counted as it is, nothing is read beyond its end but the rated
\* capacity, which the frame may lack.
THEOREM DocumentedReadsInside ==
  ASSUME NEW frame \in TelemetryFrame, NEW override \in { n \in Nat : n <= 16 },
         WellFormed(frame), CountKnown(frame, override),
         NEW f \in Published(frame, override), f # RatedCapacity
  PROVE  ReadAt(frame, override)[f] + 1 < frame.size
<1>1. /\ frame.cells \in 1 .. 16 /\ frame.temps \in Nat /\ frame.size \in Nat
      /\ MainStart(frame) = 10 + 2 * frame.cells + 2 * frame.temps
      /\ MainStart(frame) + 11 <= frame.size
  BY Offsets
<1>2. CASE f \in { Cell(i) : i \in 1 .. frame.cells }
  <2>1. PICK i \in 1 .. frame.cells : f = Cell(i)
    BY <1>2
  <2>2. ReadAt(frame, override)[f] = 9 + 2 * (i - 1)
    BY <1>1, <2>1 DEF ReadAt, Cell
  <2> QED
    BY <1>1, <2>1, <2>2
<1>3. CASE f \in { Temperature(i) : i \in 1 .. AtMost(frame.temps, 6) }
  <2>1. PICK i \in 1 .. AtMost(frame.temps, 6) : f = Temperature(i)
    BY <1>3
  <2>2. i \in 1 .. 6 /\ i <= frame.temps
    BY <1>1, <2>1 DEF AtMost
  <2>3. f \notin { Cell(j) : j \in 1 .. 16 } /\ f \in { Temperature(j) : j \in 1 .. 6 }
    BY <2>1, <2>2, KindsOfFields
  <2>4. ReadAt(frame, override)[f] = TempsOffset(frame, override) + 1 + 2 * (i - 1)
    BY <2>1, <2>3 DEF ReadAt, Temperature
  <2> QED
    BY <1>1, <2>2, <2>4, Offsets
<1>4. CASE /\ f \in MainFields \cup OptionalFields
           /\ MainStart(frame) + f[2] + 2 <= frame.size
  <2>1. /\ f \notin { Cell(i) : i \in 1 .. 16 }
        /\ f \notin { Temperature(i) : i \in 1 .. 6 }
    BY <1>4, KindsOfFields
  <2>2. ReadAt(frame, override)[f] = MainStart(frame) + f[2]
    BY <2>1, Offsets DEF ReadAt
  <2>3. f[2] \in Nat
    BY <1>4 DEF MainFields, OptionalFields
  <2> QED
    BY <1>1, <1>4, <2>2, <2>3
<1> QED
  BY <1>2, <1>3, <1>4, PublishedOfDocumented, MainFieldsCarried
=============================================================================
