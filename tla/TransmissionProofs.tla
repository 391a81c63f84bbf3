------------------------- MODULE TransmissionProofs -------------------------
(***************************************************************************)
(* What is sent arrives: every request of the RS485 protocol and every     *)
(* frame of the Bluetooth protocols passes the checksum of its receiver    *)
(* and is read as what was sent, and one with a damaged character, or with *)
(* up to sixteen damaged bits in a row, is not read as anything else.      *)
(***************************************************************************)
EXTENDS DecodersProofs

-----------------------------------------------------------------------------
(* The checksum of the RS485 frame. *)

LEMMA WordsAreIntegers == Wire!Words \subseteq Int
BY DEF Wire!Words

LEMMA WrappedType == ASSUME NEW n \in Int PROVE Wire!Wrapped(n) \in Wire!Words
BY DEF Wire!Wrapped, Wire!Words

SumStep(chars) == [k \in 1 .. Len(chars) |-> [v \in Wire!Words |-> Wire!Wrapped(v + chars[k])]]

LEMMA SumSteps ==
  ASSUME NEW chars, Len(chars) \in Nat, \A k \in 1 .. Len(chars) : chars[k] \in Int
  PROVE  \E f \in [0 .. Len(chars) -> Wire!Words] :
           /\ f[0] = 0 /\ Wire!Sum(chars) = f[Len(chars)]
           /\ \A k \in 1 .. Len(chars) : f[k] = Wire!Wrapped(f[k - 1] + chars[k])
<1> DEFINE N == Len(chars)
           step == SumStep(chars)
           Is(f) == f = [n \in 0 .. N |-> IF n = 0 THEN 0 ELSE Wire!Wrapped(f[n - 1] + chars[n])]
           sums == CHOOSE f : Is(f)
<1>1. \A k \in 1 .. N : step[k] \in [Wire!Words -> Wire!Words] /\ \A v \in Wire!Words : step[k][v] = Wire!Wrapped(v + chars[k])
  <2>1. ASSUME NEW k \in 1 .. N, NEW v \in Wire!Words PROVE Wire!Wrapped(v + chars[k]) \in Wire!Words
    <3>1. v + chars[k] \in Int
      BY WordsAreIntegers
    <3> QED
      BY <3>1, WrappedType
  <2> QED
    BY <2>1 DEF SumStep
<1>2. N \in Nat /\ 0 \in Wire!Words
  BY DEF Wire!Words
<1>3. PICK g \in [0 .. N -> Wire!Words] : Follows(g, N, 0, step)
  <2> HIDE DEF N, step
  <2> QED
    BY <1>1, <1>2, Recursion
<1>4. Is(g)
  <2>1. ASSUME NEW n \in 0 .. N PROVE g[n] = IF n = 0 THEN 0 ELSE Wire!Wrapped(g[n - 1] + chars[n])
    <3>1. CASE n = 0
      BY <3>1, <1>3 DEF Follows
    <3>2. CASE n # 0
      <4>1. n \in 1 .. N /\ g[n - 1] \in Wire!Words /\ g[n] = step[n][g[n - 1]]
        BY <3>2, <1>3 DEF Follows
      <4> QED
        BY <3>2, <4>1, <1>1
    <3> QED
      BY <3>1, <3>2
  <2> QED
    BY <1>3, <2>1
<1>5. Is(sums)
  <2> HIDE DEF Is
  <2> QED
    BY <1>4
<1>6. sums[0] = 0 /\ \A k \in 1 .. N : sums[k] = Wire!Wrapped(sums[k - 1] + chars[k])
  <2>1. 0 \in 0 .. N /\ \A k \in 1 .. N : k \in 0 .. N /\ k # 0
    OBVIOUS
  <2> HIDE DEF sums
  <2> QED
    BY <1>5, <2>1
<1>7. \A n \in 0 .. N : sums[n] \in Wire!Words
  <2> HIDE DEF sums
  <2>1. sums[0] \in Wire!Words
    BY <1>2, <1>6
  <2>2. ASSUME NEW n \in 1 .. N, sums[n - 1] \in Wire!Words PROVE sums[n] \in Wire!Words
    <3>1. sums[n - 1] + chars[n] \in Int
      BY <2>2, WordsAreIntegers
    <3> QED
      BY <3>1, <1>6, WrappedType
  <2> HIDE DEF N
  <2> QED
    BY <1>2, <2>1, <2>2, StaysIn
<1>8. Wire!Sum(chars) = sums[N]
  BY DEF Wire!Sum
<1>9. sums = [n \in 0 .. N |-> sums[n]]
  <2> HIDE DEF sums
  <2> QED
    BY <1>5
<1>10. sums \in [0 .. N -> Wire!Words]
  <2> HIDE DEF sums
  <2> QED
    BY <1>7, <1>9
<1> HIDE DEF sums, N
<1> QED
  BY <1>6, <1>8, <1>10 DEF N

Register == SUBSET (0 .. 15)
Byte == SUBSET (0 .. 7)

LEMMA XorMember ==
  ASSUME NEW a, NEW b, NEW x
  PROVE  x \in Wire!Xor(a, b) <=> ~(x \in a <=> x \in b)
BY Zenon DEF Wire!Xor

LEMMA XorRegister == ASSUME NEW a \in Register, NEW b \in Register PROVE Wire!Xor(a, b) \in Register
BY DEF Wire!Xor, Register

\* What is left of a sum in which both sides have been changed by the same.
LEMMA XorOfXors ==
  ASSUME NEW a, NEW b, NEW c, NEW d
  PROVE  Wire!Xor(Wire!Xor(a, b), Wire!Xor(c, d)) = Wire!Xor(Wire!Xor(a, c), Wire!Xor(b, d))
BY Zenon DEF Wire!Xor

LEMMA XorEmpty == ASSUME NEW a PROVE Wire!Xor(a, {}) = a /\ Wire!Xor({}, a) = a /\ Wire!Xor(a, a) = {}
BY DEF Wire!Xor

LEMMA XorSame == ASSUME NEW a, NEW b, Wire!Xor(a, b) = {} PROVE a = b
BY DEF Wire!Xor

LEMMA ShiftRightBits ==
  ASSUME NEW c \in Register
  PROVE  /\ Wire!ShiftRight(c) \in Register
         /\ \A x \in 0 .. 15 :
              x \in Wire!ShiftRight(c) <=> ~(x + 1 \in c <=> (0 \in c /\ x \in {15, 13, 0}))
<1> DEFINE s == { b - 1 : b \in c \ {0} }
<1>1. s \in Register
  BY DEF Register
<1>2. ASSUME NEW x \in 0 .. 15 PROVE x \in s <=> x + 1 \in c
  <2>1. ASSUME x + 1 \in c PROVE x \in s
    <3>1. x + 1 \in c \ {0} /\ (x + 1) - 1 = x
      BY <2>1
    <3> QED
      BY <3>1
  <2>2. ASSUME x \in s PROVE x + 1 \in c
    <3>1. PICK b \in c \ {0} : x = b - 1
      BY <2>2
    <3>2. b \in 0 .. 15
      BY DEF Register
    <3> QED
      BY <3>1, <3>2
  <2> QED
    BY <2>1, <2>2
<1> HIDE DEF s
<1>3. CASE 0 \in c
  <2>1. Wire!ShiftRight(c) = Wire!Xor(s, {15, 13, 0})
    BY <1>3 DEF Wire!ShiftRight, s
  <2>2. {15, 13, 0} \in Register
    BY DEF Register
  <2> QED
    BY <1>1, <1>2, <1>3, <2>1, <2>2, XorRegister, XorMember
<1>4. CASE 0 \notin c
  <2>1. Wire!ShiftRight(c) = s
    BY <1>4 DEF Wire!ShiftRight, s
  <2> QED
    BY <1>1, <1>2, <1>4, <2>1
<1> QED
  BY <1>3, <1>4

LEMMA ShiftLeftBits ==
  ASSUME NEW c \in Register
  PROVE  /\ Wire!ShiftLeft(c) \in Register
         /\ \A x \in 0 .. 15 :
              x \in Wire!ShiftLeft(c) <=> ~(x - 1 \in c <=> (15 \in c /\ x \in {12, 5, 0}))
<1> DEFINE s == { b + 1 : b \in c \ {15} }
<1>1. s \in Register
  BY DEF Register
<1>2. ASSUME NEW x \in 0 .. 15 PROVE x \in s <=> x - 1 \in c
  <2>1. ASSUME x - 1 \in c PROVE x \in s
    <3>1. x - 1 \in c \ {15} /\ (x - 1) + 1 = x
      BY <2>1
    <3> QED
      BY <3>1
  <2>2. ASSUME x \in s PROVE x - 1 \in c
    <3>1. PICK b \in c \ {15} : x = b + 1
      BY <2>2
    <3>2. b \in 0 .. 15
      BY DEF Register
    <3> QED
      BY <3>1, <3>2
  <2> QED
    BY <2>1, <2>2
<1> HIDE DEF s
<1>3. CASE 15 \in c
  <2>1. Wire!ShiftLeft(c) = Wire!Xor(s, {12, 5, 0})
    BY <1>3 DEF Wire!ShiftLeft, s
  <2>2. {12, 5, 0} \in Register
    BY DEF Register
  <2> QED
    BY <1>1, <1>2, <1>3, <2>1, <2>2, XorRegister, XorMember
<1>4. CASE 15 \notin c
  <2>1. Wire!ShiftLeft(c) = s
    BY <1>4 DEF Wire!ShiftLeft, s
  <2> QED
    BY <1>1, <1>2, <1>4, <2>1
<1> QED
  BY <1>3, <1>4

\* The bit of the register that leaves it after d more shifts.
Deep(p, d) == IF p = "v2" THEN 15 - d ELSE d

\* The bit that bit x comes from, and those the polynomial changes.
Source(p, x) == IF p = "v2" THEN x - 1 ELSE x + 1
Polynomial(p) == IF p = "v2" THEN {12, 5, 0} ELSE {15, 13, 0}

LEMMA ShiftBits ==
  ASSUME NEW p, NEW c \in Register
  PROVE  /\ Wire!Shift(p, c) \in Register
         /\ \A x \in 0 .. 15 :
              x \in Wire!Shift(p, c)
                <=> ~(Source(p, x) \in c <=> (Deep(p, 0) \in c /\ x \in Polynomial(p)))
<1>1. CASE p = "v2"
  <2>1. Wire!Shift(p, c) = Wire!ShiftLeft(c) /\ Deep(p, 0) = 15 /\ Polynomial(p) = {12, 5, 0}
        /\ \A x \in 0 .. 15 : Source(p, x) = x - 1
    BY <1>1 DEF Wire!Shift, Deep, Polynomial, Source
  <2> QED
    BY <2>1, ShiftLeftBits
<1>2. CASE p # "v2"
  <2>1. Wire!Shift(p, c) = Wire!ShiftRight(c) /\ Deep(p, 0) = 0 /\ Polynomial(p) = {15, 13, 0}
        /\ \A x \in 0 .. 15 : Source(p, x) = x + 1
    BY <1>2 DEF Wire!Shift, Deep, Polynomial, Source
  <2> QED
    BY <2>1, ShiftRightBits
<1> QED
  BY <1>1, <1>2

\* A shift of a sum is the sum of the shifts.
LEMMA ShiftOfXor ==
  ASSUME NEW p, NEW a \in Register, NEW b \in Register
  PROVE  Wire!Shift(p, Wire!Xor(a, b)) = Wire!Xor(Wire!Shift(p, a), Wire!Shift(p, b))
<1>1. Wire!Xor(a, b) \in Register
  BY XorRegister
<1>2. /\ Wire!Shift(p, a) \in Register /\ Wire!Shift(p, b) \in Register
      /\ Wire!Shift(p, Wire!Xor(a, b)) \in Register
      /\ Wire!Xor(Wire!Shift(p, a), Wire!Shift(p, b)) \in Register
  BY <1>1, ShiftBits, XorRegister
<1>3. ASSUME NEW x \in 0 .. 15
      PROVE  x \in Wire!Shift(p, Wire!Xor(a, b)) <=> x \in Wire!Xor(Wire!Shift(p, a), Wire!Shift(p, b))
  <2> DEFINE d == Deep(p, 0)
             s == Source(p, x)
             q == x \in Polynomial(p)
  <2>1. (x \in Wire!Shift(p, a) <=> ~(s \in a <=> (d \in a /\ q)))
        /\ (x \in Wire!Shift(p, b) <=> ~(s \in b <=> (d \in b /\ q)))
    BY Zenon, ShiftBits
  <2>2. x \in Wire!Shift(p, Wire!Xor(a, b)) <=> ~(s \in Wire!Xor(a, b) <=> (d \in Wire!Xor(a, b) /\ q))
    BY Zenon, <1>1, ShiftBits
  <2> HIDE DEF d, s, q
  <2>3. (s \in Wire!Xor(a, b) <=> ~(s \in a <=> s \in b))
    BY Zenon, XorMember
  <2>4. (d \in Wire!Xor(a, b) <=> ~(d \in a <=> d \in b))
    BY Zenon, XorMember
  <2>5. (x \in Wire!Xor(Wire!Shift(p, a), Wire!Shift(p, b))
              <=> ~(x \in Wire!Shift(p, a) <=> x \in Wire!Shift(p, b)))
    BY Zenon, XorMember
  <2> QED
    BY <2>1, <2>2, <2>3, <2>4, <2>5
<1> QED
  BY <1>2, <1>3 DEF Register

\* A shift loses nothing.
LEMMA ShiftOfSome ==
  ASSUME NEW p, NEW a \in Register, a # {}
  PROVE  Wire!Shift(p, a) # {}
<1> DEFINE d == Deep(p, 0)
<1>1. CASE d \in a
  <2> DEFINE x == IF p = "v2" THEN 0 ELSE 15
  <2>1. x \in 0 .. 15 /\ x \in Polynomial(p) /\ Source(p, x) \notin 0 .. 15
    BY DEF Polynomial, Source
  <2>2. Source(p, x) \notin a
    BY <2>1 DEF Register
  <2> HIDE DEF x
  <2>3. x \in Wire!Shift(p, a)
    BY <1>1, <2>1, <2>2, ShiftBits
  <2> QED
    BY <2>3
<1>2. CASE d \notin a
  <2>1. PICK y \in a : TRUE
    OBVIOUS
  <2>2. y \in 0 .. 15 /\ y # d
    BY <1>2, <2>1 DEF Register
  <2>3. \E x \in 0 .. 15 : Source(p, x) = y
    <3>1. CASE p = "v2"
      <4>1. y + 1 \in 0 .. 15 /\ Source(p, y + 1) = y
        BY <2>2, <3>1 DEF Source, Deep
      <4> QED
        BY <4>1
    <3>2. CASE p # "v2"
      <4>1. y - 1 \in 0 .. 15 /\ Source(p, y - 1) = y
        BY <2>2, <3>2 DEF Source, Deep
      <4> QED
        BY <4>1
    <3> QED
      BY <3>1, <3>2
  <2>4. PICK x \in 0 .. 15 : Source(p, x) = y
    BY <2>3
  <2>5. x \in Wire!Shift(p, a)
    BY <1>2, <2>1, <2>4, ShiftBits
  <2> QED
    BY <2>5
<1> QED
  BY <1>1, <1>2

\* The places in the register of the bits M of a message of which n bits have left it.
At(p, M, n) == { Deep(p, m - n) : m \in M }

LEMMA AtRegister ==
  ASSUME NEW p, NEW n \in Int, NEW M \in SUBSET (n .. n + 15)
  PROVE  At(p, M, n) \in Register
<1>1. ASSUME NEW m \in M PROVE Deep(p, m - n) \in 0 .. 15
  <2>1. m \in n .. n + 15
    OBVIOUS
  <2>2. m - n \in 0 .. 15 /\ 15 - (m - n) \in 0 .. 15
    BY <2>1
  <2> QED
    BY <2>2 DEF Deep
<1> QED
  BY <1>1 DEF At, Register

\* Bits of which none leaves the register all move by one.
LEMMA ShiftOfAt ==
  ASSUME NEW p, NEW n \in Int, NEW M \in SUBSET (n + 1 .. n + 15)
  PROVE  Wire!Shift(p, At(p, M, n)) = At(p, M, n + 1)
<1> DEFINE a == At(p, M, n)
           b == At(p, M, n + 1)
<1>1. CASE p = "v2"
  <2>1. \A m \in M : m \in Int /\ m - n # 0 /\ Deep(p, m - n) = 15 - (m - n)
                     /\ Deep(p, m - (n + 1)) = (15 - (m - n)) + 1
    BY <1>1 DEF Deep
  <2>2. 15 \notin a
    BY <2>1 DEF At
  <2>3. Wire!Shift(p, a) = { x + 1 : x \in a \ {15} }
    BY <1>1, <2>2 DEF Wire!Shift, Wire!ShiftLeft
  <2>4. ASSUME NEW x \in a \ {15} PROVE x + 1 \in b
    <3>1. PICK m \in M : x = Deep(p, m - n)
      BY DEF At
    <3>2. x + 1 = Deep(p, m - (n + 1))
      BY <2>1, <3>1
    <3> QED
      BY <3>2 DEF At
  <2>5. ASSUME NEW y \in b PROVE y \in { x + 1 : x \in a \ {15} }
    <3>1. PICK m \in M : y = Deep(p, m - (n + 1))
      BY DEF At
    <3>2. Deep(p, m - n) \in a /\ Deep(p, m - n) # 15 /\ y = Deep(p, m - n) + 1
      BY <2>1, <3>1 DEF At
    <3> QED
      BY <3>2
  <2> QED
    BY <2>3, <2>4, <2>5
<1>2. CASE p # "v2"
  <2>1. \A m \in M : m \in Int /\ m - n # 0 /\ Deep(p, m - n) = m - n
                     /\ Deep(p, m - (n + 1)) = (m - n) - 1
    BY <1>2 DEF Deep
  <2>2. 0 \notin a
    BY <2>1 DEF At
  <2>3. Wire!Shift(p, a) = { x - 1 : x \in a \ {0} }
    BY <1>2, <2>2 DEF Wire!Shift, Wire!ShiftRight
  <2>4. ASSUME NEW x \in a \ {0} PROVE x - 1 \in b
    <3>1. PICK m \in M : x = Deep(p, m - n)
      BY DEF At
    <3>2. x - 1 = Deep(p, m - (n + 1))
      BY <2>1, <3>1
    <3> QED
      BY <3>2 DEF At
  <2>5. ASSUME NEW y \in b PROVE y \in { x - 1 : x \in a \ {0} }
    <3>1. PICK m \in M : y = Deep(p, m - (n + 1))
      BY DEF At
    <3>2. Deep(p, m - n) \in a /\ Deep(p, m - n) # 0 /\ y = Deep(p, m - n) - 1
      BY <2>1, <3>1 DEF At
    <3> QED
      BY <3>2
  <2> QED
    BY <2>3, <2>4, <2>5
<1> QED
  BY <1>1, <1>2

\* Bits in two places stay apart.
LEMMA AtOfParts ==
  ASSUME NEW p, NEW n \in Int, NEW M \in SUBSET Int, NEW K \in SUBSET M
  PROVE  Wire!Xor(At(p, K, n), At(p, M \ K, n)) = At(p, M, n)
<1>1. \A m, k \in M : Deep(p, m - n) = Deep(p, k - n) => m = k
  BY DEF Deep
<1>2. At(p, K, n) \cap At(p, M \ K, n) = {} /\ At(p, K, n) \cup At(p, M \ K, n) = At(p, M, n)
  BY <1>1 DEF At
<1> QED
  BY <1>2 DEF Wire!Xor

\* Bits of a message within sixteen in a row.
Burst(Z, place) ==
  /\ Z \subseteq Nat /\ Z # {} /\ place \in Int
  /\ \A m \in Z : place <= m /\ m <= place + 15

From(Z, e) == { m \in Z : e <= m }
Below(Z, e) == { m \in Z : m < e }

\* What is known of the difference S of two registers behind n bits of two messages that
\* differ in Z, e bits of which have been taken into the registers: up to the burst it is
\* what was taken, and from its start it is not what is still to come.
Differ(p, Z, place, n, e, S) ==
  /\ S \in Register
  /\ n <= place => S = At(p, Below(Z, e), n)
  /\ n >= place => Wire!Xor(S, At(p, From(Z, e), n)) # {}

LEMMA BurstBits ==
  ASSUME NEW Z, NEW place, Burst(Z, place), NEW m \in Z
  PROVE  m \in Nat /\ place \in Int /\ place <= m /\ m <= place + 15
BY DEF Burst

LEMMA Parts ==
  ASSUME NEW p, NEW Z, NEW place, Burst(Z, place), NEW n \in Nat, NEW e \in Nat
  PROVE  /\ Wire!Xor(At(p, Below(Z, e), n), At(p, From(Z, e), n)) = At(p, Z, n)
         /\ At(p, Z, n) # {}
<1>1. Below(Z, e) \in SUBSET Z /\ From(Z, e) = Z \ Below(Z, e) /\ Z \in SUBSET Int
  <2>1. \A m \in Z : m \in Int /\ (m < e <=> ~(e <= m))
    BY BurstBits
  <2>2. Below(Z, e) \subseteq Z /\ Z \subseteq Int
    BY <2>1 DEF Below
  <2>3. From(Z, e) = Z \ Below(Z, e)
    BY <2>1 DEF Below, From
  <2> QED
    BY <2>2, <2>3
<1>2. Wire!Xor(At(p, Below(Z, e), n), At(p, From(Z, e), n)) = At(p, Z, n)
  BY <1>1, AtOfParts
<1> QED
  BY <1>2 DEF At, Burst

\* Before the first of them.
LEMMA DifferFirst ==
  ASSUME NEW p, NEW Z, NEW place, Burst(Z, place)
  PROVE  Differ(p, Z, place, 0, 0, {})
<1>1. {} \in Register /\ Below(Z, 0) = {}
  <2>1. \A m \in Z : ~(m < 0)
    BY BurstBits
  <2> QED
    BY <2>1 DEF Register, Below
<1>2. At(p, {}, 0) = {}
  BY DEF At
<1>3. Wire!Xor(At(p, Below(Z, 0), 0), At(p, From(Z, 0), 0)) # {}
  BY Parts
<1> QED
  BY <1>1, <1>2, <1>3 DEF Differ

\* One bit leaves the registers.
LEMMA DifferShift ==
  ASSUME NEW p, NEW Z, NEW place, Burst(Z, place), NEW n \in Nat, NEW e \in Nat, NEW S,
         n < e, e <= n + 8, Differ(p, Z, place, n, e, S)
  PROVE  Differ(p, Z, place, n + 1, e, Wire!Shift(p, S))
<1>1. S \in Register /\ Wire!Shift(p, S) \in Register
  BY ShiftBits DEF Differ
<1>2. ASSUME n + 1 <= place PROVE Wire!Shift(p, S) = At(p, Below(Z, e), n + 1)
  <2>1. S = At(p, Below(Z, e), n)
    BY <1>2 DEF Differ, Burst
  <2>2. Below(Z, e) \in SUBSET (n + 1 .. n + 15)
    <3>1. ASSUME NEW m \in Z, m < e PROVE m \in n + 1 .. n + 15
      BY <1>2, <3>1, BurstBits
    <3>2. Below(Z, e) \subseteq n + 1 .. n + 15
      BY <3>1 DEF Below
    <3> QED
      BY <3>2
  <2> QED
    BY <2>1, <2>2, ShiftOfAt
<1>3. ASSUME n + 1 >= place PROVE Wire!Xor(Wire!Shift(p, S), At(p, From(Z, e), n + 1)) # {}
  <2>1. CASE n + 1 = place
    <3>1. Wire!Shift(p, S) = At(p, Below(Z, e), n + 1)
      BY <1>2, <2>1
    <3> QED
      BY <3>1, Parts
  <2>2. CASE n >= place
    <3>1. Wire!Xor(S, At(p, From(Z, e), n)) # {}
      BY <2>2 DEF Differ
    <3>2. From(Z, e) \in SUBSET (n + 1 .. n + 15) /\ From(Z, e) \in SUBSET (n .. n + 15)
      <4>1. ASSUME NEW m \in Z, e <= m PROVE m \in n + 1 .. n + 15 /\ m \in n .. n + 15
        BY <2>2, <4>1, BurstBits
      <4>2. From(Z, e) \subseteq n + 1 .. n + 15 /\ From(Z, e) \subseteq n .. n + 15
        BY <4>1 DEF From
      <4> QED
        BY <4>2
    <3>3. At(p, From(Z, e), n) \in Register
      BY <3>2, AtRegister
    <3>4. Wire!Xor(S, At(p, From(Z, e), n)) \in Register
      BY <1>1, <3>3, XorRegister
    <3>5. Wire!Shift(p, Wire!Xor(S, At(p, From(Z, e), n))) # {}
      BY <3>1, <3>4, ShiftOfSome
    <3>6. Wire!Shift(p, Wire!Xor(S, At(p, From(Z, e), n)))
            = Wire!Xor(Wire!Shift(p, S), Wire!Shift(p, At(p, From(Z, e), n)))
      BY <1>1, <3>3, ShiftOfXor
    <3>7. Wire!Shift(p, At(p, From(Z, e), n)) = At(p, From(Z, e), n + 1)
      BY <3>2, ShiftOfAt
    <3> QED
      BY <3>5, <3>6, <3>7
  <2>3. place \in Int
    BY DEF Burst
  <2> QED
    BY <1>3, <2>1, <2>2, <2>3
<1> QED
  BY <1>1, <1>2, <1>3 DEF Differ

\* One more byte is taken into the registers.
LEMMA DifferByte ==
  ASSUME NEW p, NEW Z, NEW place, Burst(Z, place), NEW e \in Nat, NEW S,
         Differ(p, Z, place, e, e, S)
  PROVE  Differ(p, Z, place, e, e + 8, Wire!Xor(S, At(p, From(Below(Z, e + 8), e), e)))
<1> DEFINE new == From(Below(Z, e + 8), e)
<1>1. new \in SUBSET (e .. e + 15)
  <2>1. ASSUME NEW m \in Z, e <= m, m < e + 8 PROVE m \in e .. e + 15
    BY <2>1, BurstBits
  <2>2. new \subseteq e .. e + 15
    BY <2>1 DEF From, Below
  <2> QED
    BY <2>2
<1>2. At(p, new, e) \in Register /\ S \in Register
  BY <1>1, AtRegister DEF Differ
<1>3. ASSUME e <= place PROVE Wire!Xor(S, At(p, new, e)) = At(p, Below(Z, e + 8), e)
  <2>1. S = At(p, Below(Z, e), e)
    BY <1>3 DEF Differ
  <2>2. Below(Z, e) = {} /\ new = Below(Z, e + 8)
    <3>1. \A m \in Z : ~(m < e) /\ e <= m
      BY <1>3, BurstBits
    <3> QED
      BY <3>1 DEF Below, From
  <2>3. S = {}
    BY <2>1, <2>2 DEF At
  <2> QED
    BY <2>2, <2>3, XorEmpty
<1>4. ASSUME e >= place
      PROVE  Wire!Xor(Wire!Xor(S, At(p, new, e)), At(p, From(Z, e + 8), e)) # {}
  <2>1. Wire!Xor(S, At(p, From(Z, e), e)) # {}
    BY <1>4 DEF Differ
  <2>2. new \in SUBSET From(Z, e) /\ From(Z, e) \ new = From(Z, e + 8) /\ From(Z, e) \in SUBSET Int
    <3>1. \A m \in Z : m \in Int /\ (e + 8 <= m <=> e <= m /\ ~(m < e + 8))
      BY BurstBits
    <3>2. new \subseteq From(Z, e) /\ From(Z, e) \subseteq Int
      BY <3>1 DEF From, Below
    <3>3. From(Z, e) \ new = From(Z, e + 8)
      BY <3>1 DEF From, Below
    <3> QED
      BY <3>2, <3>3
  <2>3. Wire!Xor(At(p, new, e), At(p, From(Z, e + 8), e)) = At(p, From(Z, e), e)
    BY <2>2, AtOfParts
  <2>4. Wire!Xor(Wire!Xor(S, At(p, new, e)), Wire!Xor({}, At(p, From(Z, e + 8), e)))
          = Wire!Xor(Wire!Xor(S, {}), Wire!Xor(At(p, new, e), At(p, From(Z, e + 8), e)))
    BY XorOfXors
  <2> QED
    BY <2>1, <2>3, <2>4, XorEmpty
<1> QED
  BY <1>2, <1>3, <1>4, XorRegister DEF Differ

\* A byte: its bits are taken in and leave the register one after the other.
LEMMA DifferEight ==
  ASSUME NEW p, NEW Z, NEW place, Burst(Z, place), NEW e \in Nat, NEW S,
         Differ(p, Z, place, e, e, S)
  PROVE  Differ(p, Z, place, e + 8, e + 8,
                Wire!Eight(p, Wire!Xor(S, At(p, From(Below(Z, e + 8), e), e))))
<1> DEFINE s0 == Wire!Xor(S, At(p, From(Below(Z, e + 8), e), e))
           s1 == Wire!Shift(p, s0)
           s2 == Wire!Shift(p, s1)
           s3 == Wire!Shift(p, s2)
           s4 == Wire!Shift(p, s3)
           s5 == Wire!Shift(p, s4)
           s6 == Wire!Shift(p, s5)
           s7 == Wire!Shift(p, s6)
           s8 == Wire!Shift(p, s7)
<1>1. Differ(p, Z, place, e, e + 8, s0)
  BY DifferByte
<1>2. Wire!Eight(p, s0) = s8
  BY Zenon DEF Wire!Eight, Wire!Twice
<1>3. ASSUME NEW i \in 0 .. 7 PROVE e + i \in Nat /\ e + 8 \in Nat /\ e + i < e + 8 /\ e + 8 <= (e + i) + 8
                                    /\ (e + i) + 1 = e + (i + 1)
  OBVIOUS
<1>4. ASSUME NEW i \in 0 .. 7, NEW s, Differ(p, Z, place, e + i, e + 8, s)
      PROVE  Differ(p, Z, place, e + (i + 1), e + 8, Wire!Shift(p, s))
  <2>1. Differ(p, Z, place, (e + i) + 1, e + 8, Wire!Shift(p, s))
    BY Zenon, <1>3, <1>4, DifferShift
  <2> QED
    BY Zenon, <1>3, <2>1
<1> HIDE DEF s0
<1>5. Differ(p, Z, place, e + 0, e + 8, s0)
  BY <1>1
<1>6. Differ(p, Z, place, e + 1, e + 8, s1)
  BY <1>4, <1>5
<1> HIDE DEF s1
<1>7. Differ(p, Z, place, e + 2, e + 8, s2)
  BY <1>4, <1>6
<1> HIDE DEF s2
<1>8. Differ(p, Z, place, e + 3, e + 8, s3)
  BY <1>4, <1>7
<1> HIDE DEF s3
<1>9. Differ(p, Z, place, e + 4, e + 8, s4)
  BY <1>4, <1>8
<1> HIDE DEF s4
<1>10. Differ(p, Z, place, e + 5, e + 8, s5)
  BY <1>4, <1>9
<1> HIDE DEF s5
<1>11. Differ(p, Z, place, e + 6, e + 8, s6)
  BY <1>4, <1>10
<1> HIDE DEF s6
<1>12. Differ(p, Z, place, e + 7, e + 8, s7)
  BY <1>4, <1>11
<1> HIDE DEF s7
<1>13. Differ(p, Z, place, e + 8, e + 8, s8)
  BY <1>4, <1>12
<1> QED
  BY <1>2, <1>13 DEF s0

\* Eight shifts of a sum.
LEMMA EightOfXor ==
  ASSUME NEW p, NEW a \in Register, NEW b \in Register
  PROVE  /\ Wire!Eight(p, a) \in Register
         /\ Wire!Eight(p, Wire!Xor(a, b)) = Wire!Xor(Wire!Eight(p, a), Wire!Eight(p, b))
<1>1. ASSUME NEW c \in Register, NEW d \in Register
      PROVE  /\ Wire!Twice(p, c) \in Register
             /\ Wire!Twice(p, Wire!Xor(c, d)) = Wire!Xor(Wire!Twice(p, c), Wire!Twice(p, d))
  <2>1. Wire!Shift(p, c) \in Register /\ Wire!Shift(p, d) \in Register
    BY ShiftBits
  <2>2. Wire!Shift(p, Wire!Shift(p, c)) \in Register
    BY <2>1, ShiftBits
  <2>3. Wire!Shift(p, Wire!Xor(c, d)) = Wire!Xor(Wire!Shift(p, c), Wire!Shift(p, d))
    BY ShiftOfXor
  <2>4. Wire!Shift(p, Wire!Xor(Wire!Shift(p, c), Wire!Shift(p, d)))
          = Wire!Xor(Wire!Shift(p, Wire!Shift(p, c)), Wire!Shift(p, Wire!Shift(p, d)))
    BY <2>1, ShiftOfXor
  <2> QED
    BY <2>2, <2>3, <2>4 DEF Wire!Twice
<1> DEFINE a1 == Wire!Twice(p, a)
           b1 == Wire!Twice(p, b)
           a2 == Wire!Twice(p, a1)
           b2 == Wire!Twice(p, b1)
           a3 == Wire!Twice(p, a2)
           b3 == Wire!Twice(p, b2)
           a4 == Wire!Twice(p, a3)
           b4 == Wire!Twice(p, b3)
<1>2. Wire!Eight(p, a) = a4 /\ Wire!Eight(p, b) = b4
      /\ Wire!Eight(p, Wire!Xor(a, b))
           = Wire!Twice(p, Wire!Twice(p, Wire!Twice(p, Wire!Twice(p, Wire!Xor(a, b)))))
  BY Zenon DEF Wire!Eight
<1>3. a1 \in Register /\ b1 \in Register /\ Wire!Twice(p, Wire!Xor(a, b)) = Wire!Xor(a1, b1)
  BY <1>1
<1> HIDE DEF a1, b1
<1>4. a2 \in Register /\ b2 \in Register /\ Wire!Twice(p, Wire!Xor(a1, b1)) = Wire!Xor(a2, b2)
  BY <1>1, <1>3
<1> HIDE DEF a2, b2
<1>5. a3 \in Register /\ b3 \in Register /\ Wire!Twice(p, Wire!Xor(a2, b2)) = Wire!Xor(a3, b3)
  BY <1>1, <1>4
<1> HIDE DEF a3, b3
<1>6. a4 \in Register /\ b4 \in Register /\ Wire!Twice(p, Wire!Xor(a3, b3)) = Wire!Xor(a4, b4)
  BY <1>1, <1>5
<1> HIDE DEF a4, b4
<1> QED
  BY <1>2, <1>3, <1>4, <1>5, <1>6

\* A byte as it is taken into the register, and the register before the first.
Taking(p, byte) == IF p = "v2" THEN { b + 8 : b \in byte } ELSE byte
First(p) == IF p = "v2" THEN {} ELSE 0 .. 15
Crc(p, bytes) == IF p = "v2" THEN Wire!crc_xmodem(bytes) ELSE Wire!crc16(bytes)

LEMMA TakingType == ASSUME NEW p, NEW byte \in Byte PROVE Taking(p, byte) \in Register
<1>1. ASSUME NEW b \in byte PROVE b \in 0 .. 15 /\ b + 8 \in 0 .. 15
  BY DEF Byte
<1> QED
  BY <1>1 DEF Taking, Register

LEMMA TakingOfXor ==
  ASSUME NEW p, NEW a \in Byte, NEW b \in Byte
  PROVE  Taking(p, Wire!Xor(a, b)) = Wire!Xor(Taking(p, a), Taking(p, b))
<1>1. \A x \in a \cup b : x \in Int
  BY DEF Byte
<1>2. \A x, y \in a \cup b : x + 8 = y + 8 => x = y
  BY <1>1
<1> QED
  BY <1>2 DEF Taking, Wire!Xor

CrcStep(p, bytes) ==
  [k \in 1 .. Len(bytes) |-> [c \in Register |-> Wire!Eight(p, Wire!Xor(c, Taking(p, bytes[k])))]]

LEMMA CrcStepType ==
  ASSUME NEW p, NEW bytes, Len(bytes) \in Nat, \A k \in 1 .. Len(bytes) : bytes[k] \in Byte,
         NEW k \in 1 .. Len(bytes)
  PROVE  /\ CrcStep(p, bytes)[k] \in [Register -> Register]
         /\ \A c \in Register : /\ Wire!Eight(p, Wire!Xor(c, Taking(p, bytes[k]))) \in Register
                                /\ CrcStep(p, bytes)[k][c] = Wire!Eight(p, Wire!Xor(c, Taking(p, bytes[k])))
<1>1. ASSUME NEW c \in Register PROVE Wire!Eight(p, Wire!Xor(c, Taking(p, bytes[k]))) \in Register
  <2>1. Wire!Xor(c, Taking(p, bytes[k])) \in Register
    BY TakingType, XorRegister
  <2> QED
    BY Zenon, <2>1, EightOfXor
<1> QED
  BY <1>1 DEF CrcStep

\* Whether f has the registers behind each byte.
Registered(f, p, bytes) ==
  /\ f \in [0 .. Len(bytes) -> Register]
  /\ f[0] = First(p)
  /\ \A k \in 1 .. Len(bytes) : f[k] = Wire!Eight(p, Wire!Xor(f[k - 1], Taking(p, bytes[k])))

LEMMA SomeRegistered ==
  ASSUME NEW p, NEW bytes, Len(bytes) \in Nat, \A k \in 1 .. Len(bytes) : bytes[k] \in Byte
  PROVE  \E f : Registered(f, p, bytes)
<1> DEFINE N == Len(bytes)
           step == CrcStep(p, bytes)
<1>1. First(p) \in Register
  BY DEF First, Register
<1>2. PICK g \in [0 .. N -> Register] : Follows(g, N, First(p), step)
  <2>1. N \in Nat /\ \A k \in 1 .. N : step[k] \in [Register -> Register]
    BY CrcStepType
  <2> HIDE DEF N, step
  <2> QED
    BY <1>1, <2>1, Recursion
<1>3. ASSUME NEW k \in 1 .. N PROVE g[k] = Wire!Eight(p, Wire!Xor(g[k - 1], Taking(p, bytes[k])))
  <2>1. k - 1 \in 0 .. N /\ g[k - 1] \in Register /\ g[k] = step[k][g[k - 1]]
    BY <1>2 DEF Follows
  <2> HIDE DEF step
  <2> QED
    BY <2>1, CrcStepType DEF step
<1>4. Registered(g, p, bytes)
  BY <1>2, <1>3 DEF Registered, Follows
<1> QED
  BY <1>4

LEMMA RegistersTyped ==
  ASSUME NEW p, NEW bytes, Len(bytes) \in Nat, \A k \in 1 .. Len(bytes) : bytes[k] \in Byte,
         NEW f, f = [n \in 0 .. Len(bytes) |-> f[n]], f[0] = First(p),
         \A k \in 1 .. Len(bytes) : f[k] = Wire!Eight(p, Wire!Xor(f[k - 1], Taking(p, bytes[k])))
  PROVE  Registered(f, p, bytes)
<1> DEFINE N == Len(bytes)
<1>1. f[0] \in Register
  BY DEF First, Register
<1>2. ASSUME NEW n \in 1 .. N, f[n - 1] \in Register PROVE f[n] \in Register
  BY <1>2, CrcStepType
<1>3. \A n \in 0 .. N : f[n] \in Register
  <2>1. N \in Nat
    OBVIOUS
  <2> HIDE DEF N
  <2> QED
    BY <1>1, <1>2, <2>1, StaysIn
<1>4. f \in [0 .. N -> Register]
  BY <1>3
<1> QED
  BY <1>4 DEF Registered

\* The registers behind the bytes of a message, its CRC behind the last.
LEMMA Crc16Registers ==
  ASSUME NEW bytes, Len(bytes) \in Nat, \A k \in 1 .. Len(bytes) : bytes[k] \in Byte
  PROVE  \E f : Registered(f, "v3", bytes) /\ Wire!crc16(bytes) = f[Len(bytes)]
<1> DEFINE N == Len(bytes)
           Is(f) == f = [n \in 0 .. N |-> IF n = 0 THEN 0 .. 15
                                          ELSE Wire!Eight("v3", Wire!Xor(f[n - 1], bytes[n]))]
           after == CHOOSE f : Is(f)
<1>1. PICK g : Registered(g, "v3", bytes)
  BY SomeRegistered
<1>2. \A k \in 1 .. N : Taking("v3", bytes[k]) = bytes[k]
  BY DEF Taking
<1>3. Is(g)
  <2>1. ASSUME NEW n \in 0 .. N
        PROVE  g[n] = IF n = 0 THEN 0 .. 15 ELSE Wire!Eight("v3", Wire!Xor(g[n - 1], bytes[n]))
    <3>1. CASE n = 0
      BY <3>1, <1>1 DEF Registered, First
    <3>2. CASE n # 0
      <4>1. n \in 1 .. N
        BY <3>2
      <4> QED
        BY <3>2, <4>1, <1>1, <1>2 DEF Registered
    <3> QED
      BY <3>1, <3>2
  <2> QED
    BY <1>1, <2>1 DEF Registered
<1>4. Is(after)
  <2> HIDE DEF Is
  <2> QED
    BY <1>3
<1>5. Wire!crc16(bytes) = after[N]
  BY DEF Wire!crc16
<1>6. /\ after[0] = First("v3") /\ after = [n \in 0 .. N |-> after[n]]
      /\ \A k \in 1 .. N : after[k] = Wire!Eight("v3", Wire!Xor(after[k - 1], Taking("v3", bytes[k])))
  <2>1. 0 \in 0 .. N /\ \A k \in 1 .. N : k \in 0 .. N /\ k # 0
    OBVIOUS
  <2> HIDE DEF after
  <2> QED
    BY <1>2, <1>4, <2>1 DEF First
<1> HIDE DEF after
<1>7. Registered(after, "v3", bytes)
  BY <1>6, RegistersTyped
<1> QED
  BY <1>5, <1>7

LEMMA XmodemRegisters ==
  ASSUME NEW bytes, Len(bytes) \in Nat, \A k \in 1 .. Len(bytes) : bytes[k] \in Byte
  PROVE  \E f : Registered(f, "v2", bytes) /\ Wire!crc_xmodem(bytes) = f[Len(bytes)]
<1> DEFINE N == Len(bytes)
           Is(f) == f = [n \in 0 .. N |-> IF n = 0 THEN {}
                                          ELSE Wire!Eight("v2", Wire!Xor(f[n - 1], { b + 8 : b \in bytes[n] }))]
           after == CHOOSE f : Is(f)
<1>1. PICK g : Registered(g, "v2", bytes)
  BY SomeRegistered
<1>2. \A k \in 1 .. N : Taking("v2", bytes[k]) = { b + 8 : b \in bytes[k] }
  BY DEF Taking
<1>3. Is(g)
  <2>1. ASSUME NEW n \in 0 .. N
        PROVE  g[n] = IF n = 0 THEN {} ELSE Wire!Eight("v2", Wire!Xor(g[n - 1], { b + 8 : b \in bytes[n] }))
    <3>1. CASE n = 0
      BY <3>1, <1>1 DEF Registered, First
    <3>2. CASE n # 0
      <4>1. n \in 1 .. N
        BY <3>2
      <4>2. g[n] = Wire!Eight("v2", Wire!Xor(g[n - 1], Taking("v2", bytes[n])))
        BY <4>1, <1>1 DEF Registered
      <4> QED
        BY <3>2, <4>2 DEF Taking
    <3> QED
      BY <3>1, <3>2
  <2> QED
    BY <1>1, <2>1 DEF Registered
<1>4. Is(after)
  <2> HIDE DEF Is
  <2> QED
    BY <1>3
<1>5. Wire!crc_xmodem(bytes) = after[N]
  BY DEF Wire!crc_xmodem
<1>6. /\ after[0] = First("v2") /\ after = [n \in 0 .. N |-> after[n]]
      /\ \A k \in 1 .. N : after[k] = Wire!Eight("v2", Wire!Xor(after[k - 1], Taking("v2", bytes[k])))
  <2>1. 0 \in 0 .. N /\ \A k \in 1 .. N : k \in 0 .. N /\ k # 0
    OBVIOUS
  <2> HIDE DEF after
  <2> QED
    BY <1>4, <2>1 DEF First, Taking
<1> HIDE DEF after
<1>7. Registered(after, "v2", bytes)
  BY <1>6, RegistersTyped
<1> QED
  BY <1>5, <1>7

LEMMA CrcRegisters ==
  ASSUME NEW p \in {"v2", "v3"}, NEW bytes, Len(bytes) \in Nat, \A k \in 1 .. Len(bytes) : bytes[k] \in Byte
  PROVE  \E f : Registered(f, p, bytes) /\ Crc(p, bytes) = f[Len(bytes)]
<1>1. CASE p = "v2"
  BY <1>1, XmodemRegisters DEF Crc
<1>2. CASE p = "v3"
  BY <1>2, Crc16Registers DEF Crc
<1> QED
  BY <1>1, <1>2

\* What byte k of a message is damaged by.
Damage(p, Z, k) == { Wire!BitOf(p, m) : m \in { x \in Z : x \div 8 = k - 1 } }

LEMMA DamageTaken ==
  ASSUME NEW p, NEW Z, Z \subseteq Nat, NEW k \in Nat, k > 0
  PROVE  /\ Damage(p, Z, k) \in Byte
         /\ Taking(p, Damage(p, Z, k)) = At(p, From(Below(Z, 8 * (k - 1) + 8), 8 * (k - 1)), 8 * (k - 1))
<1> DEFINE e == 8 * (k - 1)
           M == { x \in Z : x \div 8 = k - 1 }
<1>1. M = From(Below(Z, e + 8), e)
  <2>1. \A x \in Z : x \div 8 = k - 1 <=> x < e + 8 /\ e <= x
    OBVIOUS
  <2> QED
    BY <2>1 DEF From, Below
<1>2. ASSUME NEW m \in M
      PROVE  /\ Wire!BitOf(p, m) \in 0 .. 7
             /\ Wire!BitOf(p, m) = IF p = "v2" THEN 7 - (m - e) ELSE m - e
             /\ Deep(p, m - e) = IF p = "v2" THEN Wire!BitOf(p, m) + 8 ELSE Wire!BitOf(p, m)
  <2>1. m \in Nat /\ m \div 8 = k - 1
    OBVIOUS
  <2>2. m % 8 = m - e /\ m % 8 \in 0 .. 7 /\ e \in Nat
    BY <2>1
  <2> HIDE DEF e
  <2> QED
    BY <2>1, <2>2 DEF Wire!BitOf, Deep
<1>3. Damage(p, Z, k) \in Byte
  BY <1>2 DEF Damage, Byte
<1>4. CASE p = "v2"
  <2>1. Taking(p, Damage(p, Z, k)) = { b + 8 : b \in { Wire!BitOf(p, m) : m \in M } }
    BY <1>4 DEF Taking, Damage
  <2>2. At(p, M, e) = { Deep(p, m - e) : m \in M }
    BY DEF At
  <2>3. \A m \in M : Deep(p, m - e) = Wire!BitOf(p, m) + 8
    BY <1>2, <1>4
  <2> HIDE DEF M, e
  <2>4. { b + 8 : b \in { Wire!BitOf(p, m) : m \in M } } = { Deep(p, m - e) : m \in M }
    BY <2>3
  <2> QED
    BY <1>1, <1>3, <2>1, <2>2, <2>4 DEF e
<1>5. CASE p # "v2"
  <2>1. Taking(p, Damage(p, Z, k)) = { Wire!BitOf(p, m) : m \in M }
    BY <1>5 DEF Taking, Damage
  <2>2. At(p, M, e) = { Deep(p, m - e) : m \in M }
    BY DEF At
  <2>3. \A m \in M : Deep(p, m - e) = Wire!BitOf(p, m)
    BY <1>2, <1>5
  <2> HIDE DEF M, e
  <2>4. { Wire!BitOf(p, m) : m \in M } = { Deep(p, m - e) : m \in M }
    BY <2>3
  <2> QED
    BY <1>1, <1>3, <2>1, <2>2, <2>4 DEF e
<1> QED
  BY <1>4, <1>5

\* The registers of a message and of the damaged one behind each of their bytes.
LEMMA CrcsDiffer ==
  ASSUME NEW p \in {"v2", "v3"}, NEW Z, NEW place, Burst(Z, place),
         NEW bytes, NEW new, Len(bytes) \in Nat, Len(new) = Len(bytes),
         \A k \in 1 .. Len(bytes) : bytes[k] \in Byte /\ new[k] = Wire!Xor(bytes[k], Damage(p, Z, k))
  PROVE  /\ Crc(p, bytes) \in Register /\ Crc(p, new) \in Register
         /\ Differ(p, Z, place, 8 * Len(bytes), 8 * Len(bytes), Wire!Xor(Crc(p, bytes), Crc(p, new)))
<1> DEFINE N == Len(bytes)
<1>0. N \in Nat /\ Len(new) = N /\ \A k \in 1 .. N : bytes[k] \in Byte
  OBVIOUS
<1>1. Z \subseteq Nat
  BY DEF Burst
<1>2. ASSUME NEW k \in 1 .. N
      PROVE  /\ Damage(p, Z, k) \in Byte /\ new[k] \in Byte
             /\ Taking(p, new[k]) = Wire!Xor(Taking(p, bytes[k]),
                                             At(p, From(Below(Z, 8 * (k - 1) + 8), 8 * (k - 1)), 8 * (k - 1)))
  <2>1. k \in Nat /\ k > 0 /\ bytes[k] \in Byte /\ new[k] = Wire!Xor(bytes[k], Damage(p, Z, k))
    OBVIOUS
  <2>2. Damage(p, Z, k) \in Byte
    BY <1>1, <2>1, DamageTaken
  <2>3. Wire!Xor(bytes[k], Damage(p, Z, k)) \in Byte
    BY <2>1, <2>2 DEF Byte, Wire!Xor
  <2>4. Taking(p, Wire!Xor(bytes[k], Damage(p, Z, k))) = Wire!Xor(Taking(p, bytes[k]), Taking(p, Damage(p, Z, k)))
    BY <2>1, <2>2, TakingOfXor
  <2>5. Taking(p, Damage(p, Z, k)) = At(p, From(Below(Z, 8 * (k - 1) + 8), 8 * (k - 1)), 8 * (k - 1))
    BY <1>1, <2>1, DamageTaken
  <2> QED
    BY <2>1, <2>2, <2>3, <2>4, <2>5
<1>3. PICK f : Registered(f, p, bytes) /\ Crc(p, bytes) = f[N]
  BY <1>0, CrcRegisters
<1>4. PICK g : Registered(g, p, new) /\ Crc(p, new) = g[N]
  <2>1. Len(new) \in Nat /\ \A k \in 1 .. Len(new) : new[k] \in Byte
    BY <1>0, <1>2
  <2> QED
    BY <1>0, <2>1, CrcRegisters
<1> DEFINE P == { k \in 0 .. N : Differ(p, Z, place, 8 * k, 8 * k, Wire!Xor(f[k], g[k])) }
<1>5. \A k \in 0 .. N : f[k] \in Register /\ g[k] \in Register
  BY <1>0, <1>3, <1>4 DEF Registered
<1>6. 0 \in P
  <2>1. f[0] = g[0]
    BY <1>3, <1>4 DEF Registered
  <2>2. Wire!Xor(f[0], g[0]) = {}
    BY <2>1, XorEmpty
  <2>3. 0 \in 0 .. N /\ 8 * 0 = 0
    BY <1>0
  <2> QED
    BY <2>2, <2>3, DifferFirst
<1>7. ASSUME NEW j \in 0 .. N, j < N, j \in P PROVE j + 1 \in P
  <2>1. PICK k \in 1 .. N : k = j + 1 /\ k - 1 = j
    BY <1>0, <1>7
  <2> DEFINE e == 8 * j
             damage == At(p, From(Below(Z, e + 8), e), e)
             x == Taking(p, bytes[k])
  <2>2. Differ(p, Z, place, e, e, Wire!Xor(f[j], g[j])) /\ e \in Nat
    BY <1>7
  <2>3. f[k] = Wire!Eight(p, Wire!Xor(f[j], x)) /\ g[k] = Wire!Eight(p, Wire!Xor(g[j], Taking(p, new[k])))
    BY <1>0, <1>3, <1>4, <2>1 DEF Registered
  <2>4. Taking(p, new[k]) = Wire!Xor(x, damage)
    BY <1>2, <2>1
  <2>5. x \in Register /\ Wire!Xor(x, damage) \in Register /\ f[j] \in Register /\ g[j] \in Register
    BY <1>0, <1>2, <1>5, <2>4, TakingType
  <2> HIDE DEF damage, x
  <2>6. Wire!Xor(f[j], x) \in Register /\ Wire!Xor(g[j], Wire!Xor(x, damage)) \in Register
    BY <2>5, XorRegister
  <2>7. Wire!Xor(f[k], g[k]) = Wire!Eight(p, Wire!Xor(Wire!Xor(f[j], x), Wire!Xor(g[j], Wire!Xor(x, damage))))
    BY <2>3, <2>4, <2>6, EightOfXor
  <2>8. Wire!Xor(Wire!Xor(f[j], x), Wire!Xor(g[j], Wire!Xor(x, damage)))
          = Wire!Xor(Wire!Xor(f[j], g[j]), Wire!Xor(x, Wire!Xor(x, damage)))
    BY XorOfXors
  <2>9. Wire!Xor(x, Wire!Xor(x, damage)) = damage
    BY DEF Wire!Xor
  <2>10. Wire!Xor(f[k], g[k]) = Wire!Eight(p, Wire!Xor(Wire!Xor(f[j], g[j]), damage))
    BY <2>7, <2>8, <2>9
  <2>11. Differ(p, Z, place, e + 8, e + 8, Wire!Xor(f[k], g[k]))
    BY <2>2, <2>10, DifferEight DEF damage
  <2>12. e + 8 = 8 * k /\ k \in 0 .. N
    BY <1>0, <2>1
  <2> QED
    BY <2>1, <2>11, <2>12
<1>8. N \in P
  <2>1. N \in 0 .. N
    BY <1>0
  <2> HIDE DEF P, N
  <2> QED
    BY <1>0, <1>6, <1>7, <2>1, Onward
<1>9. f[N] \in Register /\ g[N] \in Register
  BY <1>0, <1>5
<1> QED
  BY <1>3, <1>4, <1>8, <1>9

\* A message with its CRC behind it, of which up to sixteen bits in a row are damaged, no
\* longer has the CRC behind it that belongs to it.
LEMMA BurstNoticed ==
  ASSUME NEW p \in {"v2", "v3"}, NEW Z, NEW place, Burst(Z, place),
         NEW bytes, NEW new, Len(bytes) \in Nat, Len(new) = Len(bytes),
         \A k \in 1 .. Len(bytes) : bytes[k] \in Byte /\ new[k] = Wire!Xor(bytes[k], Damage(p, Z, k)),
         \A m \in Z : m < 8 * Len(bytes) + 16
  PROVE  Crc(p, new) # Wire!Xor(Crc(p, bytes), At(p, From(Z, 8 * Len(bytes)), 8 * Len(bytes)))
<1> DEFINE n == 8 * Len(bytes)
           S == Wire!Xor(Crc(p, bytes), Crc(p, new))
           tail == At(p, From(Z, n), n)
<1>1. Differ(p, Z, place, n, n, S) /\ n \in Nat
  BY CrcsDiffer
<1>2. S # tail
  <2>1. CASE n >= place
    <3>1. Wire!Xor(S, tail) # {}
      BY <1>1, <2>1 DEF Differ
    <3> QED
      BY <3>1, XorEmpty
  <2>2. CASE n <= place
    <3>1. S = At(p, Below(Z, n), n)
      BY <1>1, <2>2 DEF Differ
    <3>2. Wire!Xor(At(p, Below(Z, n), n), tail) # {}
      <4>1. n \in Nat
        BY <1>1
      <4> HIDE DEF n
      <4> QED
        BY <4>1, Parts DEF tail
    <3> QED
      BY <3>1, <3>2, XorEmpty
  <2>3. place \in Int
    BY DEF Burst
  <2> QED
    BY <1>1, <2>1, <2>2, <2>3
<1>3. ASSUME Crc(p, new) = Wire!Xor(Crc(p, bytes), tail) PROVE FALSE
  <2>1. S = tail
    BY <1>3 DEF Wire!Xor
  <2> QED
    BY <1>2, <2>1
<1> QED
  BY <1>3

\* The two bytes of a CRC as a frame has them, and the CRC they make up.
FirstByte(p, crc) == IF p = "v2" THEN Wire!High(crc) ELSE Wire!Low(crc)
SecondByte(p, crc) == IF p = "v2" THEN Wire!Low(crc) ELSE Wire!High(crc)
Lifted(byte) == { b + 8 : b \in byte }
Trailer(p, a, b) == IF p = "v2" THEN Wire!Xor(Lifted(a), b) ELSE Wire!Xor(a, Lifted(b))

LEMMA LiftedOfXor ==
  ASSUME NEW a \in Byte, NEW b \in Byte
  PROVE  Lifted(Wire!Xor(a, b)) = Wire!Xor(Lifted(a), Lifted(b))
<1>1. \A x, y \in a \cup b : x + 8 = y + 8 => x = y
  BY DEF Byte
<1> QED
  BY <1>1 DEF Lifted, Wire!Xor

LEMMA CrcBytes ==
  ASSUME NEW p, NEW crc \in Register
  PROVE  /\ FirstByte(p, crc) \in Byte /\ SecondByte(p, crc) \in Byte
         /\ Trailer(p, FirstByte(p, crc), SecondByte(p, crc)) = crc
<1>1. Wire!Low(crc) \in Byte /\ Wire!Low(crc) = { b \in crc : b < 8 }
  <2>1. \A b \in crc : b \in 0 .. 15
    BY DEF Register
  <2>2. Wire!Low(crc) \subseteq 0 .. 7
    BY DEF Wire!Low
  <2>3. \A b \in crc : b \in 0 .. 7 <=> b < 8
    BY <2>1
  <2>4. Wire!Low(crc) = { b \in crc : b < 8 }
    BY <2>3 DEF Wire!Low
  <2> QED
    BY <2>2, <2>4 DEF Byte
<1>2. Wire!High(crc) \in Byte /\ Lifted(Wire!High(crc)) = { b \in crc : b >= 8 }
  <2>1. \A b \in crc : b \in 0 .. 15 /\ (b >= 8 => b \in crc \cap (8 .. 15) /\ (b - 8) + 8 = b)
    BY DEF Register
  <2>2. ASSUME NEW x \in Wire!High(crc) PROVE x \in 0 .. 7 /\ x + 8 \in { b \in crc : b >= 8 }
    <3>1. PICK b \in crc \cap (8 .. 15) : x = b - 8
      BY DEF Wire!High
    <3>2. b \in 8 .. 15 /\ b \in crc
      OBVIOUS
    <3> QED
      BY <3>1, <3>2
  <2>3. ASSUME NEW b \in crc, b >= 8 PROVE b \in Lifted(Wire!High(crc))
    <3>1. b - 8 \in Wire!High(crc) /\ (b - 8) + 8 = b
      BY <2>1, <2>3 DEF Wire!High
    <3> QED
      BY <3>1 DEF Lifted
  <2> QED
    BY <2>2, <2>3 DEF Byte, Lifted
<1>3. \A b \in crc : b >= 8 <=> ~(b < 8)
  BY DEF Register
<1>4. /\ Wire!Xor(Wire!Low(crc), Lifted(Wire!High(crc))) = crc
      /\ Wire!Xor(Lifted(Wire!High(crc)), Wire!Low(crc)) = crc
  <2> DEFINE low == { b \in crc : b < 8 }
             high == { b \in crc : b >= 8 }
  <2>1. low \cap high = {} /\ low \cup high = crc
    BY <1>3
  <2> HIDE DEF low, high
  <2>2. Wire!Xor(low, high) = crc /\ Wire!Xor(high, low) = crc
    BY <2>1 DEF Wire!Xor
  <2> QED
    BY <1>1, <1>2, <2>2 DEF low, high
<1> QED
  BY <1>1, <1>2, <1>4 DEF FirstByte, SecondByte, Trailer

LEMMA TrailerOfXor ==
  ASSUME NEW p, NEW a \in Byte, NEW b \in Byte, NEW c \in Byte, NEW d \in Byte
  PROVE  Trailer(p, Wire!Xor(a, c), Wire!Xor(b, d)) = Wire!Xor(Trailer(p, a, b), Trailer(p, c, d))
<1>1. Lifted(Wire!Xor(a, c)) = Wire!Xor(Lifted(a), Lifted(c))
      /\ Lifted(Wire!Xor(b, d)) = Wire!Xor(Lifted(b), Lifted(d))
  BY LiftedOfXor
<1>2. /\ Wire!Xor(Wire!Xor(Lifted(a), Lifted(c)), Wire!Xor(b, d))
           = Wire!Xor(Wire!Xor(Lifted(a), b), Wire!Xor(Lifted(c), d))
      /\ Wire!Xor(Wire!Xor(a, c), Wire!Xor(Lifted(b), Lifted(d)))
           = Wire!Xor(Wire!Xor(a, Lifted(b)), Wire!Xor(c, Lifted(d)))
  BY XorOfXors
<1> QED
  BY <1>1, <1>2 DEF Trailer

\* The damage of the two bytes behind a message.
LEMMA TrailerDamaged ==
  ASSUME NEW p \in {"v2", "v3"}, NEW Z, Z \subseteq Nat, NEW n \in Nat, \A m \in Z : m < 8 * n + 16
  PROVE  Trailer(p, Damage(p, Z, n + 1), Damage(p, Z, n + 2)) = At(p, From(Z, 8 * n), 8 * n)
<1> DEFINE e == 8 * n
           M == From(Below(Z, e + 8), e)
           K == { x \in Z : x \div 8 = n + 1 }
<1>1. Taking(p, Damage(p, Z, n + 1)) = At(p, M, e)
  <2>1. n + 1 \in Nat /\ n + 1 > 0 /\ 8 * ((n + 1) - 1) = e
    OBVIOUS
  <2> HIDE DEF e
  <2> QED
    BY <2>1, DamageTaken
<1>2. M \in SUBSET From(Z, e) /\ From(Z, e) \ M = K /\ From(Z, e) \in SUBSET Int
  <2>1. \A x \in Z : x \in Nat /\ x < e + 16 /\ (x \div 8 = n + 1 <=> e <= x /\ ~(x < e + 8))
    OBVIOUS
  <2>2. M \subseteq From(Z, e) /\ From(Z, e) \subseteq Z /\ Z \subseteq Int
    BY DEF From, Below
  <2>3. From(Z, e) \ M = K
    BY <2>1 DEF From, Below
  <2> QED
    BY <2>2, <2>3
<1>3. Wire!Xor(At(p, M, e), At(p, K, e)) = At(p, From(Z, e), e)
  BY <1>2, AtOfParts
<1>4. Damage(p, Z, n + 2) = { Wire!BitOf(p, m) : m \in K }
  <2>1. (n + 2) - 1 = n + 1
    OBVIOUS
  <2> QED
    BY <2>1 DEF Damage
<1>5. ASSUME NEW m \in K
      PROVE  /\ Wire!BitOf(p, m) \in Int
             /\ Deep(p, m - e) = IF p = "v2" THEN Wire!BitOf(p, m) ELSE Wire!BitOf(p, m) + 8
  <2>1. m \in Nat /\ m \div 8 = n + 1
    OBVIOUS
  <2>2. m % 8 = m - (e + 8) /\ e \in Nat
    BY <2>1
  <2> HIDE DEF e
  <2> QED
    BY <2>1, <2>2 DEF Wire!BitOf, Deep
<1> HIDE DEF K, M, e
<1>6. CASE p = "v2"
  <2>1. At(p, K, e) = Damage(p, Z, n + 2)
    BY <1>4, <1>5, <1>6 DEF At
  <2>2. Lifted(Damage(p, Z, n + 1)) = At(p, M, e)
    BY <1>1, <1>6 DEF Taking, Lifted
  <2> QED
    BY <1>3, <1>6, <2>1, <2>2 DEF Trailer, e
<1>7. CASE p = "v3"
  <2>1. At(p, K, e) = { Wire!BitOf(p, m) + 8 : m \in K }
    BY <1>5, <1>7 DEF At
  <2>2. Lifted(Damage(p, Z, n + 2)) = { Wire!BitOf(p, m) + 8 : m \in K }
    BY <1>4 DEF Lifted
  <2>3. Damage(p, Z, n + 1) = At(p, M, e)
    BY <1>1, <1>7 DEF Taking
  <2> QED
    BY <1>3, <1>7, <2>1, <2>2, <2>3 DEF Trailer, e
<1> QED
  BY <1>6, <1>7

\* Two bytes behind a damaged message that is damaged in no more than sixteen bits in a row.
LEMMA TrailerNoticed ==
  ASSUME NEW p \in {"v2", "v3"}, NEW Z, NEW place, Burst(Z, place),
         NEW bytes, NEW new, Len(bytes) \in Nat, Len(new) = Len(bytes),
         \A k \in 1 .. Len(bytes) : bytes[k] \in Byte /\ new[k] = Wire!Xor(bytes[k], Damage(p, Z, k)),
         \A m \in Z : m < 8 * Len(bytes) + 16,
         NEW a, NEW b,
         a = Wire!Xor(FirstByte(p, Crc(p, bytes)), Damage(p, Z, Len(bytes) + 1)),
         b = Wire!Xor(SecondByte(p, Crc(p, bytes)), Damage(p, Z, Len(bytes) + 2))
  PROVE  Trailer(p, a, b) # Crc(p, new)
<1> DEFINE n == Len(bytes)
<1>1. Crc(p, bytes) \in Register
  BY CrcsDiffer
<1>2. Z \subseteq Nat
  BY DEF Burst
<1>3. Damage(p, Z, n + 1) \in Byte /\ Damage(p, Z, n + 2) \in Byte
  <2>1. n + 1 \in Nat /\ n + 1 > 0 /\ n + 2 \in Nat /\ n + 2 > 0
    OBVIOUS
  <2> HIDE DEF n
  <2> QED
    BY <1>2, <2>1, DamageTaken
<1>4. Trailer(p, a, b) = Wire!Xor(Crc(p, bytes), Trailer(p, Damage(p, Z, n + 1), Damage(p, Z, n + 2)))
  BY <1>1, <1>3, CrcBytes, TrailerOfXor
<1>5. Trailer(p, Damage(p, Z, n + 1), Damage(p, Z, n + 2)) = At(p, From(Z, 8 * n), 8 * n)
  BY <1>2, TrailerDamaged
<1> QED
  BY <1>4, <1>5, BurstNoticed

-----------------------------------------------------------------------------
(* Frames. *)

LEMMA SealedV3 ==
  ASSUME NEW bytes \in Seq(Byte), NEW frame, frame = Wire!SealV3(bytes)
  PROVE  /\ Len(bytes) \in Nat /\ \A k \in 1 .. Len(bytes) : bytes[k] \in Byte
         /\ Len(frame) = Len(bytes) + 2 /\ Crc("v3", bytes) \in Register
         /\ \A k \in 1 .. Len(bytes) : frame[k] = bytes[k]
         /\ frame[Len(bytes) + 1] = FirstByte("v3", Crc("v3", bytes))
         /\ frame[Len(bytes) + 2] = SecondByte("v3", Crc("v3", bytes))
<1>1. Len(bytes) \in Nat /\ \A k \in 1 .. Len(bytes) : bytes[k] \in Byte
  OBVIOUS
<1>2. PICK f : Registered(f, "v3", bytes) /\ Crc("v3", bytes) = f[Len(bytes)]
  BY <1>1, CrcRegisters
<1>3. Crc("v3", bytes) \in Register
  BY <1>1, <1>2 DEF Registered
<1>4. /\ FirstByte("v3", Crc("v3", bytes)) = Wire!Low(Wire!crc16(bytes))
      /\ SecondByte("v3", Crc("v3", bytes)) = Wire!High(Wire!crc16(bytes))
  BY DEF Crc, FirstByte, SecondByte
<1>5. /\ Wire!Low(Wire!crc16(bytes)) \in Byte /\ Wire!High(Wire!crc16(bytes)) \in Byte
  BY <1>3, <1>4, CrcBytes
<1>6. PICK a, b \in Byte : a = Wire!Low(Wire!crc16(bytes)) /\ b = Wire!High(Wire!crc16(bytes))
  BY <1>5
<1>7. frame = bytes \o << a, b >>
  BY <1>6 DEF Wire!SealV3
<1>8. << a, b >> \in Seq(Byte) /\ Len(<< a, b >>) = 2
  OBVIOUS
<1>9. /\ Len(frame) = Len(bytes) + 2
      /\ \A k \in 1 .. Len(bytes) : frame[k] = bytes[k]
      /\ frame[Len(bytes) + 1] = a /\ frame[Len(bytes) + 2] = b
  BY <1>7, <1>8
<1> QED
  BY <1>1, <1>3, <1>4, <1>6, <1>9

\* The check of a V3 frame in these terms.
LEMMA CheckV3 ==
  ASSUME NEW n \in Nat, NEW frame, Len(frame) = n + 2
  PROVE  Wire!CheckedV3(frame)
           <=> Trailer("v3", frame[n + 1], frame[n + 2]) = Crc("v3", SubSeq(frame, 1, n))
<1>1. Len(frame) - 1 = n + 1 /\ Len(frame) - 2 = n
  OBVIOUS
<1> QED
  BY <1>1 DEF Wire!CheckedV3, Trailer, Crc, Lifted

LEMMA V3Taken ==
  ASSUME NEW bytes \in Seq(Byte)
  PROVE  Wire!CheckedV3(Wire!SealV3(bytes))
<1> DEFINE n == Len(bytes)
<1>1. PICK frame : frame = Wire!SealV3(bytes)
  OBVIOUS
<1>2. /\ n \in Nat /\ Len(frame) = n + 2 /\ Crc("v3", bytes) \in Register
      /\ \A k \in 1 .. n : frame[k] = bytes[k]
      /\ frame[n + 1] = FirstByte("v3", Crc("v3", bytes))
      /\ frame[n + 2] = SecondByte("v3", Crc("v3", bytes))
  BY <1>1, SealedV3
<1>3. SubSeq(frame, 1, n) = bytes
  BY <1>2
<1>4. Trailer("v3", frame[n + 1], frame[n + 2]) = Crc("v3", bytes)
  BY <1>2, CrcBytes
<1> QED
  BY <1>1, <1>2, <1>3, <1>4, CheckV3

LEMMA V3Noticed ==
  ASSUME NEW bytes \in Seq(Byte), NEW frame, frame = Wire!SealV3(bytes),
         NEW Z, NEW place, Burst(Z, place), \A m \in Z : m < 8 * Len(frame),
         NEW new, Len(new) = Len(frame),
         \A k \in 1 .. Len(frame) : new[k] = Wire!Xor(frame[k], Damage("v3", Z, k))
  PROVE  ~Wire!CheckedV3(new)
<1> DEFINE n == Len(bytes)
           part == SubSeq(new, 1, n)
<1>1. /\ n \in Nat /\ Len(frame) = n + 2 /\ \A k \in 1 .. n : bytes[k] \in Byte /\ frame[k] = bytes[k]
      /\ frame[n + 1] = FirstByte("v3", Crc("v3", bytes))
      /\ frame[n + 2] = SecondByte("v3", Crc("v3", bytes))
  BY SealedV3
<1>2. Len(part) = n /\ \A k \in 1 .. n : part[k] = new[k]
  BY <1>1
<1>3. \A k \in 1 .. n : part[k] = Wire!Xor(bytes[k], Damage("v3", Z, k))
  BY <1>1, <1>2
<1>4. /\ new[n + 1] = Wire!Xor(FirstByte("v3", Crc("v3", bytes)), Damage("v3", Z, n + 1))
      /\ new[n + 2] = Wire!Xor(SecondByte("v3", Crc("v3", bytes)), Damage("v3", Z, n + 2))
  BY <1>1
<1>5. \A m \in Z : m < 8 * n + 16
  BY <1>1, BurstBits
<1> HIDE DEF part
<1>6. Trailer("v3", new[n + 1], new[n + 2]) # Crc("v3", part)
  BY <1>1, <1>2, <1>3, <1>4, <1>5, TrailerNoticed
<1> QED
  BY <1>1, <1>6, CheckV3 DEF part

LEMMA PowersOfTwo == /\ 2^8 = 256 /\ 2^9 = 512 /\ 2^10 = 1024 /\ 2^11 = 2048
                /\ 2^12 = 4096 /\ 2^13 = 8192 /\ 2^14 = 16384 /\ 2^15 = 32768
OBVIOUS

LEMMA BitsType == ASSUME NEW n \in 0 .. 255 PROVE Wire!Bits(n) \in Byte
<1>1. ASSUME NEW b \in 8 .. 15 PROVE 2^b \in Nat /\ 2^b >= 256
  <2>1. b = 8 \/ b = 9 \/ b = 10 \/ b = 11 \/ b = 12 \/ b = 13 \/ b = 14 \/ b = 15
    OBVIOUS
  <2>2. 2^b = 2^8 \/ 2^b = 2^9 \/ 2^b = 2^10 \/ 2^b = 2^11 \/ 2^b = 2^12 \/ 2^b = 2^13
        \/ 2^b = 2^14 \/ 2^b = 2^15
    BY Zenon, <2>1
  <2> QED
    BY <2>2, PowersOfTwo
<1>2. ASSUME NEW b \in 0 .. 15, (n \div 2^b) % 2 = 1 PROVE b \in 0 .. 7
  <2>1. CASE b \in 8 .. 15
    <3>1. PICK power \in Nat : power = 2^b /\ power >= 256
      BY <1>1, <2>1
    <3>2. n \div power = 0
      BY <3>1
    <3> QED
      BY <1>2, <3>1, <3>2
  <2> QED
    BY <2>1
<1> QED
  BY <1>2 DEF Wire!Bits, Byte

\* The bytes of a number, and those of a word.
LEMMA NumberBytes == \A n \in 0 .. 255 : Wire!Bits(n) \in Byte
BY BitsType

HighBits(n) == Wire!Bits(n \div 256)
LowBits(n) == Wire!Bits(n % 256)

LEMMA WordBits ==
  ASSUME NEW n \in Wire!Words
  PROVE  HighBits(n) \in Byte /\ LowBits(n) \in Byte
<1>1. n \in Nat /\ n < 65536
  BY DEF Wire!Words
<1>2. n \div 256 \in Nat /\ n \div 256 < 256
  BY <1>1
<1>3. n % 256 \in Nat /\ n % 256 < 256
  BY <1>1
<1>4. PICK h \in 0 .. 255 : h = n \div 256
  BY <1>2
<1>5. PICK l \in 0 .. 255 : l = n % 256
  BY <1>3
<1> QED
  BY Zenon, <1>4, <1>5, NumberBytes DEF HighBits, LowBits

LEMMA SmallIsWord == ASSUME NEW n \in Nat, n <= 190 PROVE n \in Wire!Words
BY DEF Wire!Words

LEMMA SixBytes ==
  ASSUME NEW a \in Byte, NEW b \in Byte, NEW c \in Byte, NEW d \in Byte, NEW e \in Byte, NEW f \in Byte
  PROVE  << a, b, c, d, e, f >> \in Seq(Byte)
OBVIOUS

LEMMA RequestV3Sealed ==
  ASSUME NEW device \in 0 .. 255, NEW function \in {1, 4}, NEW start \in Wire!Words, NEW count \in 0 .. 255
  PROVE  \E bytes \in Seq(Byte) : Wire!RequestV3(device, function, start, count) = Wire!SealV3(bytes)
<1>1. PICK number \in Wire!Words : number = Wire!Wrapped(count * (IF function = 1 THEN 16 ELSE 1))
  <2>1. PICK n \in Int : n = count * (IF function = 1 THEN 16 ELSE 1)
    OBVIOUS
  <2>2. Wire!Wrapped(n) \in Wire!Words
    BY Zenon, WrappedType
  <2> QED
    BY Zenon, <2>1, <2>2
<1>2. Wire!RequestV3(device, function, start, count)
        = Wire!SealV3(<< Wire!Bits(device), Wire!Bits(function), HighBits(start), LowBits(start),
                         HighBits(number), LowBits(number) >>)
  BY <1>1 DEF Wire!RequestV3, HighBits, LowBits
<1>3. function \in 0 .. 255
  OBVIOUS
<1>4. /\ Wire!Bits(device) \in Byte /\ Wire!Bits(function) \in Byte
      /\ HighBits(start) \in Byte /\ LowBits(start) \in Byte
      /\ HighBits(number) \in Byte /\ LowBits(number) \in Byte
  BY Zenon, <1>3, NumberBytes, WordBits
<1>5. << Wire!Bits(device), Wire!Bits(function), HighBits(start), LowBits(start),
         HighBits(number), LowBits(number) >> \in Seq(Byte)
  BY Zenon, <1>4, SixBytes
<1> QED
  BY Zenon, <1>2, <1>5

\* A V2 frame around its body.
FramedV2(body) ==
  << Wire!Bits(126) >> \o body
    \o << Wire!High(Wire!crc_xmodem(body)), Wire!Low(Wire!crc_xmodem(body)), Wire!Bits(13) >>

LEMMA RequestV2Framed ==
  ASSUME NEW function \in 0 .. 255, NEW payload \in Seq(Byte), Len(payload) <= 190
  PROVE  \E body \in Seq(Byte) : Wire!RequestV2(function, payload) = FramedV2(body)
<1>1. Len(payload) \in Wire!Words
  <2>1. Len(payload) \in Nat
    OBVIOUS
  <2> QED
    BY Zenon, <2>1, SmallIsWord
<1>2. PICK front : front = << Wire!Bits(16), {}, Wire!Bits(70), Wire!Bits(function),
                              HighBits(Len(payload)), LowBits(Len(payload)) >>
  OBVIOUS
<1>3. Wire!RequestV2(function, payload) = FramedV2(front \o payload)
  BY <1>2 DEF Wire!RequestV2, FramedV2, HighBits, LowBits
<1>4. {} \in Byte /\ 16 \in 0 .. 255 /\ 70 \in 0 .. 255
  BY DEF Byte
<1>5. front \in Seq(Byte)
  <2>1. /\ Wire!Bits(16) \in Byte /\ Wire!Bits(70) \in Byte /\ Wire!Bits(function) \in Byte
        /\ HighBits(Len(payload)) \in Byte /\ LowBits(Len(payload)) \in Byte
    BY Zenon, <1>1, <1>4, NumberBytes, WordBits
  <2> QED
    BY Zenon, <1>2, <1>4, <2>1, SixBytes
<1>6. front \o payload \in Seq(Byte)
  BY <1>5
<1> QED
  BY Zenon, <1>3, <1>6

LEMMA FrameOfV2 ==
  ASSUME NEW body \in Seq(Byte), NEW frame, frame = FramedV2(body)
  PROVE  /\ Len(body) \in Nat /\ \A k \in 1 .. Len(body) : body[k] \in Byte
         /\ Len(frame) = Len(body) + 4 /\ Crc("v2", body) \in Register
         /\ \A k \in 1 .. Len(body) : frame[k + 1] = body[k]
         /\ frame[Len(body) + 2] = FirstByte("v2", Crc("v2", body))
         /\ frame[Len(body) + 3] = SecondByte("v2", Crc("v2", body))
         /\ frame[Len(body) + 4] = Wire!Bits(13)
<1>1. Len(body) \in Nat /\ \A k \in 1 .. Len(body) : body[k] \in Byte
  OBVIOUS
<1>2. PICK f : Registered(f, "v2", body) /\ Crc("v2", body) = f[Len(body)]
  BY <1>1, CrcRegisters
<1>3. Crc("v2", body) \in Register
  BY <1>1, <1>2 DEF Registered
<1>4. /\ FirstByte("v2", Crc("v2", body)) = Wire!High(Wire!crc_xmodem(body))
      /\ SecondByte("v2", Crc("v2", body)) = Wire!Low(Wire!crc_xmodem(body))
  BY DEF Crc, FirstByte, SecondByte
<1>5. /\ Wire!High(Wire!crc_xmodem(body)) \in Byte /\ Wire!Low(Wire!crc_xmodem(body)) \in Byte
  BY <1>3, <1>4, CrcBytes
<1>6. Wire!Bits(126) \in Byte /\ Wire!Bits(13) \in Byte
  BY BitsType
<1>7. PICK a, b, s, t \in Byte :
        /\ a = Wire!High(Wire!crc_xmodem(body)) /\ b = Wire!Low(Wire!crc_xmodem(body))
        /\ s = Wire!Bits(126) /\ t = Wire!Bits(13)
  BY Zenon, <1>5, <1>6
<1>8. frame = << s >> \o body \o << a, b, t >>
  BY Zenon, <1>7 DEF FramedV2
<1>9. << s >> \in Seq(Byte) /\ Len(<< s >>) = 1 /\ << a, b, t >> \in Seq(Byte) /\ Len(<< a, b, t >>) = 3
  OBVIOUS
<1>10. PICK front \in Seq(Byte) : front = << s >> \o body
  <2>1. << s >> \o body \in Seq(Byte)
    BY <1>9
  <2> QED
    BY <2>1
<1>11. Len(front) = Len(body) + 1 /\ \A k \in 1 .. Len(body) : front[k + 1] = body[k]
  BY <1>9, <1>10
<1>12. frame = front \o << a, b, t >>
  BY <1>8, <1>10
<1>13. /\ Len(frame) = Len(body) + 4 /\ \A k \in 1 .. Len(front) : frame[k] = front[k]
       /\ frame[Len(body) + 2] = a /\ frame[Len(body) + 3] = b /\ frame[Len(body) + 4] = t
  BY <1>1, <1>9, <1>11, <1>12
<1>14. \A k \in 1 .. Len(body) : frame[k + 1] = body[k]
  <2>1. ASSUME NEW k \in 1 .. Len(body) PROVE k + 1 \in 1 .. Len(front)
    BY <1>1, <1>11
  <2> QED
    BY <1>11, <1>13, <2>1
<1> QED
  BY <1>1, <1>3, <1>4, <1>7, <1>13, <1>14

LEMMA CheckV2 ==
  ASSUME NEW n \in Nat, NEW frame, Len(frame) = n + 4
  PROVE  Wire!CheckedV2(frame)
           <=> /\ frame[n + 4] = Wire!Bits(13)
               /\ Trailer("v2", frame[n + 2], frame[n + 3]) = Crc("v2", SubSeq(frame, 2, n + 1))
<1>1. Len(frame) - 1 = n + 3 /\ Len(frame) - 2 = n + 2 /\ Len(frame) - 3 = n + 1
  OBVIOUS
<1> QED
  BY <1>1 DEF Wire!CheckedV2, Trailer, Crc, Lifted

LEMMA V2Taken ==
  ASSUME NEW body \in Seq(Byte)
  PROVE  Wire!CheckedV2(FramedV2(body))
<1> DEFINE n == Len(body)
<1>1. PICK frame : frame = FramedV2(body)
  OBVIOUS
<1>2. /\ n \in Nat /\ Len(frame) = n + 4 /\ Crc("v2", body) \in Register
      /\ \A k \in 1 .. n : frame[k + 1] = body[k]
      /\ frame[n + 2] = FirstByte("v2", Crc("v2", body))
      /\ frame[n + 3] = SecondByte("v2", Crc("v2", body))
      /\ frame[n + 4] = Wire!Bits(13)
  BY <1>1, FrameOfV2
<1>3. SubSeq(frame, 2, n + 1) = body
  <2> DEFINE part == SubSeq(frame, 2, n + 1)
  <2>1. Len(part) = n /\ part = [k \in 1 .. n |-> part[k]]
    BY <1>2
  <2>2. ASSUME NEW k \in 1 .. n PROVE part[k] = body[k]
    BY <1>2
  <2>3. body = [k \in 1 .. n |-> body[k]]
    OBVIOUS
  <2> HIDE DEF part, n
  <2> QED
    BY <2>1, <2>2, <2>3 DEF part
<1>4. Trailer("v2", frame[n + 2], frame[n + 3]) = Crc("v2", body)
  BY <1>2, CrcBytes
<1> QED
  BY <1>1, <1>2, <1>3, <1>4, CheckV2

LEMMA V2Noticed ==
  ASSUME NEW body \in Seq(Byte), NEW frame, frame = FramedV2(body),
         NEW bits, NEW place, Burst(bits, place),
         \A m \in bits : 8 <= m /\ m < 8 * Len(frame),
         NEW new, Len(new) = Len(frame),
         \A k \in 1 .. Len(frame) : new[k] = Wire!Xor(frame[k], Damage("v2", bits, k))
  PROVE  ~Wire!CheckedV2(new)
<1> DEFINE n == Len(body)
           part == SubSeq(new, 2, n + 1)
           Z == { m - 8 : m \in bits }
<1>1. /\ n \in Nat /\ Len(frame) = n + 4
      /\ \A k \in 1 .. n : body[k] \in Byte /\ frame[k + 1] = body[k]
      /\ frame[n + 2] = FirstByte("v2", Crc("v2", body))
      /\ frame[n + 3] = SecondByte("v2", Crc("v2", body))
      /\ frame[n + 4] = Wire!Bits(13)
  BY FrameOfV2
<1>2. Burst(Z, place - 8)
  <2>1. \A m \in bits : m \in Nat /\ m - 8 \in Nat /\ place \in Int /\ place - 8 <= m - 8
                        /\ m - 8 <= (place - 8) + 15
    BY BurstBits
  <2>2. bits # {} /\ place - 8 \in Int
    BY DEF Burst
  <2> QED
    BY <2>1, <2>2 DEF Burst
<1>3. ASSUME NEW k \in Nat PROVE Damage("v2", bits, k + 1) = Damage("v2", Z, k)
  <2>1. \A m \in bits : /\ m \in Nat /\ m - 8 \in Nat /\ Wire!BitOf("v2", m - 8) = Wire!BitOf("v2", m)
                        /\ (m - 8) \div 8 = (m \div 8) - 1
    <3>1. ASSUME NEW m \in bits PROVE m \in Nat /\ m - 8 \in Nat
      BY BurstBits
    <3>2. ASSUME NEW m \in bits PROVE (m - 8) % 8 = m % 8 /\ (m - 8) \div 8 = (m \div 8) - 1
      BY <3>1
    <3> QED
      BY <3>1, <3>2 DEF Wire!BitOf
  <2>2. \A m \in bits : (m - 8) \div 8 = k - 1 <=> m \div 8 = (k + 1) - 1
    BY <2>1
  <2>3. ASSUME NEW x \in Damage("v2", Z, k) PROVE x \in Damage("v2", bits, k + 1)
    <3>1. PICK m \in bits : x = Wire!BitOf("v2", m - 8) /\ (m - 8) \div 8 = k - 1
      BY DEF Damage
    <3> QED
      BY <2>1, <2>2, <3>1 DEF Damage
  <2>4. ASSUME NEW x \in Damage("v2", bits, k + 1) PROVE x \in Damage("v2", Z, k)
    <3>1. PICK m \in bits : x = Wire!BitOf("v2", m) /\ m \div 8 = (k + 1) - 1
      BY DEF Damage
    <3>2. m - 8 \in Z /\ (m - 8) \div 8 = k - 1 /\ x = Wire!BitOf("v2", m - 8)
      BY <2>1, <2>2, <3>1
    <3> HIDE DEF Z
    <3> QED
      BY <3>2 DEF Damage
  <2> QED
    BY <2>3, <2>4
<1> HIDE DEF Z
<1>4. CASE \E m \in bits : m \div 8 = n + 3
  <2>1. Damage("v2", bits, n + 4) # {}
    <3>1. (n + 4) - 1 = n + 3
      BY <1>1
    <3> QED
      BY <1>4, <3>1 DEF Damage
  <2>2. new[n + 4] = Wire!Xor(Wire!Bits(13), Damage("v2", bits, n + 4))
    BY <1>1
  <2>3. new[n + 4] # Wire!Bits(13)
    BY <2>1, <2>2 DEF Wire!Xor
  <2> QED
    BY <1>1, <2>3, CheckV2
<1>5. CASE ~\E m \in bits : m \div 8 = n + 3
  <2>1. \A m \in Z : m < 8 * n + 16
    <3>1. ASSUME NEW m \in bits PROVE m - 8 < 8 * n + 16
      <4>1. m \in Nat /\ m < 8 * (n + 4) /\ m \div 8 # n + 3
        BY <1>1, <1>5, BurstBits
      <4>2. ~(m >= 8 * (n + 3))
        BY <1>1, <4>1
      <4> QED
        BY <1>1, <4>1, <4>2
    <3> QED
      BY <3>1 DEF Z
  <2>2. Len(part) = n /\ \A k \in 1 .. n : part[k] = new[k + 1]
    BY <1>1
  <2>3. \A k \in 1 .. n : part[k] = Wire!Xor(body[k], Damage("v2", Z, k))
    <3>1. ASSUME NEW k \in 1 .. n PROVE new[k + 1] = Wire!Xor(body[k], Damage("v2", Z, k))
      <4>1. k + 1 \in 1 .. Len(frame) /\ k \in Nat
        BY <1>1
      <4>2. new[k + 1] = Wire!Xor(frame[k + 1], Damage("v2", bits, k + 1))
        BY <4>1
      <4> QED
        BY <1>1, <1>3, <4>1, <4>2
    <3> QED
      BY <2>2, <3>1
  <2>4. /\ new[n + 2] = Wire!Xor(FirstByte("v2", Crc("v2", body)), Damage("v2", Z, n + 1))
        /\ new[n + 3] = Wire!Xor(SecondByte("v2", Crc("v2", body)), Damage("v2", Z, n + 2))
    <3>1. /\ n + 2 \in 1 .. Len(frame) /\ n + 3 \in 1 .. Len(frame) /\ n + 1 \in Nat /\ n + 2 \in Nat
          /\ (n + 1) + 1 = n + 2 /\ (n + 2) + 1 = n + 3
      BY <1>1
    <3>2. /\ new[n + 2] = Wire!Xor(frame[n + 2], Damage("v2", bits, n + 2))
          /\ new[n + 3] = Wire!Xor(frame[n + 3], Damage("v2", bits, n + 3))
      BY <3>1
    <3>3. Damage("v2", bits, n + 2) = Damage("v2", Z, n + 1) /\ Damage("v2", bits, n + 3) = Damage("v2", Z, n + 2)
      BY <1>3, <3>1
    <3> QED
      BY <1>1, <3>2, <3>3
  <2> HIDE DEF part
  <2>5. Trailer("v2", new[n + 2], new[n + 3]) # Crc("v2", part)
    BY <1>1, <1>2, <2>1, <2>2, <2>3, <2>4, TrailerNoticed
  <2> QED
    BY <1>1, <2>5, CheckV2 DEF part
<1> QED
  BY <1>4, <1>5

-----------------------------------------------------------------------------
(* What a receiver makes of a frame. *)

\* A frame is one of two kinds.
LEMMA FrameKinds ==
  ASSUME NEW i \in Wire!Frames
  PROVE  \/ /\ i.protocol # "v2"
            /\ \E bytes \in Seq(Byte) : Wire!FrameOf(i) = Wire!SealV3(bytes)
         \/ /\ i.protocol = "v2"
            /\ \E body \in Seq(Byte) : Wire!FrameOf(i) = FramedV2(body)
<1>1. CASE i \in [protocol : {"v3"}, bytes : Wire!BytesUpTo(258)]
  <2>1. i.protocol = "v3" /\ i.bytes \in Seq(Byte)
    <3>1. i.protocol = "v3" /\ i.bytes \in Wire!BytesUpTo(258)
      BY <1>1
    <3> QED
      BY <3>1 DEF Wire!BytesUpTo, Byte
  <2>2. Wire!FrameOf(i) = Wire!SealV3(i.bytes)
    BY <2>1 DEF Wire!FrameOf
  <2> QED
    BY <2>1, <2>2
<1>2. CASE i \in [protocol : {"v3 request"}, device : 0 .. 255, function : {1, 4}, start : Wire!Words,
                  count : 0 .. 255]
  <2>1. i.protocol = "v3 request"
    BY <1>2
  <2>2. i.device \in 0 .. 255 /\ i.function \in {1, 4}
    BY <1>2
  <2>3. i.start \in Wire!Words /\ i.count \in 0 .. 255
    BY <1>2
  <2>4. Wire!FrameOf(i) = Wire!RequestV3(i.device, i.function, i.start, i.count)
    BY <2>1 DEF Wire!FrameOf
  <2>5. \E bytes \in Seq(Byte) : Wire!RequestV3(i.device, i.function, i.start, i.count) = Wire!SealV3(bytes)
    BY Zenon, <2>2, <2>3, RequestV3Sealed
  <2> QED
    BY <2>1, <2>4, <2>5
<1>3. CASE i \in [protocol : {"v2"}, function : 0 .. 255, payload : Wire!BytesUpTo(190)]
  <2>1. i.protocol = "v2" /\ i.function \in 0 .. 255 /\ i.payload \in Seq(Byte) /\ Len(i.payload) <= 190
    <3>1. i.protocol = "v2" /\ i.function \in 0 .. 255 /\ i.payload \in Wire!BytesUpTo(190)
      BY <1>3
    <3> QED
      BY <3>1 DEF Wire!BytesUpTo, Byte
  <2>2. Wire!FrameOf(i) = Wire!RequestV2(i.function, i.payload)
    BY <2>1 DEF Wire!FrameOf
  <2>3. \E body \in Seq(Byte) : Wire!RequestV2(i.function, i.payload) = FramedV2(body)
    BY <2>1, RequestV2Framed
  <2> QED
    BY <2>1, <2>2, <2>3
<1> QED
  BY Zenon, <1>1, <1>2, <1>3 DEF Wire!Frames

LEMMA FrameTaken ==
  ASSUME NEW i \in Wire!Frames
  PROVE  Wire!Checked(i.protocol, Wire!FrameOf(i)) = TRUE
<1>1. CASE i.protocol # "v2"
  <2>1. PICK bytes \in Seq(Byte) : Wire!FrameOf(i) = Wire!SealV3(bytes)
    BY <1>1, FrameKinds
  <2>2. Wire!CheckedV3(Wire!FrameOf(i))
    BY <2>1, V3Taken
  <2>3. Wire!Checked(i.protocol, Wire!FrameOf(i)) = Wire!CheckedV3(Wire!FrameOf(i))
    BY <1>1 DEF Wire!Checked
  <2> QED
    BY <2>2, <2>3 DEF Wire!CheckedV3
<1>2. CASE i.protocol = "v2"
  <2>1. PICK body \in Seq(Byte) : Wire!FrameOf(i) = FramedV2(body)
    BY <1>2, FrameKinds
  <2>2. Wire!CheckedV2(Wire!FrameOf(i))
    BY <2>1, V2Taken
  <2>3. Wire!Checked(i.protocol, Wire!FrameOf(i)) = Wire!CheckedV2(Wire!FrameOf(i))
    BY <1>2 DEF Wire!Checked
  <2> QED
    BY <2>2, <2>3 DEF Wire!CheckedV2
<1> QED
  BY <1>1, <1>2

\* What damage does to byte k. Requests and answers of a V3 BMS are damaged alike.
Hit(p, bits, k) == { Wire!BitOf(p, m) : m \in { x \in bits : x \div 8 = k - 1 } }

LEMMA DamagedAlike ==
  ASSUME NEW p, NEW q, p = "v2" <=> q = "v2", NEW bits, NEW k
  PROVE  Hit(p, bits, k) = Damage(q, bits, k)
<1> DEFINE M == { x \in bits : x \div 8 = k - 1 }
<1>1. \A m : Wire!BitOf(p, m) = Wire!BitOf(q, m)
  BY DEF Wire!BitOf
<1>2. Damage(q, bits, k) = { Wire!BitOf(q, m) : m \in M }
  BY DEF Damage
<1> HIDE DEF M
<1>3. { Wire!BitOf(p, m) : m \in M } = { Wire!BitOf(q, m) : m \in M }
  BY <1>1
<1> QED
  BY <1>2, <1>3 DEF M, Hit

LEMMA FrameNoticed ==
  ASSUME NEW i \in Wire!Frames, NEW frame, frame = Wire!FrameOf(i),
         NEW place \in Nat, NEW burst \in SUBSET (0 .. 15), burst # {},
         NEW bits, bits = { place + b : b \in burst },
         Wire!Covered(i.protocol, frame, bits)
  PROVE  Wire!Checked(i.protocol, Wire!Damaged(i.protocol, frame, bits)) = FALSE
<1> DEFINE new == Wire!Damaged(i.protocol, frame, bits)
<1>1. Burst(bits, place)
  <2>1. ASSUME NEW m \in bits PROVE m \in Nat /\ place <= m /\ m <= place + 15
    <3>1. PICK b \in burst : m = place + b
      OBVIOUS
    <3>2. b \in 0 .. 15
      OBVIOUS
    <3> QED
      BY <3>1, <3>2
  <2>2. bits # {}
    <3>1. PICK b : b \in burst
      OBVIOUS
    <3>2. place + b \in bits
      BY Zenon, <3>1
    <3> QED
      BY Zenon, <3>2
  <2>3. place \in Int
    OBVIOUS
  <2> QED
    BY Zenon, <2>1, <2>2, <2>3 DEF Burst
<1>2. \A m \in bits : m \in Nat /\ m < 8 * Len(frame)
  BY <1>1, BurstBits DEF Wire!Covered
<1>3. ASSUME Len(frame) \in Nat PROVE Len(new) = Len(frame)
  BY <1>3 DEF Wire!Damaged
<1>4. \A k \in 1 .. Len(frame) :
        new[k] = Wire!Xor(frame[k], Hit(i.protocol, bits, k))
  BY DEF Wire!Damaged, Hit
<1> HIDE DEF new
<1>5. CASE i.protocol # "v2"
  <2>1. PICK bytes \in Seq(Byte) : frame = Wire!SealV3(bytes)
    BY <1>5, FrameKinds
  <2>2. Len(frame) \in Nat
    BY <2>1, SealedV3
  <2>4. ASSUME NEW k \in 1 .. Len(frame) PROVE new[k] = Wire!Xor(frame[k], Damage("v3", bits, k))
    <3>1. Hit(i.protocol, bits, k) = Damage("v3", bits, k)
      <4>1. i.protocol = "v2" <=> "v3" = "v2"
        BY <1>5
      <4> QED
        BY <4>1, DamagedAlike
    <3> QED
      BY <1>4, <3>1
  <2>5. ~Wire!CheckedV3(new)
    BY <1>1, <1>2, <1>3, <2>1, <2>2, <2>4, V3Noticed
  <2>6. Wire!Checked(i.protocol, new) = Wire!CheckedV3(new)
    BY <1>5 DEF Wire!Checked
  <2> QED
    BY <2>5, <2>6 DEF Wire!CheckedV3, new
<1>6. CASE i.protocol = "v2"
  <2>1. PICK body \in Seq(Byte) : frame = FramedV2(body)
    BY <1>6, FrameKinds
  <2>2. Len(frame) \in Nat
    BY <2>1, FrameOfV2
  <2>3. ASSUME NEW k \in 1 .. Len(frame) PROVE new[k] = Wire!Xor(frame[k], Damage("v2", bits, k))
    <3>1. Hit(i.protocol, bits, k) = Damage("v2", bits, k)
      <4>1. i.protocol = "v2" <=> "v2" = "v2"
        BY <1>6
      <4> QED
        BY <4>1, DamagedAlike
    <3> QED
      BY <1>4, <3>1
  <2>4. \A m \in bits : 8 <= m
    <3>1. ASSUME NEW m \in bits PROVE (m \div 8) + 1 # 1 /\ m \in Nat
      BY <1>2, <1>6 DEF Wire!Covered
    <3>2. ASSUME NEW m \in bits PROVE 8 <= m
      <4>1. PICK k \in Nat : k = m /\ (k \div 8) + 1 # 1
        BY <3>1
      <4> QED
        BY <4>1
    <3> QED
      BY <3>2
  <2>5. ~Wire!CheckedV2(new)
    BY <1>1, <1>2, <1>3, <2>1, <2>2, <2>3, <2>4, V2Noticed
  <2>6. Wire!Checked(i.protocol, new) = Wire!CheckedV2(new)
    BY <1>6 DEF Wire!Checked
  <2> QED
    BY <2>5, <2>6 DEF Wire!CheckedV2, new
<1> QED
  BY <1>5, <1>6

\* The characters of a byte, and the byte they are read back as.
LEMMA HexDigit ==
  ASSUME NEW v \in 0 .. 15
  PROVE  /\ Wire!HexChar(v) \in 48 .. 70
         /\ \A signed \in BOOLEAN : Wire!HexValue(Wire!HexChar(v), signed) = v
BY DEF Wire!HexChar, Wire!HexValue

LEMMA HexByte ==
  ASSUME NEW b \in 0 .. 255, NEW signed \in BOOLEAN
  PROVE  /\ Wire!HexChar(b \div 16) \in 48 .. 70 /\ Wire!HexChar(b % 16) \in 48 .. 70
         /\ Wire!ascii_hex_to_byte(Wire!HexChar(b \div 16), Wire!HexChar(b % 16), signed) = b
<1>1. PICK h \in 0 .. 15, l \in 0 .. 15 : h = b \div 16 /\ l = b % 16 /\ 16 * h + l = b
  OBVIOUS
<1>2. /\ Wire!HexChar(h) \in 48 .. 70 /\ Wire!HexChar(l) \in 48 .. 70
      /\ Wire!HexValue(Wire!HexChar(h), signed) = h /\ Wire!HexValue(Wire!HexChar(l), signed) = l
  BY HexDigit
<1>3. (h * 16 + l) % 256 = b
  BY <1>1
<1> QED
  BY <1>1, <1>2, <1>3 DEF Wire!ascii_hex_to_byte

Octet == 0 .. 255
Digit == 48 .. 70

\* The characters of n bytes.
Spelled(chars, bytes, n) ==
  /\ chars = [k \in 1 .. 2 * n |-> chars[k]] /\ chars \in Seq(Digit) /\ Len(chars) = 2 * n
  /\ \A k \in 1 .. n : /\ chars[2 * k - 1] = Wire!HexChar(bytes[k] \div 16)
                       /\ chars[2 * k] = Wire!HexChar(bytes[k] % 16)

LEMMA HexChars ==
  ASSUME NEW n \in Nat, NEW bytes, Len(bytes) = n, \A k \in 1 .. n : bytes[k] \in Octet
  PROVE  Spelled(Wire!byte_to_ascii_hex(bytes), bytes, n)
<1>0. PICK chars : chars = Wire!byte_to_ascii_hex(bytes)
  OBVIOUS
<1> DEFINE char(k) == Wire!HexChar(IF k % 2 = 1 THEN bytes[(k + 1) \div 2] \div 16
                                   ELSE bytes[(k + 1) \div 2] % 16)
<1>1. chars = [k \in 1 .. 2 * n |-> char(k)]
  BY <1>0 DEF Wire!byte_to_ascii_hex
<1>2. ASSUME NEW k \in 1 .. 2 * n PROVE char(k) \in Digit
  <2>1. (k + 1) \div 2 \in 1 .. n
    OBVIOUS
  <2>2. PICK b \in 0 .. 255 : b = bytes[(k + 1) \div 2]
    BY <2>1 DEF Octet
  <2>3. Wire!HexChar(b \div 16) \in 48 .. 70 /\ Wire!HexChar(b % 16) \in 48 .. 70
    BY HexByte
  <2> QED
    BY <2>2, <2>3 DEF Digit
<1>3. ASSUME NEW k \in 1 .. n
      PROVE  /\ char(2 * k - 1) = Wire!HexChar(bytes[k] \div 16)
             /\ char(2 * k) = Wire!HexChar(bytes[k] % 16)
             /\ 2 * k - 1 \in 1 .. 2 * n /\ 2 * k \in 1 .. 2 * n
  <2>1. /\ ((2 * k - 1) + 1) \div 2 = k /\ (2 * k - 1) % 2 = 1
        /\ (2 * k + 1) \div 2 = k /\ (2 * k) % 2 = 0
    OBVIOUS
  <2> QED
    BY <2>1
<1> HIDE DEF char
<1>4. chars \in [1 .. 2 * n -> Digit] /\ Len(chars) = 2 * n
  BY <1>1, <1>2
<1>5. chars \in Seq(Digit)
  BY <1>4
<1>6. chars = [k \in 1 .. 2 * n |-> chars[k]]
  BY <1>4
<1> QED
  BY <1>0, <1>1, <1>3, <1>4, <1>5, <1>6 DEF Spelled

\* The bytes of the frame that are summed.
SentBytes(version, address, function, value) ==
  << version, address, 70, function, 224, 2, value >>

LEMMA LengthField == Wire!lchksum(2) = 57346
BY DEF Wire!lchksum, Wire!Wrapped

\* A frame of the bus: its data and the checksum of it, in characters.
Framed(frame, chars, crc) ==
  /\ Len(chars) = 14 /\ chars = [k \in 1 .. 14 |-> chars[k]] /\ \A k \in 1 .. 14 : chars[k] \in Int
  /\ crc \in Wire!Words
  /\ Len(frame) = 20 /\ frame \in Seq(Int) /\ \A k \in 1 .. 14 : frame[k + 1] = chars[k]
  /\ frame[16] = Wire!HexChar((crc \div 256) \div 16) /\ frame[17] = Wire!HexChar((crc \div 256) % 16)
  /\ frame[18] = Wire!HexChar((crc % 256) \div 16) /\ frame[19] = Wire!HexChar((crc % 256) % 16)

LEMMA ChecksumType ==
  ASSUME NEW chars, Len(chars) \in Nat, \A k \in 1 .. Len(chars) : chars[k] \in Int
  PROVE  Wire!Sum(chars) \in Wire!Words /\ Wire!chksum(chars) \in Wire!Words
<1>1. Wire!Sum(chars) \in Wire!Words
  <2>1. PICK f \in [0 .. Len(chars) -> Wire!Words] : Wire!Sum(chars) = f[Len(chars)]
    BY SumSteps
  <2> QED
    BY <2>1
<1>2. 65535 - Wire!Sum(chars) + 1 \in Int
  BY <1>1 DEF Wire!Words
<1> QED
  BY <1>1, <1>2, WrappedType DEF Wire!chksum

\* One or two elements in front of a sequence or behind it, of a given length.
LEMMA Prefixed ==
  ASSUME NEW S, NEW s \in S, NEW b \in Seq(S), NEW n \in Nat, Len(b) = n, NEW c, c = << s >> \o b
  PROVE  c \in Seq(S) /\ Len(c) = n + 1 /\ \A k \in 1 .. n : c[k + 1] = b[k]
<1>1. << s >> \in Seq(S) /\ Len(<< s >>) = 1
  OBVIOUS
<1> QED
  BY <1>1

LEMMA Suffixed ==
  ASSUME NEW S, NEW a \in Seq(S), NEW n \in Nat, Len(a) = n, NEW t \in S, NEW c, c = a \o << t >>
  PROVE  c \in Seq(S) /\ Len(c) = n + 1 /\ \A k \in 1 .. n : c[k] = a[k]
<1>1. << t >> \in Seq(S) /\ Len(<< t >>) = 1
  OBVIOUS
<1> QED
  BY <1>1

Extended(c, S, a, n, t, u) ==
  /\ c \in Seq(S) /\ Len(c) = n + 2 /\ \A k \in 1 .. n : c[k] = a[k]
  /\ c[n + 1] = t /\ c[n + 2] = u

LEMMA SuffixedTwice ==
  ASSUME NEW S, NEW a \in Seq(S), NEW n \in Nat, Len(a) = n, NEW t \in S, NEW u \in S
  PROVE  Extended(a \o << t, u >>, S, a, n, t, u)
<1>0. PICK c : c = a \o << t, u >>
  OBVIOUS
<1>1. << t, u >> \in Seq(S) /\ Len(<< t, u >>) = 2
  OBVIOUS
<1>2. c \in Seq(S) /\ Len(c) = n + 2 /\ \A k \in 1 .. n : c[k] = a[k]
  BY <1>0, <1>1
<1>3. c[n + 1] = t /\ c[n + 2] = u
  <2>1. n + 1 \in 1 .. n + 2 /\ ~(n + 1 <= n) /\ (n + 1) - n = 1
    OBVIOUS
  <2>2. n + 2 \in 1 .. n + 2 /\ ~(n + 2 <= n) /\ (n + 2) - n = 2
    OBVIOUS
  <2> QED
    BY <1>0, <1>1, <2>1, <2>2
<1> QED
  BY <1>0, <1>2, <1>3 DEF Extended

LEMMA Members ==
  ASSUME NEW S, NEW a \in Seq(S), NEW n \in Nat, Len(a) = n
  PROVE  \A k \in 1 .. n : a[k] \in S
OBVIOUS
CrcParted(crc, h, l) == h = crc \div 256 /\ l = crc % 256 /\ h * 256 + l = crc

LEMMA CrcParts ==
  ASSUME NEW crc \in Wire!Words
  PROVE  \E h \in Octet, l \in Octet : CrcParted(crc, h, l)
<1>1. crc \in Nat /\ crc < 65536
  BY DEF Wire!Words
<1>2. crc \div 256 \in Nat /\ crc \div 256 < 256
  BY <1>1
<1>3. crc % 256 \in Nat /\ crc % 256 < 256
  BY <1>1
<1>4. PICK h \in Nat, l \in Nat : h = crc \div 256 /\ l = crc % 256
  BY <1>2, <1>3
<1>5. CrcParted(crc, h, l)
  BY <1>1, <1>4 DEF CrcParted
<1>6. h \in Octet /\ l \in Octet
  BY <1>1, <1>2, <1>3, <1>4 DEF Octet
<1> QED
  BY Zenon, <1>5, <1>6

LEMMA CharacterNumbers == \A s \in Seq(Digit) : s \in Seq(Int)
<1>1. ASSUME NEW s \in Seq(Digit) PROVE s \in Seq(Int)
  <2>1. ASSUME NEW k \in 1 .. Len(s) PROVE s[k] \in Int
    <3>1. s[k] \in Digit
      OBVIOUS
    <3> QED
      BY <3>1 DEF Digit
  <2>2. s = [k \in 1 .. Len(s) |-> s[k]] /\ Len(s) \in Nat
    OBVIOUS
  <2> QED
    BY <2>1, <2>2
<1> QED
  BY <1>1

LEMMA SevenElements ==
  ASSUME NEW S, NEW a \in S, NEW b \in S, NEW c \in S, NEW d \in S, NEW e \in S, NEW f \in S,
         NEW g \in S
  PROVE  /\ << a, b, c, d, e, f, g >> \in Seq(S)
         /\ Len(<< a, b, c, d, e, f, g >>) = 7
OBVIOUS

LEMMA SentData ==
  ASSUME NEW version \in Octet, NEW address \in Octet, NEW function \in Octet, NEW value \in Octet
  PROVE  /\ SentBytes(version, address, function, value) \in Seq(Octet)
         /\ Len(SentBytes(version, address, function, value)) = 7
<1>1. 70 \in Octet /\ 224 \in Octet /\ 2 \in Octet
  BY DEF Octet
<1>2. PICK a, b, c \in Octet : a = 70 /\ b = 224 /\ c = 2
  BY Zenon, <1>1
<1>3. SentBytes(version, address, function, value) = << version, address, a, function, b, c, value >>
  BY <1>2 DEF SentBytes
<1>4. /\ << version, address, a, function, b, c, value >> \in Seq(Octet)
      /\ Len(<< version, address, a, function, b, c, value >>) = 7
  BY Zenon, SevenElements
<1> QED
  BY Zenon, <1>3, <1>4

\* Data with their checksum, in characters, between the markers.
Enclosed(data) ==
  << Wire!Start >>
    \o Wire!byte_to_ascii_hex(data \o << Wire!chksum(Wire!byte_to_ascii_hex(data)) \div 256,
                                        Wire!chksum(Wire!byte_to_ascii_hex(data)) % 256 >>)
    \o << Wire!End >>

LEMMA SendEncloses ==
  ASSUME NEW version, NEW address, NEW function, NEW value
  PROVE  Wire!Send(version, address, function, value)
           = Enclosed(<< version, address, 70, function, Wire!lchksum(2) \div 256,
                         Wire!lchksum(2) % 256, value >>)
BY DEF Wire!Send, Enclosed

LEMMA SentFramed ==
  ASSUME NEW version \in Octet, NEW address \in Octet, NEW function \in Octet, NEW value \in Octet,
         NEW chars, chars = Wire!byte_to_ascii_hex(SentBytes(version, address, function, value)),
         NEW frame, frame = Wire!Send(version, address, function, value)
  PROVE  Framed(frame, chars, Wire!chksum(chars))
<1>1. PICK data : data = SentBytes(version, address, function, value)
  OBVIOUS
<1>s. PICK seven, nine \in Nat : seven = 7 /\ nine = 9
  OBVIOUS
<1>2. /\ data \in Seq(Octet) /\ Len(data) = seven /\ \A k \in 1 .. seven : data[k] \in Octet
  <2>1. data \in Seq(Octet) /\ Len(data) = seven
    BY Zenon, <1>1, <1>s, SentData
  <2> QED
    BY <2>1
<1>3. /\ chars = [k \in 1 .. 14 |-> chars[k]] /\ chars \in Seq(Digit) /\ Len(chars) = 14
      /\ \A k \in 1 .. 7 : /\ chars[2 * k - 1] = Wire!HexChar(data[k] \div 16)
                           /\ chars[2 * k] = Wire!HexChar(data[k] % 16)
  <2>1. /\ chars = [k \in 1 .. 2 * seven |-> chars[k]] /\ chars \in Seq(Digit) /\ Len(chars) = 2 * seven
        /\ \A k \in 1 .. seven : /\ chars[2 * k - 1] = Wire!HexChar(data[k] \div 16)
                                 /\ chars[2 * k] = Wire!HexChar(data[k] % 16)
    <3>1. Spelled(chars, data, seven)
      BY Zenon, <1>1, <1>2, HexChars
    <3> QED
      BY Zenon, <3>1 DEF Spelled
  <2>2. 2 * seven = 14
    BY <1>s
  <2> QED
    BY Zenon, <1>s, <2>1, <2>2
<1>4. PICK crc \in Wire!Words : crc = Wire!chksum(chars)
  <2>1. PICK n \in Nat : n = Len(chars)
    BY <1>3
  <2>2. \A k \in 1 .. n : chars[k] \in Int
    <3>1. chars \in Seq(Int)
      BY Zenon, <1>3, CharacterNumbers
    <3> QED
      BY Zenon, <2>1, <3>1, Members
  <2> QED
    BY <2>1, <2>2, ChecksumType
<1>5. PICK h \in Octet, l \in Octet : h = crc \div 256 /\ l = crc % 256
  BY Zenon, CrcParts DEF CrcParted
<1>6. PICK full : full = data \o << h, l >>
  OBVIOUS
<1>7. /\ Len(full) = nine /\ full \in Seq(Octet) /\ \A k \in 1 .. nine : full[k] \in Octet
      /\ \A k \in 1 .. 7 : full[k] = data[k]
      /\ full[8] = h /\ full[9] = l
  <2>1. /\ full \in Seq(Octet) /\ Len(full) = seven + 2 /\ \A k \in 1 .. seven : full[k] = data[k]
        /\ full[seven + 1] = h /\ full[seven + 2] = l
    <3>1. Extended(full, Octet, data, seven, h, l)
      BY Zenon, <1>2, <1>6, SuffixedTwice
    <3> QED
      BY Zenon, <3>1 DEF Extended
  <2>2. seven + 1 = 8 /\ seven + 2 = 9
    BY <1>s
  <2>3. \A k \in 1 .. nine : full[k] \in Octet
    <3>1. Len(full) = nine
      BY <1>s, <2>1
    <3> QED
      BY Zenon, <2>1, <3>1, Members
  <2> QED
    BY Zenon, <1>s, <2>1, <2>2, <2>3
<1>8. PICK all : all = Wire!byte_to_ascii_hex(full)
  OBVIOUS
<1>e. PICK eighteen \in Nat : eighteen = 18
  OBVIOUS
<1>9. /\ all \in Seq(Digit) /\ Len(all) = eighteen
      /\ \A k \in 1 .. 9 : /\ all[2 * k - 1] = Wire!HexChar(full[k] \div 16)
                           /\ all[2 * k] = Wire!HexChar(full[k] % 16)
  <2>1. /\ all \in Seq(Digit) /\ Len(all) = 2 * nine
        /\ \A k \in 1 .. nine : /\ all[2 * k - 1] = Wire!HexChar(full[k] \div 16)
                                /\ all[2 * k] = Wire!HexChar(full[k] % 16)
    <3>1. Spelled(all, full, nine)
      BY Zenon, <1>7, <1>8, HexChars
    <3> QED
      BY Zenon, <3>1 DEF Spelled
  <2>2. 2 * nine = eighteen
    BY <1>s, <1>e
  <2> QED
    BY Zenon, <1>s, <2>1, <2>2
<1>10. frame = << 126 >> \o all \o << 13 >>
  <2>1. data = << version, address, 70, function, Wire!lchksum(2) \div 256, Wire!lchksum(2) % 256, value >>
    <3>1. Wire!lchksum(2) \div 256 = 224 /\ Wire!lchksum(2) % 256 = 2
      BY LengthField
    <3> QED
      BY Zenon, <1>1, <3>1 DEF SentBytes
  <2>2. Wire!chksum(Wire!byte_to_ascii_hex(data)) = crc
    BY Zenon, <1>1, <1>4
  <2>3. frame = << Wire!Start >> \o Wire!byte_to_ascii_hex(data \o << crc \div 256, crc % 256 >>)
                  \o << Wire!End >>
    <3>1. frame = Enclosed(data)
      BY Zenon, <2>1, SendEncloses
    <3> QED
      BY Zenon, <2>2, <3>1 DEF Enclosed
  <2> QED
    BY <1>5, <1>6, <1>8, <2>3 DEF Wire!Start, Wire!End
<1>11. all \in Seq(Int) /\ Len(all) = eighteen
  BY <1>9, CharacterNumbers
<1>12. /\ Len(frame) = 20 /\ frame \in Seq(Int) /\ \A k \in 1 .. 18 : frame[k + 1] = all[k]
  <2>1. PICK s \in Int, t \in Int : s = 126 /\ t = 13
    OBVIOUS
  <2>2. PICK front : front = << s >> \o all
    OBVIOUS
  <2>3. /\ front \in Seq(Int) /\ Len(front) = eighteen + 1
        /\ \A k \in 1 .. eighteen : front[k + 1] = all[k]
    BY <1>11, <2>2, Prefixed
  <2>4. frame = front \o << t >>
    BY Zenon, <1>10, <2>1, <2>2
  <2>5. PICK nineteen \in Nat : nineteen = eighteen + 1
    OBVIOUS
  <2>6. /\ frame \in Seq(Int) /\ Len(frame) = nineteen + 1
        /\ \A k \in 1 .. nineteen : frame[k] = front[k]
    BY <2>3, <2>4, <2>5, Suffixed
  <2>7. ASSUME NEW k \in 1 .. 18 PROVE frame[k + 1] = all[k]
    <3>1. k + 1 \in 1 .. nineteen /\ k \in 1 .. eighteen
      BY <1>e, <2>5
    <3> QED
      BY Zenon, <2>3, <2>6, <3>1
  <2>8. nineteen + 1 = 20
    BY <1>e, <2>5
  <2> QED
    BY Zenon, <2>6, <2>7, <2>8
<1>13. ASSUME NEW k \in 1 .. 14 PROVE all[k] = chars[k]
  <2>1. CASE k % 2 = 0
    <3>1. PICK j \in 1 .. 7 : k = 2 * j
      BY <2>1
    <3>0. j \in 1 .. 9
      OBVIOUS
    <3>2. /\ chars[k] = Wire!HexChar(data[j] % 16) /\ all[k] = Wire!HexChar(full[j] % 16)
          /\ full[j] = data[j]
      BY <1>3, <1>7, <1>9, <3>0, <3>1
    <3> QED
      BY Zenon, <3>2
  <2>2. CASE k % 2 = 1
    <3>1. PICK j \in 1 .. 7 : k = 2 * j - 1
      BY <2>2
    <3>0. j \in 1 .. 9
      OBVIOUS
    <3>2. /\ chars[k] = Wire!HexChar(data[j] \div 16) /\ all[k] = Wire!HexChar(full[j] \div 16)
          /\ full[j] = data[j]
      BY <1>3, <1>7, <1>9, <3>0, <3>1
    <3> QED
      BY Zenon, <3>2
  <2> QED
    BY <2>1, <2>2
<1>14. /\ all[15] = Wire!HexChar(h \div 16) /\ all[16] = Wire!HexChar(h % 16)
       /\ all[17] = Wire!HexChar(l \div 16) /\ all[18] = Wire!HexChar(l % 16)
  <2>1. /\ 8 \in 1 .. 9 /\ 9 \in 1 .. 9 /\ 2 * 8 - 1 = 15 /\ 2 * 8 = 16
        /\ 2 * 9 - 1 = 17 /\ 2 * 9 = 18
    OBVIOUS
  <2> QED
    BY <1>7, <1>9, <2>1
<1>15. /\ frame[16] = all[15] /\ frame[17] = all[16] /\ frame[18] = all[17] /\ frame[19] = all[18]
  <2>1. /\ 15 \in 1 .. 18 /\ 16 \in 1 .. 18 /\ 17 \in 1 .. 18 /\ 18 \in 1 .. 18
        /\ 15 + 1 = 16 /\ 16 + 1 = 17 /\ 17 + 1 = 18 /\ 18 + 1 = 19
    OBVIOUS
  <2> QED
    BY <1>12, <2>1
<1>16. ASSUME NEW k \in 1 .. 14 PROVE frame[k + 1] = chars[k]
  <2>1. k \in 1 .. 18
    OBVIOUS
  <2> QED
    BY <1>12, <1>13, <2>1
<1>17. \A k \in 1 .. 14 : chars[k] \in Int
  <2>1. PICK n \in Nat : n = 14
    OBVIOUS
  <2>2. chars \in Seq(Int) /\ Len(chars) = n
    BY Zenon, <1>3, <2>1, CharacterNumbers
  <2> QED
    BY Zenon, <2>1, <2>2, Members
<1>18. /\ frame[16] = Wire!HexChar((crc \div 256) \div 16)
       /\ frame[17] = Wire!HexChar((crc \div 256) % 16)
       /\ frame[18] = Wire!HexChar((crc % 256) \div 16)
       /\ frame[19] = Wire!HexChar((crc % 256) % 16)
  BY Zenon, <1>5, <1>14, <1>15
<1>19. Framed(frame, chars, crc)
  BY Zenon, <1>3, <1>12, <1>16, <1>17, <1>18 DEF Framed
<1> QED
  BY Zenon, <1>4, <1>19

\* What is received: the checksum and the data of twenty characters.
LEMMA DataReceived ==
  ASSUME NEW frame, frame \in Seq(Int), NEW n \in Nat, Len(frame) = n + 6
  PROVE  /\ Wire!DataChars(frame) \in Seq(Int) /\ Len(Wire!DataChars(frame)) = n
         /\ Wire!DataChars(frame) = [k \in 1 .. n |-> frame[k + 1]]
<1>1. PICK part : part = SubSeq(frame, 2, n + 1)
  OBVIOUS
<1>2. Wire!DataChars(frame) = part
  <2>1. Len(frame) - 5 = n + 1
    OBVIOUS
  <2> QED
    BY <1>1, <2>1 DEF Wire!DataChars
<1>3. Len(part) = n /\ part \in Seq(Int)
  BY <1>1
<1>4. part = [k \in 1 .. n |-> part[k]]
  BY <1>3
<1>5. ASSUME NEW k \in 1 .. n PROVE part[k] = frame[k + 1]
  BY <1>1
<1> QED
  BY <1>2, <1>3, <1>4, <1>5

LEMMA CrcReceived ==
  ASSUME NEW frame, Len(frame) = 20, NEW signed
  PROVE  Wire!RemoteCrc(frame, signed)
           = Wire!ascii_hex_to_byte(frame[16], frame[17], signed) * 256
               + Wire!ascii_hex_to_byte(frame[18], frame[19], signed)
BY DEF Wire!RemoteCrc

SameCrc(new, frame) == Len(new) = 20 /\ \A k \in 16 .. 19 : new[k] = frame[k]

LEMMA CrcOfFrame ==
  ASSUME NEW frame, NEW chars, NEW crc, Framed(frame, chars, crc), NEW signed \in BOOLEAN,
         NEW new, SameCrc(new, frame)
  PROVE  Wire!RemoteCrc(new, signed) = crc
<1>1. PICK h \in 0 .. 255, l \in 0 .. 255 : h = crc \div 256 /\ l = crc % 256 /\ h * 256 + l = crc
  <2>1. crc \in Wire!Words
    BY Zenon DEF Framed
  <2> QED
    BY Zenon, <2>1, CrcParts DEF CrcParted, Octet
<1>2. /\ Wire!ascii_hex_to_byte(Wire!HexChar(h \div 16), Wire!HexChar(h % 16), signed) = h
      /\ Wire!ascii_hex_to_byte(Wire!HexChar(l \div 16), Wire!HexChar(l % 16), signed) = l
  BY HexByte
<1>3. /\ new[16] = frame[16] /\ new[17] = frame[17] /\ new[18] = frame[18] /\ new[19] = frame[19]
  BY DEF SameCrc
<1>4. /\ frame[16] = Wire!HexChar(h \div 16) /\ frame[17] = Wire!HexChar(h % 16)
      /\ frame[18] = Wire!HexChar(l \div 16) /\ frame[19] = Wire!HexChar(l % 16)
  BY <1>1 DEF Framed
<1>5. /\ Wire!ascii_hex_to_byte(new[16], new[17], signed) = h
      /\ Wire!ascii_hex_to_byte(new[18], new[19], signed) = l
  BY Zenon, <1>2, <1>3, <1>4
<1> QED
  BY <1>1, <1>5, CrcReceived DEF SameCrc

LEMMA WrappedSum ==
  ASSUME NEW a \in Int, NEW b \in Int
  PROVE  Wire!Wrapped(Wire!Wrapped(a) + b) = Wire!Wrapped(a + b)
BY DEF Wire!Wrapped

LEMMA WrappedApart ==
  ASSUME NEW w \in Int, NEW d \in Int, d # 0, -65536 < d, d < 65536
  PROVE  Wire!Wrapped(w + d) # Wire!Wrapped(w)
BY DEF Wire!Wrapped

LEMMA WrappedWord == ASSUME NEW w \in Wire!Words PROVE w \in Int /\ Wire!Wrapped(w) = w
BY DEF Wire!Wrapped, Wire!Words

LEMMA ComplementsApart ==
  ASSUME NEW v \in Wire!Words, NEW w \in Wire!Words, v # w
  PROVE  Wire!Wrapped(65535 - v + 1) # Wire!Wrapped(65535 - w + 1)
BY DEF Wire!Wrapped, Wire!Words

\* The sums of the first characters, up to all n of them.
Summed(f, chars, n) ==
  /\ f \in [0 .. n -> Wire!Words] /\ f[0] = 0 /\ Wire!Sum(chars) = f[n]
  /\ \A k \in 1 .. n : f[k] = Wire!Wrapped(f[k - 1] + chars[k])

LEMMA SummedUp ==
  ASSUME NEW n \in Nat, NEW chars, Len(chars) = n, \A k \in 1 .. n : chars[k] \in Int
  PROVE  \E f : Summed(f, chars, n)
<1>1. Len(chars) \in Nat /\ \A k \in 1 .. Len(chars) : chars[k] \in Int
  OBVIOUS
<1>2. PICK f \in [0 .. Len(chars) -> Wire!Words] :
        /\ f[0] = 0 /\ Wire!Sum(chars) = f[Len(chars)]
        /\ \A k \in 1 .. Len(chars) : f[k] = Wire!Wrapped(f[k - 1] + chars[k])
  BY <1>1, SumSteps
<1>3. Summed(f, chars, Len(chars))
  BY <1>2 DEF Summed
<1> QED
  BY <1>3

\* How far two different characters are apart.
Apart(d) == d \in Int /\ d # 0 /\ -256 < d /\ d < 256
OtherAt(new, chars, n, j, d) == \A k \in 1 .. n : new[k] = IF k = j THEN chars[k] + d ELSE chars[k]

\* One character that is another one changes the sum.
LEMMA SumsDiffer ==
  ASSUME NEW n \in Nat, NEW chars, Len(chars) = n, \A k \in 1 .. n : chars[k] \in Int,
         NEW j \in 1 .. n, NEW d, Apart(d),
         NEW new, Len(new) = n, OtherAt(new, chars, n, j, d)
  PROVE  Wire!chksum(new) # Wire!chksum(chars)
<1>c. d \in Int /\ d # 0 /\ \A k \in 1 .. n : new[k] = IF k = j THEN chars[k] + d ELSE chars[k]
  BY DEF Apart, OtherAt
<1> DEFINE extra(k) == IF k >= j THEN d ELSE 0
<1>1. \A k \in 1 .. n : new[k] \in Int
  BY <1>c
<1>a. PICK f : Summed(f, chars, n)
  BY Zenon, SummedUp
<1>b. PICK g : Summed(g, new, n)
  BY Zenon, <1>1, SummedUp
<1>2. /\ f \in [0 .. n -> Wire!Words] /\ f[0] = 0 /\ Wire!Sum(chars) = f[n]
      /\ \A k \in 1 .. n : f[k] = Wire!Wrapped(f[k - 1] + chars[k])
  BY Zenon, <1>a DEF Summed
<1>3. /\ g \in [0 .. n -> Wire!Words] /\ g[0] = 0 /\ Wire!Sum(new) = g[n]
      /\ \A k \in 1 .. n : g[k] = Wire!Wrapped(g[k - 1] + new[k])
  BY Zenon, <1>b DEF Summed
<1> DEFINE Q == { k \in 0 .. n : g[k] = Wire!Wrapped(f[k] + extra(k)) }
<1>4. 0 \in Q
  <2>1. extra(0) = 0 /\ 0 \in 0 .. n
    OBVIOUS
  <2>2. Wire!Wrapped(0 + 0) = 0
    BY DEF Wire!Wrapped
  <2> QED
    BY <1>2, <1>3, <2>1, <2>2
<1>5. ASSUME NEW k \in 0 .. n, k < n, k \in Q PROVE k + 1 \in Q
  <2>1. k + 1 \in 1 .. n /\ k + 1 \in 0 .. n /\ (k + 1) - 1 = k
    BY <1>5
  <2>2. PICK a \in Int, b \in Int, c \in Int :
          /\ a = f[k] /\ b = extra(k) /\ c = chars[k + 1] /\ g[k] = Wire!Wrapped(a + b)
    <3>1. f[k] \in Int /\ extra(k) \in Int /\ chars[k + 1] \in Int
      BY <1>c, <1>2, <2>1, WrappedWord
    <3> QED
      BY <1>5, <3>1
  <2>3. PICK e \in Int : new[k + 1] = c + e /\ extra(k + 1) = b + e
    <3>1. CASE k + 1 = j
      <4>1. new[k + 1] = c + d /\ b = 0 /\ extra(k + 1) = 0 + d
        BY <1>c, <2>1, <2>2, <3>1
      <4> QED
        BY <1>c, <4>1
    <3>2. CASE k + 1 # j
      <4>1. new[k + 1] = c + 0 /\ extra(k + 1) = b + 0
        BY <1>c, <2>1, <2>2, <3>2
      <4> QED
        BY <4>1
    <3> QED
      BY <3>1, <3>2
  <2> HIDE DEF extra
  <2>4. g[k + 1] = Wire!Wrapped(Wire!Wrapped(a + b) + (c + e))
    BY <1>3, <2>1, <2>2, <2>3
  <2>5. f[k + 1] = Wire!Wrapped(a + c)
    BY <1>2, <2>1, <2>2
  <2>6. Wire!Wrapped(Wire!Wrapped(a + b) + (c + e)) = Wire!Wrapped((a + b) + (c + e))
    BY WrappedSum
  <2>7. Wire!Wrapped(Wire!Wrapped(a + c) + (b + e)) = Wire!Wrapped((a + c) + (b + e))
    BY WrappedSum
  <2>8. (a + b) + (c + e) = (a + c) + (b + e)
    OBVIOUS
  <2>9. g[k + 1] = Wire!Wrapped(f[k + 1] + extra(k + 1))
    <3>1. g[k + 1] = Wire!Wrapped(Wire!Wrapped(a + c) + (b + e))
      BY <2>4, <2>6, <2>7
    <3> QED
      BY <2>3, <2>5, <3>1
  <2> QED
    BY <2>1, <2>9
<1>6. n \in Q
  <2>1. PICK R : R = Q
    OBVIOUS
  <2> HIDE DEF Q
  <2>0. 0 \in R /\ \A k \in 0 .. n : k < n /\ k \in R => k + 1 \in R
    BY Zenon, <1>4, <1>5, <2>1
  <2>3. 0 .. n \subseteq R
    BY Zenon, <2>0, Onward
  <2>2. n \in 0 .. n
    OBVIOUS
  <2> QED
    BY Zenon, <2>1, <2>2, <2>3
<1>7. Wire!Sum(new) # Wire!Sum(chars)
  <2>1. PICK w \in Wire!Words : w = f[n]
    <3>1. n \in 0 .. n
      OBVIOUS
    <3> QED
      BY <1>2, <3>1
  <2>2. extra(n) = d
    OBVIOUS
  <2>3. Wire!Sum(chars) = w /\ Wire!Sum(new) = Wire!Wrapped(w + d)
    BY <1>2, <1>3, <1>6, <2>1, <2>2
  <2>4. w \in Int /\ Wire!Wrapped(w) = w
    BY WrappedWord
  <2> QED
    BY <2>3, <2>4, WrappedApart DEF Apart
<1>8. Wire!Sum(new) \in Wire!Words /\ Wire!Sum(chars) \in Wire!Words
  BY <1>2, <1>3
<1> QED
  BY <1>7, <1>8, ComplementsApart DEF Wire!chksum

\* The data of a frame whose characters are those that were sent.
LEMMA DataUnchanged ==
  ASSUME NEW frame, NEW chars, NEW crc, Framed(frame, chars, crc),
         NEW new \in Seq(Int), Len(new) = 20, \A k \in 2 .. 15 : new[k] = frame[k]
  PROVE  Wire!DataChars(new) = chars
<1>1. PICK n \in Nat : n = 14
  OBVIOUS
<1>2. Wire!DataChars(new) = [k \in 1 .. n |-> new[k + 1]]
  <2>1. Len(new) = n + 6
    BY <1>1
  <2> QED
    BY Zenon, <2>1, DataReceived
<1>3. ASSUME NEW k \in 1 .. 14 PROVE new[k + 1] = chars[k]
  <2>1. k + 1 \in 2 .. 15
    OBVIOUS
  <2> QED
    BY <2>1 DEF Framed
<1>4. chars = [k \in 1 .. 14 |-> chars[k]]
  BY DEF Framed
<1>5. [k \in 1 .. 14 |-> new[k + 1]] = [k \in 1 .. 14 |-> chars[k]]
  BY <1>3
<1> QED
  BY Zenon, <1>1, <1>2, <1>4, <1>5

LEMMA SequenceOf ==
  ASSUME NEW S, NEW a \in Seq(S), NEW n \in Nat, Len(a) = n
  PROVE  a = [k \in 1 .. n |-> a[k]]
OBVIOUS

OfDigits(chars) == \A k \in 1 .. 14 : chars[k] \in Digit
SameData(new, frame) == new \in Seq(Int) /\ Len(new) = 20 /\ \A k \in 2 .. 15 : new[k] = frame[k]

ReadAs(data, new, signed, chars) ==
  Wire!Parsed(new, signed) = IF Wire!chksum(chars) # Wire!RemoteCrc(new, signed) THEN << >> ELSE data

\* A frame is read back as the bytes it spells, when its checksum is that of its data.
LEMMA FrameRead ==
  ASSUME NEW frame, NEW chars, Framed(frame, chars, Wire!chksum(chars)),
         NEW data \in Seq(Octet), Len(data) = 7, Spelled(chars, data, 7),
         NEW signed \in BOOLEAN,
         NEW new, SameData(new, frame)
  PROVE  ReadAs(data, new, signed, chars)
<1>1. Wire!DataChars(new) = chars
  BY DataUnchanged DEF SameData
<1>2. [k \in 1 .. 7 |-> Wire!ascii_hex_to_byte(chars[2 * k - 1], chars[2 * k], signed)] = data
  <2>1. ASSUME NEW k \in 1 .. 7
        PROVE  Wire!ascii_hex_to_byte(chars[2 * k - 1], chars[2 * k], signed) = data[k]
    <3>1. PICK seven \in Nat : seven = 7
      OBVIOUS
    <3>2. data[k] \in Octet
      BY Zenon, <3>1, Members
    <3>3. PICK b \in 0 .. 255 : b = data[k]
      BY <3>2 DEF Octet
    <3>4. Wire!ascii_hex_to_byte(Wire!HexChar(b \div 16), Wire!HexChar(b % 16), signed) = b
      BY HexByte
    <3> QED
      BY Zenon, <3>3, <3>4 DEF Spelled
  <2>2. data = [k \in 1 .. 7 |-> data[k]]
    BY SequenceOf
  <2> QED
    BY <2>1, <2>2
<1>3. Len(chars) \div 2 = 7
  BY DEF Framed
<1> QED
  BY Zenon, <1>1, <1>2, <1>3 DEF Wire!Parsed, ReadAs

\* A frame of n characters, one of which arrives as another one.
ArrivesOf(n, new, frame, place, c) ==
  /\ new \in Seq(Int) /\ Len(new) = n /\ new[place] = c
  /\ \A k \in 1 .. n : k # place => new[k] = frame[k]
ArrivesAs(new, frame, place, c) == ArrivesOf(20, new, frame, place, c)

LEMMA OneChanged ==
  ASSUME NEW n \in Nat, NEW frame \in Seq(Int), Len(frame) = n, NEW place \in 1 .. n, NEW c \in Int
  PROVE  ArrivesOf(n, [frame EXCEPT ![place] = c], frame, place, c)
<1>1. PICK new : new = [frame EXCEPT ![place] = c]
  OBVIOUS
<1>2. /\ new \in Seq(Int) /\ Len(new) = n /\ new[place] = c
      /\ \A k \in 1 .. n : k # place => new[k] = frame[k]
  BY <1>1
<1> QED
  BY <1>1, <1>2 DEF ArrivesOf

LEMMA CharacterChanged ==
  ASSUME NEW frame \in Seq(Int), Len(frame) = 20, NEW place \in 1 .. 20, NEW c \in Int
  PROVE  ArrivesAs([frame EXCEPT ![place] = c], frame, place, c)
<1>1. PICK n \in Nat : n = 20
  OBVIOUS
<1>2. ArrivesOf(n, [frame EXCEPT ![place] = c], frame, place, c)
  BY Zenon, <1>1, OneChanged
<1> QED
  BY Zenon, <1>1, <1>2 DEF ArrivesAs

\* Damaged data are dropped.
LEMMA DataDamaged ==
  ASSUME NEW frame, NEW chars, Framed(frame, chars, Wire!chksum(chars)),
         OfDigits(chars), NEW signed \in BOOLEAN,
         NEW place \in 2 .. 15, NEW c \in Octet, c # frame[place],
         NEW new, ArrivesAs(new, frame, place, c)
  PROVE  Wire!Parsed(new, signed) = << >>
<1>0. /\ Len(chars) = 14 /\ \A k \in 1 .. 14 : frame[k + 1] = chars[k]
      /\ new \in Seq(Int) /\ Len(new) = 20 /\ new[place] = c
      /\ \A k \in 1 .. 20 : k # place => new[k] = frame[k]
  BY Zenon DEF Framed, ArrivesAs, ArrivesOf
<1>1. PICK n \in Nat : n = 14
  OBVIOUS
<1>2. Len(new) = n + 6 /\ \A k \in 16 .. 19 : new[k] = frame[k]
  <2>1. n + 6 = 20
    BY <1>1
  <2>2. \A k \in 16 .. 19 : k \in 1 .. 20 /\ k # place
    OBVIOUS
  <2> QED
    BY Zenon, <1>0, <2>1, <2>2
<1>3. PICK data : data = Wire!DataChars(new)
  OBVIOUS
<1>4. Len(data) = n /\ data = [k \in 1 .. n |-> new[k + 1]]
  <2>1. /\ Len(Wire!DataChars(new)) = n
        /\ Wire!DataChars(new) = [k \in 1 .. n |-> new[k + 1]]
    BY Zenon, <1>0, <1>2, DataReceived
  <2> QED
    BY Zenon, <1>3, <2>1
<1>5. PICK j \in 1 .. n : j = place - 1
  BY <1>1
<1>6. PICK d : d = c - chars[j] /\ Apart(d)
  <2>1. chars[j] \in 48 .. 70
    BY <1>1 DEF OfDigits, Digit
  <2>2. frame[j + 1] = chars[j] /\ j + 1 = place
    <3>1. j + 1 = place
      BY <1>5
    <3> QED
      BY Zenon, <1>0, <1>1, <3>1
  <2> QED
    BY <2>1, <2>2 DEF Apart, Octet
<1>7. OtherAt(data, chars, n, j, d)
  <2>1. ASSUME NEW k \in 1 .. n PROVE data[k] = IF k = j THEN chars[k] + d ELSE chars[k]
    <3>1. data[k] = new[k + 1] /\ k + 1 \in 1 .. 20 /\ frame[k + 1] = chars[k]
      <4>1. k + 1 \in 1 .. 20 /\ k \in 1 .. 14
        BY <1>1
      <4>2. data[k] = new[k + 1]
        BY <1>4
      <4> QED
        BY Zenon, <1>0, <4>1, <4>2
    <3>2. chars[k] \in 48 .. 70
      BY <1>1 DEF OfDigits, Digit
    <3>3. CASE k = j
      <4>1. k + 1 = place
        BY <1>5, <3>3
      <4> QED
        <5>1. data[k] = c
          BY Zenon, <1>0, <3>1, <4>1
        <5> QED
          BY <1>6, <3>2, <3>3, <5>1 DEF Octet
    <3>4. CASE k # j
      <4>1. k + 1 # place
        BY <1>5, <3>4
      <4> QED
        BY <1>0, <3>1, <3>4, <4>1
    <3> QED
      BY <3>3, <3>4
  <2> QED
    BY Zenon, <2>1 DEF OtherAt
<1>8. Wire!chksum(data) # Wire!chksum(chars)
  <2>1. Len(chars) = n /\ \A k \in 1 .. n : chars[k] \in Int
    BY Zenon, <1>1 DEF Framed
  <2> QED
    BY Zenon, <1>1, <1>4, <1>6, <1>7, <2>1, SumsDiffer
<1>9. Wire!RemoteCrc(new, signed) = Wire!chksum(chars)
  <2>1. SameCrc(new, frame)
    BY Zenon, <1>0, <1>2 DEF SameCrc
  <2> QED
    BY Zenon, <2>1, CrcOfFrame
<1> QED
  BY Zenon, <1>3, <1>8, <1>9 DEF Wire!Parsed

-----------------------------------------------------------------------------
(* What is on the wire in every state. *)

SentFor(request) == Wire!Send(request.version, request.address, request.function, request.value)

RequestKnown ==
  /\ stage \in {"request", "sent", "damaged", "parsed", "damaged parsed"} => input \in RequestInputs
  /\ stage = "sent" => output = SentFor(input)
  /\ stage = "damaged" =>
       \E place \in 2 .. 19, c \in Octet :
         c # SentFor(input)[place] /\ ArrivesAs(output, SentFor(input), place, c)
  /\ RequestReadOrDropped

FrameKnown ==
  /\ stage \in {"frame", "frame sent", "frame damaged", "frame checked", "damaged frame checked"}
       => input \in FrameInputs
  /\ stage = "frame sent" => output = Wire!FrameOf(input)
  /\ stage = "frame damaged" =>
       \E place \in Nat, burst \in Bursts :
         LET bits == { place + b : b \in burst }
         IN /\ Wire!Covered(input.protocol, Wire!FrameOf(input), bits)
            /\ output = Wire!Damaged(input.protocol, Wire!FrameOf(input), bits)
  /\ DamageIsNoticed

TransmissionInv == RequestKnown /\ FrameKnown

LEMMA RequestType ==
  ASSUME NEW i \in RequestInputs
  PROVE  /\ i.version \in Octet /\ i.address \in Octet /\ i.function \in Octet /\ i.value \in Octet
         /\ i.signed \in BOOLEAN
BY RequestAssumption DEF Bytes, Octet

\* A request as the bus sends it.
LEMMA RequestFramed ==
  ASSUME NEW i \in RequestInputs
  PROVE  /\ BytesSent(i) \in Seq(Octet) /\ Len(BytesSent(i)) = 7
         /\ \E chars : /\ Framed(SentFor(i), chars, Wire!chksum(chars))
                       /\ Spelled(chars, BytesSent(i), 7)
<1>1. PICK data : data = SentBytes(i.version, i.address, i.function, i.value)
  OBVIOUS
<1>2. data \in Seq(Octet) /\ Len(data) = 7
  BY Zenon, <1>1, RequestType, SentData
<1>3. PICK chars : chars = Wire!byte_to_ascii_hex(data)
  OBVIOUS
<1>4. Framed(SentFor(i), chars, Wire!chksum(chars))
  BY Zenon, <1>1, <1>3, RequestType, SentFramed DEF SentFor
<1>5. Spelled(chars, data, 7)
  <2>1. PICK seven \in Nat : seven = 7
    OBVIOUS
  <2>2. \A k \in 1 .. seven : data[k] \in Octet
    BY Zenon, <1>2, <2>1, Members
  <2> QED
    BY Zenon, <1>2, <1>3, <2>1, <2>2, HexChars
<1>6. data = BytesSent(i)
  BY Zenon, <1>1 DEF SentBytes, BytesSent
<1> QED
  BY Zenon, <1>2, <1>4, <1>5, <1>6

\* What the receiver makes of it as it was sent, and with one character damaged.
LEMMA RequestRead ==
  ASSUME NEW i \in RequestInputs
  PROVE  Wire!Parsed(SentFor(i), i.signed) = BytesSent(i)
<1>1. PICK chars : /\ Framed(SentFor(i), chars, Wire!chksum(chars))
                   /\ Spelled(chars, BytesSent(i), 7)
  BY Zenon, RequestFramed
<1>0. BytesSent(i) \in Seq(Octet) /\ Len(BytesSent(i)) = 7
  BY Zenon, RequestFramed
<1>2. SameData(SentFor(i), SentFor(i)) /\ SameCrc(SentFor(i), SentFor(i))
  BY Zenon, <1>1 DEF Framed, SameData, SameCrc
<1>3. Wire!RemoteCrc(SentFor(i), i.signed) = Wire!chksum(chars)
  BY Zenon, <1>1, <1>2, CrcOfFrame, RequestType
<1>4. ReadAs(BytesSent(i), SentFor(i), i.signed, chars)
  BY Zenon, <1>0, <1>1, <1>2, FrameRead, RequestType
<1> QED
  BY <1>3, <1>4 DEF ReadAs

LEMMA RequestDamaged ==
  ASSUME NEW i \in RequestInputs, NEW place \in 2 .. 19, NEW c \in Octet,
         c # SentFor(i)[place], NEW new, ArrivesAs(new, SentFor(i), place, c)
  PROVE  Wire!Parsed(new, i.signed) \in { << >>, BytesSent(i) }
<1>1. PICK chars : /\ Framed(SentFor(i), chars, Wire!chksum(chars))
                   /\ Spelled(chars, BytesSent(i), 7)
  BY Zenon, RequestFramed
<1>0. BytesSent(i) \in Seq(Octet) /\ Len(BytesSent(i)) = 7
  BY Zenon, RequestFramed
<1>2. new \in Seq(Int) /\ Len(new) = 20 /\ \A k \in 1 .. 20 : k # place => new[k] = SentFor(i)[k]
  BY Zenon DEF ArrivesAs, ArrivesOf
<1>3. CASE place \in 2 .. 15
  <2>1. OfDigits(chars)
    <3>1. PICK n \in Nat : n = 14
      OBVIOUS
    <3>2. chars \in Seq(Digit) /\ Len(chars) = n
      BY Zenon, <1>1, <3>1 DEF Spelled, Framed
    <3> QED
      BY Zenon, <3>1, <3>2, Members DEF OfDigits
  <2>2. c \in 0 .. 255
    BY DEF Octet
  <2>3. Wire!Parsed(new, i.signed) = << >>
    BY Zenon, <1>1, <1>3, <2>1, <2>2, DataDamaged, RequestType
  <2> QED
    BY Zenon, <2>3
<1>4. CASE place \in 16 .. 19
  <2>1. \A k \in 2 .. 15 : k \in 1 .. 20 /\ k # place
    BY <1>4
  <2>2. \A k \in 2 .. 15 : new[k] = SentFor(i)[k]
    BY Zenon, <1>2, <2>1
  <2>3. SameData(new, SentFor(i))
    BY Zenon, <1>2, <2>2 DEF SameData
  <2>4. ReadAs(BytesSent(i), new, i.signed, chars)
    BY Zenon, <1>0, <1>1, <2>3, FrameRead, RequestType
  <2> QED
    BY <2>4 DEF ReadAs
<1> QED
  BY <1>3, <1>4

\* The length of a frame.
LEMMA FrameLength == ASSUME NEW i \in Wire!Frames PROVE Len(Wire!FrameOf(i)) \in Nat
<1>1. CASE i.protocol # "v2"
  <2>1. PICK bytes \in Seq(Byte) : Wire!FrameOf(i) = Wire!SealV3(bytes)
    BY <1>1, FrameKinds
  <2> QED
    BY <2>1, SealedV3
<1>2. CASE i.protocol = "v2"
  <2>1. PICK body \in Seq(Byte) : Wire!FrameOf(i) = FramedV2(body)
    BY <1>2, FrameKinds
  <2> QED
    BY <2>1, FrameOfV2
<1> QED
  BY <1>1, <1>2

LEMMA TransmissionInit == Init => TransmissionInv
BY DEF Init, TransmissionInv, RequestKnown, FrameKnown, RequestReadOrDropped, DamageIsNoticed

\* The other actions belong to other inputs.
Elsewhere ==
  {"telemetry", "telemetry decoded", "unhandled", "status", "status decoded", "too short",
   "cells", "cell loop", "cells published", "power", "power decoded", "registers",
   "registers decoded", "events", "events decoded", "alarms", "alarms told", "answer",
   "answer decoded", "texts published", "answer dropped"}

LEMMA SendRequestKeeps == TransmissionInv /\ SendRequest => TransmissionInv'
<1> SUFFICES ASSUME TransmissionInv, SendRequest PROVE TransmissionInv'
  OBVIOUS
<1>1. stage' = "sent" /\ input' = input /\ input \in RequestInputs
  BY DEF SendRequest, TransmissionInv, RequestKnown
<1>2. output' = SentFor(input)
  BY Zenon DEF SendRequest, SentFor
<1> QED
  BY <1>1, <1>2 DEF TransmissionInv, RequestKnown, FrameKnown, RequestReadOrDropped, DamageIsNoticed

LEMMA DamageCharacterKeeps == TransmissionInv /\ DamageCharacter => TransmissionInv'
<1> SUFFICES ASSUME TransmissionInv, DamageCharacter PROVE TransmissionInv'
  OBVIOUS
<1>1. stage = "sent" /\ stage' = "damaged" /\ input' = input
  BY DEF DamageCharacter
<1>2. input \in RequestInputs /\ output = SentFor(input)
  BY <1>1 DEF TransmissionInv, RequestKnown
<1>3. output \in Seq(Int) /\ Len(output) = 20
  BY Zenon, <1>2, RequestFramed DEF Framed
<1>4. PICK place \in 2 .. Len(output) - 1, c \in OtherChars :
        c # output[place] /\ output' = [output EXCEPT ![place] = c]
  BY <1>1 DEF DamageCharacter
<1>5. c \in Octet /\ c \in Int
  BY CharAssumption DEF Bytes, Octet
<1>6. place \in 2 .. 19 /\ place \in 1 .. 20
  BY <1>3
<1>7. ArrivesAs(output', output, place, c)
  BY Zenon, <1>3, <1>4, <1>5, <1>6, CharacterChanged
<1>8. \E p \in 2 .. 19, d \in Octet :
        d # SentFor(input')[p] /\ ArrivesAs(output', SentFor(input'), p, d)
  BY Zenon, <1>1, <1>2, <1>4, <1>5, <1>6, <1>7
<1> QED
  BY <1>1, <1>2, <1>8 DEF TransmissionInv, RequestKnown, FrameKnown, RequestReadOrDropped, DamageIsNoticed

LEMMA ParseRequestKeeps == TransmissionInv /\ ParseRequest => TransmissionInv'
<1> SUFFICES ASSUME TransmissionInv, ParseRequest PROVE TransmissionInv'
  OBVIOUS
<1>1. input' = input /\ output' = Wire!Parsed(output, input.signed)
  BY DEF ParseRequest
<1>2. CASE stage = "sent" /\ stage' = "parsed"
  <2>1. input \in RequestInputs /\ output = SentFor(input)
    BY <1>2 DEF TransmissionInv, RequestKnown
  <2>2. output' = BytesSent(input')
    BY Zenon, <1>1, <2>1, RequestRead
  <2> QED
    BY <1>1, <1>2, <2>1, <2>2
    DEF TransmissionInv, RequestKnown, FrameKnown, RequestReadOrDropped, DamageIsNoticed
<1>3. CASE stage = "damaged" /\ stage' = "damaged parsed"
  <2>1. input \in RequestInputs
    BY <1>3 DEF TransmissionInv, RequestKnown
  <2>2. PICK place \in 2 .. 19, c \in Octet :
          c # SentFor(input)[place] /\ ArrivesAs(output, SentFor(input), place, c)
    BY <1>3 DEF TransmissionInv, RequestKnown
  <2>3. output' \in { << >>, BytesSent(input') }
    BY Zenon, <1>1, <2>1, <2>2, RequestDamaged
  <2> QED
    BY <1>1, <1>3, <2>1, <2>3
    DEF TransmissionInv, RequestKnown, FrameKnown, RequestReadOrDropped, DamageIsNoticed
<1> QED
  BY <1>2, <1>3 DEF ParseRequest

LEMMA SendFrameKeeps == TransmissionInv /\ SendFrame => TransmissionInv'
BY DEF SendFrame, TransmissionInv, RequestKnown, FrameKnown, RequestReadOrDropped, DamageIsNoticed

LEMMA DamageFrameKeeps == TransmissionInv /\ DamageFrame => TransmissionInv'
<1> SUFFICES ASSUME TransmissionInv, DamageFrame PROVE TransmissionInv'
  OBVIOUS
<1>1. stage = "frame sent" /\ stage' = "frame damaged" /\ input' = input
  BY DEF DamageFrame
<1>2. input \in FrameInputs /\ output = Wire!FrameOf(input)
  BY <1>1 DEF TransmissionInv, FrameKnown
<1>3. Len(output) \in Nat
  BY <1>2, FrameAssumption, FrameLength
<1>4. PICK place \in 0 .. 8 * Len(output) - 1, burst \in Bursts :
        LET bits == { place + b : b \in burst }
        IN /\ Wire!Covered(input.protocol, output, bits)
           /\ output' = Wire!Damaged(input.protocol, output, bits)
  BY <1>1 DEF DamageFrame
<1>5. place \in Nat
  BY <1>3
<1>6. LET bits == { place + b : b \in burst }
      IN /\ Wire!Covered(input'.protocol, Wire!FrameOf(input'), bits)
         /\ output' = Wire!Damaged(input'.protocol, Wire!FrameOf(input'), bits)
  BY <1>1, <1>2, <1>4
<1> QED
  BY <1>1, <1>2, <1>5, <1>6
  DEF TransmissionInv, RequestKnown, FrameKnown, RequestReadOrDropped, DamageIsNoticed

LEMMA CheckFrameKeeps == TransmissionInv /\ CheckFrame => TransmissionInv'
<1> SUFFICES ASSUME TransmissionInv, CheckFrame PROVE TransmissionInv'
  OBVIOUS
<1>1. input' = input /\ output' = Wire!Checked(input.protocol, output)
  BY DEF CheckFrame
<1>2. CASE stage = "frame sent" /\ stage' = "frame checked"
  <2>1. input \in FrameInputs /\ output = Wire!FrameOf(input)
    BY <1>2 DEF TransmissionInv, FrameKnown
  <2>2. output' = TRUE
    BY <1>1, <2>1, FrameTaken, FrameAssumption
  <2> QED
    BY <1>1, <1>2, <2>1, <2>2
    DEF TransmissionInv, RequestKnown, FrameKnown, RequestReadOrDropped, DamageIsNoticed
<1>3. CASE stage = "frame damaged" /\ stage' = "damaged frame checked"
  <2>1. input \in FrameInputs /\ input \in Wire!Frames
    BY <1>3, FrameAssumption DEF TransmissionInv, FrameKnown
  <2>2. PICK place \in Nat, burst \in Bursts :
          LET bits == { place + b : b \in burst }
          IN /\ Wire!Covered(input.protocol, Wire!FrameOf(input), bits)
             /\ output = Wire!Damaged(input.protocol, Wire!FrameOf(input), bits)
    BY <1>3 DEF TransmissionInv, FrameKnown
  <2>3. burst \in SUBSET (0 .. 15) /\ burst # {}
    BY BurstAssumption
  <2>4. output' = FALSE
    BY Zenon, <1>1, <2>1, <2>2, <2>3, FrameNoticed
  <2> QED
    BY <1>1, <1>3, <2>1, <2>4
    DEF TransmissionInv, RequestKnown, FrameKnown, RequestReadOrDropped, DamageIsNoticed
<1> QED
  BY <1>2, <1>3 DEF CheckFrame

LEMMA TransmissionNext == TransmissionInv /\ [Next]_vars => TransmissionInv'
<1> SUFFICES ASSUME TransmissionInv, [Next]_vars PROVE TransmissionInv'
  OBVIOUS
<1>1. ASSUME stage' \in Elsewhere PROVE TransmissionInv'
  BY <1>1 DEF Elsewhere, TransmissionInv, RequestKnown, FrameKnown, RequestReadOrDropped, DamageIsNoticed
<1>2. CASE DecodeTelemetry \/ LeaveUnhandled \/ DecodeStatus \/ TooShort \/ StartCells \/ NextCell
  <2>1. stage' \in Elsewhere
    BY <1>2 DEF DecodeTelemetry, LeaveUnhandled, DecodeStatus, TooShort, StartCells, NextCell, Elsewhere
  <2> QED
    BY <1>1, <2>1
<1>3. CASE PublishCells \/ DecodePower \/ DecodeRegisters \/ DecodeEvents \/ TellAlarms
  <2>1. stage' \in Elsewhere
    BY <1>3 DEF PublishCells, DecodePower, DecodeRegisters, DecodeEvents, TellAlarms, Elsewhere
  <2> QED
    BY <1>1, <2>1
<1>4. CASE DecodeAnswer \/ PublishTexts \/ DropAnswer
  <2>1. stage' \in Elsewhere
    BY <1>4 DEF DecodeAnswer, PublishTexts, DropAnswer, Elsewhere
  <2> QED
    BY <1>1, <2>1
<1>5. CASE UNCHANGED vars
  BY <1>5 DEF vars, TransmissionInv, RequestKnown, FrameKnown, RequestReadOrDropped, DamageIsNoticed
<1> QED
  BY <1>2, <1>3, <1>4, <1>5, SendRequestKeeps, DamageCharacterKeeps, ParseRequestKeeps,
     SendFrameKeeps, DamageFrameKeeps, CheckFrameKeeps DEF Next

\* What is sent for a request passes the checksum of the receiver and is read as what was
\* sent, of every frame of the Bluetooth protocols the CRC fits; with one character damaged,
\* or up to sixteen bits in a row of a frame of any length, nothing else is read.
THEOREM TransmissionCorrect == Spec => []TransmissionIsChecked
<1>1. TransmissionInv => TransmissionIsChecked
  BY DEF TransmissionInv, RequestKnown, FrameKnown, TransmissionIsChecked
<1> QED
  BY <1>1, TransmissionInit, TransmissionNext, PTL DEF Spec
=============================================================================
