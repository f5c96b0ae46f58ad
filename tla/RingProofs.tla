----------------------------- MODULE RingProofs -----------------------------
(***************************************************************************)
(* Facts about the arithmetic and the copies of Ring, for every modulus    *)
(* and every capacity that divides it.                                     *)
(***************************************************************************)
EXTENDS Ring, TLAPS

\* A remainder is in range.
LEMMA ModRange == ASSUME NEW a \in Int, NEW m \in Nat, m > 0
                  PROVE  a % m \in 0..(m - 1)
OBVIOUS

\* A remainder is determined by any way of writing the number.
LEMMA ModUnique == ASSUME NEW a \in Int, NEW m \in Nat, m > 0,
                          NEW q \in Int, NEW r \in 0..(m - 1), a = m * q + r
                   PROVE  a % m = r
OBVIOUS

LEMMA ModDivision == ASSUME NEW a \in Int, NEW m \in Nat, m > 0
                     PROVE  \E q \in Int : a = m * q + (a % m)
<1>1. a \div m \in Int /\ a = m * (a \div m) + (a % m)
  OBVIOUS
<1>2. QED
  BY <1>1

LEMMA ModSmall == ASSUME NEW m \in Nat, m > 0, NEW a \in 0..(m - 1)
                  PROVE  a % m = a
OBVIOUS

\* Reducing a summand changes nothing.
LEMMA ModPlus == ASSUME NEW a \in Int, NEW b \in Int, NEW m \in Nat, m > 0
                 PROVE  ((a % m) + b) % m = (a + b) % m
<1>1. PICK q \in Int : a = m * q + (a % m)
  BY ModDivision
<1>2. a % m \in Int /\ (a % m) + b \in Int
  BY ModRange
<1>3. PICK p \in Int : (a % m) + b = m * p + (((a % m) + b) % m)
  BY <1>2, ModDivision
<1>4. ((a % m) + b) % m \in 0..(m - 1)
  BY <1>2, ModRange
<1>5. a + b = m * (q + p) + (((a % m) + b) % m)
  <2>1. m * (q + p) = m * q + m * p
    OBVIOUS
  <2>2. m * q \in Int /\ m * p \in Int
    OBVIOUS
  <2>. QED
    BY <1>1, <1>2, <1>3, <1>4, <2>1, <2>2
<1>6. a + b \in Int /\ q + p \in Int
  OBVIOUS
<1>7. QED
  BY <1>4, <1>5, <1>6, ModUnique, Zenon

\* Reducing by a multiple of the modulus first changes nothing.
LEMMA ModOfMod == ASSUME NEW a \in Int, NEW b \in Int, NEW c \in Nat, c > 0,
                         NEW m \in Nat, \E q \in Nat : q > 0 /\ m = q * c
                  PROVE  ((a % m) + b) % c = (a + b) % c
<1> PICK q \in Nat : q > 0 /\ m = q * c
  OBVIOUS
<1>0. m > 0
  OBVIOUS
<1>1. PICK k \in Int : a = m * k + (a % m)
  BY <1>0, ModDivision
<1>2. a % m \in Int /\ (a % m) + b \in Int
  BY <1>0, ModRange
<1>3. PICK p \in Int : (a % m) + b = c * p + (((a % m) + b) % c)
  BY <1>2, ModDivision
<1>4. ((a % m) + b) % c \in 0..(c - 1)
  BY <1>2, ModRange
<1>5. m * k = c * (q * k)
  OBVIOUS
<1>6. a + b = c * (q * k + p) + (((a % m) + b) % c)
  <2>1. q * k \in Int /\ c * (q * k + p) = c * (q * k) + c * p
    OBVIOUS
  <2>2. c * (q * k) \in Int /\ c * p \in Int
    BY <2>1
  <2>3. a + b = m * k + ((a % m) + b)
    BY <1>1, <1>2
  <2>. QED
    BY <1>3, <1>4, <1>5, <2>1, <2>2, <2>3
<1>7. q * k + p \in Int /\ a + b \in Int
  OBVIOUS
<1>8. QED
  BY <1>4, <1>6, <1>7, ModUnique, Zenon

\* Two indices less than a capacity apart fall into different slots.
LEMMA ModApart == ASSUME NEW a \in Int, NEW c \in Nat, c > 0,
                         NEW i \in Int, NEW j \in Int, i < j, j - i < c
                  PROVE  (a + i) % c # (a + j) % c
<1> SUFFICES ASSUME (a + i) % c = (a + j) % c
             PROVE  FALSE
  OBVIOUS
<1>0. a + i \in Int /\ a + j \in Int
  OBVIOUS
<1>1. PICK p \in Int : a + i = c * p + ((a + i) % c)
  BY <1>0, ModDivision, Zenon
<1>2. PICK q \in Int : a + j = c * q + ((a + j) % c)
  BY <1>0, ModDivision, Zenon
<1>3. (a + i) % c \in Int /\ (a + j) % c \in Int
  BY ModRange
<1>4. c * p \in Int /\ c * q \in Int
  OBVIOUS
<1>5. j - i = c * q - c * p
  BY <1>1, <1>2, <1>3, <1>4
<1>6. c * q - c * p = c * (q - p)
  OBVIOUS
<1>7. c * (q - p) > 0 /\ c * (q - p) < c
  BY <1>5, <1>6
<1>8. CASE q - p <= 0
  BY <1>7, <1>8
<1>9. CASE q - p >= 1
  BY <1>7, <1>9
<1>10. QED
  BY <1>8, <1>9
-----------------------------------------------------------------------------
\* A byte count below the modulus survives the trip through the index.
LEMMA MinusPlus == ASSUME NEW h \in Int, NEW m \in Nat, m > 0, NEW n \in 0..(m - 1)
                   PROVE  (((h + n) % m) - h) % m = n
<1>1. h + n \in Int /\ -h \in Int /\ (h + n) % m \in Int
  BY ModRange
<1>2. (((h + n) % m) + (-h)) % m = ((h + n) + (-h)) % m
  BY <1>1, ModPlus, Zenon
<1>3. ((h + n) % m) + (-h) = ((h + n) % m) - h /\ (h + n) + (-h) = n
  BY <1>1
<1>4. n % m = n
  BY ModSmall
<1>5. QED
  BY <1>2, <1>3, <1>4, Zenon

\* Advancing an index advances its distance from any other, short of a wrap.
LEMMA MinusAdvance == ASSUME NEW t \in Int, NEW h \in Int, NEW m \in Nat, m > 0,
                             NEW n \in Nat, ((t - h) % m) + n < m
                      PROVE  (((t + n) % m) - h) % m = ((t - h) % m) + n
<1>1. /\ t + n \in Int /\ -h \in Int /\ t - h \in Int /\ n \in Int
      /\ (t + n) % m \in Int /\ (t - h) % m \in 0..(m - 1)
  BY ModRange
<1>2. (((t + n) % m) + (-h)) % m = ((t + n) + (-h)) % m
  BY <1>1, ModPlus, Zenon
<1>3. (((t - h) % m) + n) % m = ((t - h) + n) % m
  BY <1>1, ModPlus, Zenon
<1>4. /\ ((t + n) % m) + (-h) = ((t + n) % m) - h
      /\ (t + n) + (-h) = (t - h) + n
      /\ ((t - h) % m) + n \in 0..(m - 1)
  BY <1>1
<1>5. (((t - h) % m) + n) % m = ((t - h) % m) + n
  BY <1>4, ModSmall
<1>6. QED
  BY <1>2, <1>3, <1>4, <1>5, Zenon

\* The two runs of a memcpy out of the ring visit the slots of successive
\* indices.
LEMMA SlotOfIsMod == ASSUME NEW c \in Nat, c > 0, NEW a \in Int, NEW i \in 0..(c - 1)
                     PROVE  SlotOf(c, a, i) = (a + i) % c
<1> DEFINE pos == a % c
<1>1. pos \in 0..(c - 1)
  BY ModRange
<1>2. (pos + i) % c = (a + i) % c
  <2>1. i \in Int
    OBVIOUS
  <2>. QED
    BY <2>1, ModPlus, Zenon
<1>3. CASE i < c - pos
  <2>1. pos + i \in 0..(c - 1)
    BY <1>1, <1>3
  <2>2. (pos + i) % c = pos + i
    BY <2>1, ModSmall
  <2>. QED
    BY <1>2, <1>3, <2>2 DEF SlotOf
<1>4. CASE ~(i < c - pos)
  <2>1. /\ pos + i \in Int /\ 1 \in Int /\ pos + i - c \in 0..(c - 1)
        /\ pos + i = c * 1 + (pos + i - c)
    BY <1>1, <1>4
  <2>2. (pos + i) % c = pos + i - c
    BY <2>1, ModUnique, Zenon
  <2>3. SlotOf(c, a, i) = i - (c - pos)
    BY <1>4 DEF SlotOf
  <2>. QED
    BY <1>1, <1>2, <2>2, <2>3
<1>5. QED
  BY <1>3, <1>4

\* What a memcpy into the ring leaves behind: the bytes at the slots of the
\* successive indices, and every other slot as it was.
LEMMA CopyInSpec ==
  ASSUME NEW c \in Nat, c > 0, NEW buf \in [0..(c - 1) -> Int], NEW a \in Int,
         NEW first \in Int, NEW n \in 0..c
  PROVE  /\ CopyIn(c, buf, a, first, n) \in [0..(c - 1) -> Int]
         /\ \A i \in 0..(n - 1) : CopyIn(c, buf, a, first, n)[(a + i) % c] = first + i
         /\ \A s \in 0..(c - 1) :
              (\A i \in 0..(n - 1) : s # (a + i) % c) => CopyIn(c, buf, a, first, n)[s] = buf[s]
<1> DEFINE pos == a % c
           toEnd == c - pos
           Val(s) == IF n <= toEnd
                     THEN IF s >= pos /\ s < pos + n THEN first + (s - pos) ELSE buf[s]
                     ELSE IF s >= pos THEN first + (s - pos)
                          ELSE IF s < n - toEnd THEN first + toEnd + s ELSE buf[s]
<1>1. pos \in 0..(c - 1)
  BY ModRange
<1>2. CopyIn(c, buf, a, first, n) = [s \in 0..(c - 1) |-> Val(s)]
  BY DEF CopyIn
<1>3. \A s \in 0..(c - 1) : Val(s) \in Int
  BY <1>1
<1>4. ASSUME NEW i \in 0..(n - 1)
      PROVE  /\ (a + i) % c \in 0..(c - 1)
             /\ (a + i) % c = IF i < toEnd THEN pos + i ELSE i - toEnd
             /\ Val((a + i) % c) = first + i
  <2>1. i \in 0..(c - 1)
    OBVIOUS
  <2>2. (a + i) % c = IF i < toEnd THEN pos + i ELSE i - toEnd
    BY <2>1, SlotOfIsMod DEF SlotOf
  <2>3. (a + i) % c \in 0..(c - 1)
    BY <1>1, <2>1, <2>2
  <2>4. CASE i < toEnd
    <3>1. (a + i) % c = pos + i
      BY <2>2, <2>4
    <3>2. Val(pos + i) = first + i
      BY <1>1, <2>4
    <3>. QED
      BY <2>2, <2>3, <3>1, <3>2
  <2>5. CASE ~(i < toEnd)
    <3>1. (a + i) % c = i - toEnd
      BY <2>2, <2>5
    <3>2. Val(i - toEnd) = first + i
      BY <1>1, <2>5
    <3>. QED
      BY <2>2, <2>3, <3>1, <3>2
  <2>. QED
    BY <2>4, <2>5
<1>5. ASSUME NEW s \in 0..(c - 1), \A i \in 0..(n - 1) : s # (a + i) % c
      PROVE  Val(s) = buf[s]
  <2>1. CASE s >= pos
    <3>1. SUFFICES ASSUME s < pos + n PROVE FALSE
      BY <1>1, <2>1
    <3>2. s - pos \in 0..(n - 1) /\ s - pos < toEnd
      BY <1>1, <2>1, <3>1
    <3>3. (a + (s - pos)) % c = pos + (s - pos)
      BY <1>4, <3>2
    <3>4. pos + (s - pos) = s
      BY <1>1
    <3>5. s # (a + (s - pos)) % c
      BY <1>5, <3>2, Zenon
    <3>. QED
      BY <3>3, <3>4, <3>5, Zenon
  <2>2. CASE s < pos
    <3>1. SUFFICES ASSUME s < n - toEnd PROVE FALSE
      BY <1>1, <2>2
    <3>2. s + toEnd \in 0..(n - 1) /\ ~(s + toEnd < toEnd)
      BY <1>1, <2>2, <3>1
    <3>3. (a + (s + toEnd)) % c = (s + toEnd) - toEnd
      BY <1>4, <3>2
    <3>4. (s + toEnd) - toEnd = s
      BY <1>1
    <3>5. s # (a + (s + toEnd)) % c
      BY <1>5, <3>2, Zenon
    <3>. QED
      BY <3>3, <3>4, <3>5, Zenon
  <2>. QED
    BY <1>1, <2>1, <2>2
<1>6. QED
  <2> HIDE DEF Val
  <2>1. /\ \A i \in 0..(n - 1) : (a + i) % c \in 0..(c - 1) /\ Val((a + i) % c) = first + i
        /\ \A s \in 0..(c - 1) : (\A i \in 0..(n - 1) : s # (a + i) % c) => Val(s) = buf[s]
    BY <1>4, <1>5
  <2>. QED
    BY <1>2, <1>3, <2>1
=============================================================================
