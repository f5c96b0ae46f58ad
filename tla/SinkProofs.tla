----------------------------- MODULE SinkProofs -----------------------------
(***************************************************************************)
(* What the two kinds of sinks that keep what they are given promise.      *)
(*                                                                         *)
(* FileSink, for any sizes of lines and of its buffer, any number of runs  *)
(* and any archives.                                                       *)
(*                                                                         *)
(* StdoutSink, for any number of sinks on one standard output, any sizes   *)
(* of messages and of the buffer.  The argument there: what a sink has not *)
(* written yet is one sequence of bytes in two parts, First (the write it  *)
(* is making) and Rest (what comes after it).  Every action is one of six  *)
(* moves on these (StdoutMoves); the moves keep the lines of a sink in     *)
(* order across out, First and Rest, let it be in the middle of a line     *)
(* only while it has the mutex, and lose no byte unless a write is cut     *)
(* short.                                                                  *)
(***************************************************************************)
EXTENDS FileSink, StdoutSink, FiniteSetTheorems, TLAPS
-----------------------------------------------------------------------------
(* The archive's name *)

LEMMA LeastNumber ==
  ASSUME NEW T \in SUBSET Nat, T # {}
  PROVE  \E n \in T : \A m \in T : n <= m
<1>1. PICK n \in T : \A m \in T : ~(<<m, n>> \in OpToRel(<, Nat))
  BY WFMin, NatLessThanWellFounded
<1>2. ASSUME NEW m \in T PROVE n <= m
  <2>1. ~(m < n)
    BY <1>1 DEF OpToRel
  <2>. QED
    BY <2>1
<1>. QED
  BY <1>2

\* The do-while over the counter ends: one more name than there are archives
\* is enough.
LEMMA NameIsFresh ==
  ASSUME IsFiniteSet(DOMAIN archives), NEW stamp
  PROVE  FreshName(stamp) \notin DOMAIN archives
<1> DEFINE N == Cardinality(DOMAIN archives)
           free == {n \in 0..N : <<stamp, n>> \notin DOMAIN archives}
           P(n) == /\ <<stamp, n>> \notin DOMAIN archives
                   /\ \A m \in 0..(n - 1) : <<stamp, m>> \in DOMAIN archives
<1>1. N \in Nat
  BY FS_CardinalityType
<1>2. free # {}
  <2> SUFFICES ASSUME \A n \in 0..N : <<stamp, n>> \in DOMAIN archives PROVE FALSE
    OBVIOUS
  <2> DEFINE name == [n \in 0..N |-> <<stamp, n>>]
  <2>1. name \in [0..N -> DOMAIN archives]
    OBVIOUS
  <2>2. IsFiniteSet(0..N) /\ Cardinality(0..N) = N + 1
    BY <1>1, FS_Interval
  <2>3. PICK x, y \in 0..N : x # y /\ name[x] = name[y]
    <3>1. N < Cardinality(0..N)
      BY <1>1, <2>2
    <3> HIDE DEF name
    <3>. QED
      BY <2>1, <2>2, <3>1, FS_PigeonHole
  <2>. QED
    BY <2>3
<1>3. PICK n \in free : \A m \in free : n <= m
  <2>1. free \in SUBSET Nat
    BY <1>1
  <2> HIDE DEF free
  <2>. QED
    BY <1>2, <2>1, LeastNumber
<1>4. n \in 0..N /\ P(n)
  <2>1. ASSUME NEW m \in 0..(n - 1) PROVE <<stamp, m>> \in DOMAIN archives
    BY <1>1, <1>3
  <2>. QED
    BY <1>3, <2>1
<1>5. P(CHOOSE k \in 0..N : P(k))
  <2> HIDE DEF P
  <2>. QED
    BY <1>4
<1>. QED
  BY <1>5 DEF FreshName
-----------------------------------------------------------------------------
(* What a write leaves in the file *)

FileLine == [id : Nat, size : Nat, whole : BOOLEAN]
BufferLine == [id : Nat, size : Nat \ {0}, at : Nat]

LEMMA LandedFacts ==
  ASSUME NEW ls \in Seq(BufferLine), NEW n \in Nat
  PROVE  /\ Landed(ls, n) \in Seq(FileLine)
         /\ Len(Landed(ls, n)) <= Len(ls)
         /\ \A i \in 1..Len(Landed(ls, n)) :
              /\ Landed(ls, n)[i].id = ls[i].id /\ Landed(ls, n)[i].size = ls[i].size
              /\ Landed(ls, n)[i].whole <=> ls[i].at + ls[i].size <= n /\ ls[i].size <= kMaxLineSize
         /\ (\A i \in 1..Len(ls) : ls[i].at < n) => Len(Landed(ls, n)) = Len(ls)
<1> DEFINE begun == {i \in DOMAIN ls : ls[i].at < n}
           c == Cardinality(begun)
<1>1. Len(ls) \in Nat /\ DOMAIN ls = 1..Len(ls)
  OBVIOUS
<1>2. IsFiniteSet(DOMAIN ls) /\ Cardinality(DOMAIN ls) = Len(ls)
  BY <1>1, FS_Interval, SMTT(30)
<1>3. IsFiniteSet(begun) /\ c <= Len(ls) /\ c \in Nat
  BY <1>2, FS_Subset, FS_CardinalityType
<1>4. (\A i \in 1..Len(ls) : ls[i].at < n) => c = Len(ls)
  <2>1. (\A i \in 1..Len(ls) : ls[i].at < n) => begun = DOMAIN ls
    BY <1>1
  <2>. QED
    BY <1>2, <2>1
<1> HIDE DEF begun, c
<1>5. Landed(ls, n) = [i \in 1..c |-> [id |-> ls[i].id, size |-> ls[i].size,
                         whole |-> ls[i].at + ls[i].size <= n /\ ls[i].size <= kMaxLineSize]]
  BY DEF Landed, c, begun
<1>6. ASSUME NEW i \in 1..c
      PROVE  [id |-> ls[i].id, size |-> ls[i].size,
              whole |-> ls[i].at + ls[i].size <= n /\ ls[i].size <= kMaxLineSize] \in FileLine
  <2>1. ls[i] \in BufferLine
    BY <1>1, <1>3
  <2>2. (ls[i].at + ls[i].size <= n /\ ls[i].size <= kMaxLineSize) \in BOOLEAN
    OBVIOUS
  <2>. QED
    BY <2>1, <2>2 DEF FileLine, BufferLine
<1>7. Landed(ls, n) \in Seq(FileLine) /\ Len(Landed(ls, n)) = c
  BY <1>3, <1>5, <1>6
<1>8. ASSUME NEW i \in 1..c
      PROVE  /\ Landed(ls, n)[i].id = ls[i].id /\ Landed(ls, n)[i].size = ls[i].size
             /\ Landed(ls, n)[i].whole <=> ls[i].at + ls[i].size <= n /\ ls[i].size <= kMaxLineSize
  <2> DEFINE w == ls[i].at + ls[i].size <= n /\ ls[i].size <= kMaxLineSize
  <2>1. Landed(ls, n)[i] = [id |-> ls[i].id, size |-> ls[i].size, whole |-> w]
    BY <1>5
  <2> HIDE DEF w
  <2>2. /\ Landed(ls, n)[i].id = ls[i].id /\ Landed(ls, n)[i].size = ls[i].size
        /\ Landed(ls, n)[i].whole = w
    BY <2>1
  <2>. QED
    BY <2>2, Zenon DEF w
<1>. QED
  BY <1>3, <1>4, <1>7, <1>8
-----------------------------------------------------------------------------
(* Lines and their ids *)

IdsIncrease(f) == \A i, j \in DOMAIN f : i < j => f[i].id < f[j].id
IdsIn(f) == {f[i].id : i \in DOMAIN f}

\* The lines of a file that are there as far as they were formatted.
Held(f) == {f[i].id : i \in {j \in DOMAIN f : f[j].whole \/ f[j].size > kMaxLineSize}}

LEMMA JoinedLines ==
  ASSUME NEW f \in Seq(FileLine), NEW g \in Seq(FileLine)
  PROVE  /\ f \o g \in Seq(FileLine)
         /\ IdsIn(f \o g) = IdsIn(f) \cup IdsIn(g)
         /\ Whole(f \o g) = Whole(f) \cup Whole(g)
         /\ Held(f \o g) = Held(f) \cup Held(g)
         /\ IdsIncrease(f) /\ IdsIncrease(g) /\ (\A k \in IdsIn(f), l \in IdsIn(g) : k < l)
              => IdsIncrease(f \o g)
<1>1. /\ f \o g \in Seq(FileLine) /\ Len(f) \in Nat /\ Len(g) \in Nat
      /\ DOMAIN f = 1..Len(f) /\ DOMAIN g = 1..Len(g) /\ DOMAIN (f \o g) = 1..(Len(f) + Len(g))
  OBVIOUS
<1>2. ASSUME NEW i \in DOMAIN f PROVE i \in DOMAIN (f \o g) /\ (f \o g)[i] = f[i]
  BY <1>1
<1>3. ASSUME NEW i \in DOMAIN g
      PROVE  Len(f) + i \in DOMAIN (f \o g) /\ (f \o g)[Len(f) + i] = g[i]
  BY <1>1
<1>4. ASSUME NEW i \in DOMAIN (f \o g)
      PROVE  \/ i \in DOMAIN f /\ (f \o g)[i] = f[i]
             \/ i - Len(f) \in DOMAIN g /\ (f \o g)[i] = g[i - Len(f)]
  BY <1>1
<1> DEFINE h == f \o g
<1>5. DOMAIN h = DOMAIN (f \o g)
  OBVIOUS
<1> HIDE DEF h
<1>6. /\ \A i \in DOMAIN f : i \in DOMAIN h /\ h[i] = f[i]
      /\ \A i \in DOMAIN g : \E j \in DOMAIN h : h[j] = g[i]
      /\ \A i \in DOMAIN h : (\E j \in DOMAIN f : h[i] = f[j]) \/ (\E j \in DOMAIN g : h[i] = g[j])
  BY <1>2, <1>3, <1>4 DEF h
<1>7. IdsIn(h) = IdsIn(f) \cup IdsIn(g)
  BY <1>6 DEF IdsIn
<1>8. Whole(h) = Whole(f) \cup Whole(g)
  BY <1>6 DEF Whole
<1>9. Held(h) = Held(f) \cup Held(g)
  BY <1>6 DEF Held
<1>10. ASSUME IdsIncrease(f), IdsIncrease(g), \A k \in IdsIn(f), l \in IdsIn(g) : k < l,
              NEW i \in DOMAIN h, NEW j \in DOMAIN h, i < j
       PROVE  h[i].id < h[j].id
  <2>1. CASE j \in DOMAIN f
    <3>1. i \in DOMAIN f
      BY <1>1, <1>10, <2>1 DEF h
    <3>. QED
      BY <1>6, <1>10, <2>1, <3>1 DEF IdsIncrease
  <2>2. CASE j \notin DOMAIN f /\ i \in DOMAIN f
    <3>1. PICK k \in DOMAIN g : h[j] = g[k]
      BY <1>4, <2>2 DEF h
    <3>. QED
      BY <1>6, <1>10, <2>2, <3>1 DEF IdsIn
  <2>3. CASE j \notin DOMAIN f /\ i \notin DOMAIN f
    <3>1. /\ i - Len(f) \in DOMAIN g /\ j - Len(f) \in DOMAIN g
          /\ h[i] = g[i - Len(f)] /\ h[j] = g[j - Len(f)]
      BY <1>4, <2>3 DEF h
    <3>2. i - Len(f) < j - Len(f)
      BY <1>1, <1>10 DEF h
    <3>. QED
      BY <1>10, <3>1, <3>2 DEF IdsIncrease
  <2>. QED
    BY <2>1, <2>2, <2>3
<1>. QED
  BY <1>1, <1>7, <1>8, <1>9, <1>10 DEF h, IdsIncrease

LEMMA OneLineMore ==
  ASSUME NEW b \in Seq(BufferLine), NEW e \in BufferLine
  PROVE  /\ Append(b, e) \in Seq(BufferLine)
         /\ IdsIn(Append(b, e)) = IdsIn(b) \cup {e.id}
         /\ IdsIncrease(b) /\ (\A l \in IdsIn(b) : l < e.id) => IdsIncrease(Append(b, e))
<1> DEFINE c == Append(b, e)
           n == Len(b) + 1
<1>1. /\ c \in Seq(BufferLine) /\ Len(b) \in Nat /\ DOMAIN b = 1..Len(b) /\ DOMAIN c = 1..n
      /\ c[n] = e /\ \A i \in 1..Len(b) : c[i] = b[i]
  OBVIOUS
<1>2. n \in DOMAIN c /\ \A i \in DOMAIN c : i \in DOMAIN b \/ i = n
  BY <1>1
<1>3. \A i \in DOMAIN b : i \in DOMAIN c /\ c[i] = b[i]
  BY <1>1
<1> HIDE DEF c
<1>4. IdsIn(c) = IdsIn(b) \cup {e.id}
  BY <1>1, <1>2, <1>3 DEF IdsIn
<1>5. ASSUME IdsIncrease(b), \A l \in IdsIn(b) : l < e.id, NEW i \in DOMAIN c, NEW j \in DOMAIN c, i < j
      PROVE  c[i].id < c[j].id
  <2>1. i \in DOMAIN b
    BY <1>1, <1>5
  <2>2. CASE j = n
    BY <1>1, <1>3, <1>5, <2>1, <2>2 DEF IdsIn
  <2>3. CASE j # n
    BY <1>2, <1>3, <1>5, <2>1, <2>3 DEF IdsIncrease
  <2>. QED
    BY <2>2, <2>3
<1>. QED
  BY <1>1, <1>4, <1>5 DEF c, IdsIncrease

LEMMA OneLine ==
  ASSUME NEW e \in BufferLine
  PROVE  <<e>> \in Seq(BufferLine) /\ IdsIn(<<e>>) = {e.id} /\ IdsIncrease(<<e>>)
<1>1. <<e>> \in Seq(BufferLine) /\ DOMAIN <<e>> = {1} /\ <<e>>[1] = e
  OBVIOUS
<1>2. \A i \in DOMAIN <<e>> : i = 1
  BY <1>1
<1>. QED
  BY <1>1, <1>2 DEF IdsIn, IdsIncrease

LEMMA IdsAreNumbers ==
  /\ \A f \in Seq(FileLine) : \A l \in IdsIn(f) : l \in Nat
  /\ \A b \in Seq(BufferLine) : \A l \in IdsIn(b) : l \in Nat
<1>1. ASSUME NEW f \in Seq(FileLine), NEW i \in DOMAIN f PROVE f[i].id \in Nat
  <2>1. f[i] \in FileLine
    OBVIOUS
  <2>. QED
    BY <2>1 DEF FileLine
<1>2. ASSUME NEW b \in Seq(BufferLine), NEW i \in DOMAIN b PROVE b[i].id \in Nat
  <2>1. b[i] \in BufferLine
    OBVIOUS
  <2>. QED
    BY <2>1 DEF BufferLine
<1>. QED
  BY <1>1, <1>2 DEF IdsIn

LEMMA NoLines ==
  /\ IdsIn(<<>>) = {} /\ Whole(<<>>) = {} /\ Held(<<>>) = {} /\ IdsIncrease(<<>>)
  /\ <<>> \in Seq(FileLine) /\ <<>> \in Seq(BufferLine)
BY SMTT(30) DEF IdsIn, Whole, Held, IdsIncrease

LEMMA PrefixLines ==
  ASSUME NEW f \in Seq(FileLine), NEW k \in 0..Len(f)
  PROVE  /\ SubSeq(f, 1, k) \in Seq(FileLine)
         /\ IdsIncrease(f) => IdsIncrease(SubSeq(f, 1, k))
         /\ Whole(SubSeq(f, 1, k)) \subseteq Whole(f)
         /\ k = Len(f) => SubSeq(f, 1, k) = f
<1>1. /\ SubSeq(f, 1, k) \in Seq(FileLine) /\ DOMAIN SubSeq(f, 1, k) = 1..k /\ DOMAIN f = 1..Len(f)
      /\ k = Len(f) => SubSeq(f, 1, k) = f
  OBVIOUS
<1>2. \A i \in 1..k : i \in DOMAIN f /\ SubSeq(f, 1, k)[i] = f[i]
  BY SMTT(30)
<1> DEFINE g == SubSeq(f, 1, k)
<1>3. \A i \in DOMAIN g : i \in DOMAIN f /\ g[i] = f[i]
  BY <1>1, <1>2, Zenon
<1> HIDE DEF g
<1>4. (IdsIncrease(f) => IdsIncrease(g)) /\ Whole(g) \subseteq Whole(f)
  BY <1>3 DEF IdsIncrease, Whole
<1>. QED
  BY <1>1, <1>4, Zenon DEF g

\* What a write lands of lines in order, and of lines it takes all of.
LEMMA LandedLines ==
  ASSUME NEW ls \in Seq(BufferLine), NEW n \in Nat
  PROVE  /\ Landed(ls, n) \in Seq(FileLine)
         /\ IdsIn(Landed(ls, n)) \subseteq IdsIn(ls)
         /\ IdsIncrease(ls) => IdsIncrease(Landed(ls, n))
         /\ (\A i \in DOMAIN ls : ls[i].at + ls[i].size <= n) => IdsIn(ls) \subseteq Held(Landed(ls, n))
<1> DEFINE g == Landed(ls, n)
<1>1. /\ g \in Seq(FileLine) /\ Len(g) <= Len(ls)
      /\ \A i \in 1..Len(g) :
           /\ g[i].id = ls[i].id /\ g[i].size = ls[i].size
           /\ g[i].whole <=> ls[i].at + ls[i].size <= n /\ ls[i].size <= kMaxLineSize
      /\ (\A i \in 1..Len(ls) : ls[i].at < n) => Len(g) = Len(ls)
  BY LandedFacts
<1> HIDE DEF g
<1>2. DOMAIN g = 1..Len(g) /\ DOMAIN ls = 1..Len(ls) /\ Len(g) \in Nat /\ Len(ls) \in Nat
  BY <1>1
<1>3. ASSUME NEW i \in DOMAIN g PROVE i \in DOMAIN ls /\ g[i].id = ls[i].id
  <2>0. Len(g) <= Len(ls)
    BY <1>1, Zenon
  <2>1. i \in 1..Len(g) /\ i \in 1..Len(ls)
    BY <1>2, <2>0
  <2>. QED
    BY <1>1, <1>2, <2>1, Zenon
<1>4. ASSUME \A i \in DOMAIN ls : ls[i].at + ls[i].size <= n, NEW i \in DOMAIN ls
      PROVE  ls[i].id \in Held(g)
  <2>1. \A j \in DOMAIN ls : ls[j].at \in Nat /\ ls[j].size \in Nat /\ ls[j].size > 0
    <3>1. \A j \in DOMAIN ls : ls[j] \in BufferLine
      BY <1>2
    <3>. QED
      BY <3>1, SMTT(30) DEF BufferLine
  <2>2. i \in DOMAIN g
    <3>1. \A j \in DOMAIN ls : ls[j].at < n
      BY <1>4, <2>1, SMTT(30)
    <3>. QED
      BY <1>1, <1>2, <3>1
  <2>3. /\ g[i].id = ls[i].id /\ g[i].size = ls[i].size
        /\ g[i].whole <=> ls[i].at + ls[i].size <= n /\ ls[i].size <= kMaxLineSize
    BY <1>1, <1>2, <2>2
  <2>4. g[i].whole \/ g[i].size > kMaxLineSize
    BY <1>4, <2>1, <2>3, SinkConstants
  <2>. QED
    BY <2>2, <2>3, <2>4 DEF Held
<1>. QED
  BY <1>1, <1>3, <1>4 DEF g, IdsIn, IdsIncrease
-----------------------------------------------------------------------------
(* FileSink: the inductive invariant *)

FileTypes ==
  /\ present \in BOOLEAN /\ fd_ \in BOOLEAN /\ faulty \in BOOLEAN /\ cut \in BOOLEAN
  /\ latest \in Seq(FileLine) /\ IsFiniteSet(DOMAIN archives)
  /\ \A a \in DOMAIN archives : archives[a] \in Seq(FileLine)
  /\ copied \in Nat /\ buffer_ \in Seq(BufferLine) /\ cursor_ \in Nat
  /\ lines \in Nat /\ first \in Nat /\ first <= lines + 1

\* Where the constructor is: it has not logged, its archive has a name of its
\* own and then so much of latest.log as was copied.
Constructor ==
  /\ pc \in {"down", "compress", "copy", "create", "open", "up"}
  /\ pc # "up" => buffer_ = <<>> /\ cursor_ = 0 /\ ~fd_
  /\ pc # "up" /\ pc # "down" => first = lines + 1
  /\ pc = "compress" => dest \notin DOMAIN archives
  /\ pc = "copy" => /\ dest \in DOMAIN archives /\ copied <= Len(latest)
                    /\ archives[dest] = SubSeq(latest, 1, copied)
  /\ pc # "copy" => copied = 0
  /\ ~present => latest = <<>>
  /\ fd_ => present
  /\ pc = "up" /\ ~fd_ => faulty

\* The ids in the file and then in the buffer increase; the lines in the buffer
\* are of this run, and so are those in the file after a faultless rotation.
Ordered ==
  /\ IdsIncrease(latest) /\ IdsIncrease(buffer_)
  /\ \A a \in DOMAIN archives : IdsIncrease(archives[a])
  /\ \A l \in IdsIn(latest) : l <= lines
  /\ \A l \in IdsIn(buffer_) : first <= l /\ l <= lines
  /\ \A k \in IdsIn(latest), l \in IdsIn(buffer_) : k < l
  /\ pc \in {"create", "open", "up"} /\ ~faulty => \A l \in IdsIn(latest) : first <= l

\* The lines in the buffer lie within the bytes flush() writes.
Packed == \A i \in DOMAIN buffer_ : buffer_[i].at + buffer_[i].size <= cursor_

Kept == ~faulty => first..lines \subseteq Held(latest) \cup IdsIn(buffer_)

Survive ==
  ~cut => \A l \in onDisk : l \in Whole(latest) \/ \E a \in DOMAIN archives : l \in Whole(archives[a])

FileSinkInvariant == FileTypes /\ Constructor /\ Ordered /\ Packed /\ Kept /\ Survive

LEMMA InitFileSink == FileSinkInit => FileSinkInvariant
<1> SUFFICES ASSUME FileSinkInit PROVE FileSinkInvariant
  OBVIOUS
<1>1. latest = <<>> /\ buffer_ = <<>> /\ DOMAIN archives = {} /\ onDisk = {}
  BY DEF FileSinkInit
<1>2. FileTypes
  <2>1. present \in BOOLEAN /\ fd_ \in BOOLEAN /\ faulty \in BOOLEAN /\ cut \in BOOLEAN
    BY DEF FileSinkInit
  <2>2. IsFiniteSet(DOMAIN archives)
    BY <1>1, FS_EmptySet, Zenon
  <2>3. copied = 0 /\ cursor_ = 0 /\ lines = 0 /\ first = 1
    BY DEF FileSinkInit
  <2>. QED
    BY <1>1, <2>1, <2>2, <2>3 DEF FileTypes
<1>3. Constructor
  BY DEF FileSinkInit, Constructor
<1>4. Ordered /\ Survive
  BY <1>1, NoLines DEF Ordered, Survive
<1>5. Packed
  BY <1>1 DEF Packed
<1>6. Kept
  BY DEF FileSinkInit, Kept
<1>. QED
  BY <1>2, <1>3, <1>4, <1>5, <1>6 DEF FileSinkInvariant

\* What a step of a constructed sink may do to lines, whichever way they go.
LEMMA SinkMovesLines ==
  ASSUME FileSinkInvariant, pc = "up", UNCHANGED <<present, archives, copied, first, cut>>,
         faulty' \in BOOLEAN, latest' \in Seq(FileLine), buffer_' \in Seq(BufferLine), cursor_' \in Nat,
         lines' = lines \/ lines' = lines + 1,
         IdsIncrease(latest'), IdsIncrease(buffer_'),
         \A l \in IdsIn(latest') : l \in IdsIn(latest) \/ l \in IdsIn(buffer_) \/ l \in (lines + 1)..lines',
         \A l \in IdsIn(buffer_') : l \in IdsIn(buffer_) \/ l \in (lines + 1)..lines',
         \A k \in IdsIn(latest'), l \in IdsIn(buffer_') : k < l,
         \A l \in onDisk' : l \in onDisk \/ l \in Whole(latest'),
         Whole(latest) \subseteq Whole(latest'), Held(latest) \subseteq Held(latest'),
         faulty => faulty',
         ~faulty' => \A l \in IdsIn(buffer_) \cup (lines + 1)..lines' :
                        l \in Held(latest') \/ l \in IdsIn(buffer_'),
         latest' = latest \/ fd_,
         Packed',
         \/ pc' = "up" /\ fd_' = fd_
         \/ pc' = "down" /\ fd_' = FALSE /\ buffer_' = <<>> /\ cursor_' = 0
  PROVE  FileSinkInvariant'
<1> USE DEF FileSinkInvariant
<1>1. FileTypes'
  <2>1. present' \in BOOLEAN /\ fd_' \in BOOLEAN /\ faulty' \in BOOLEAN /\ cut' \in BOOLEAN
    BY Zenon DEF FileTypes
  <2>2. lines' \in Nat /\ first' \in Nat /\ first' <= lines' + 1 /\ copied' \in Nat
    BY DEF FileTypes
  <2>3. IsFiniteSet(DOMAIN archives') /\ \A a \in DOMAIN archives' : archives'[a] \in Seq(FileLine)
    BY DEF FileTypes
  <2>. QED
    BY <2>1, <2>2, <2>3, Zenon DEF FileTypes
<1>2. Constructor'
  BY DEF FileTypes, Constructor
<1>3. Ordered'
  <2>0. /\ \A l \in IdsIn(latest) : l \in Nat /\ l <= lines
        /\ \A l \in IdsIn(buffer_) : l \in Nat /\ first <= l /\ l <= lines
        /\ lines \in Nat /\ first \in Nat /\ first <= lines + 1
    BY IdsAreNumbers DEF FileTypes, Ordered
  <2>1. \A l \in IdsIn(latest') : l <= lines'
    BY <2>0
  <2>2. \A l \in IdsIn(buffer_') : first <= l /\ l <= lines'
    BY <2>0
  <2>3. ~faulty' => \A l \in IdsIn(latest') : first <= l
    BY DEF FileTypes, Ordered
  <2>. QED
    BY <2>1, <2>2, <2>3 DEF Ordered
<1>4. Kept'
  BY DEF FileTypes, Kept
<1>5. Survive'
  BY DEF Survive
<1>. QED
  BY <1>1, <1>2, <1>3, <1>4, <1>5

LEMMA LineMade ==
  ASSUME FileSinkInvariant, NEW size \in Sizes, NEW at \in Nat
  PROVE  /\ Line(size, at) \in BufferLine /\ Line(size, at).id = lines + 1
         /\ Line(size, at).size = size /\ Line(size, at).at = at
         /\ size \in Nat \ {0}
BY SinkConstants DEF FileSinkInvariant, FileTypes, Line, BufferLine

\* The ids so far are below the next line's.
LEMMA IdsSoFar ==
  ASSUME FileSinkInvariant
  PROVE  /\ lines \in Nat /\ (lines + 1)..(lines + 1) = {lines + 1} /\ (lines + 1)..lines = {}
         /\ \A l \in IdsIn(latest) : l < lines + 1
         /\ \A l \in IdsIn(buffer_) : l < lines + 1
<1>1. /\ lines \in Nat
      /\ \A l \in IdsIn(latest) : l \in Nat /\ l <= lines
      /\ \A l \in IdsIn(buffer_) : l \in Nat /\ l <= lines
  BY IdsAreNumbers DEF FileSinkInvariant, FileTypes, Ordered
<1>. QED
  BY <1>1

\* The file after n bytes of the buffer have been written behind it.
LEMMA BufferLands ==
  ASSUME FileSinkInvariant, NEW n \in 0..cursor_
  PROVE  LET f == latest \o Landed(buffer_, n) IN
         /\ f \in Seq(FileLine) /\ IdsIncrease(f)
         /\ IdsIn(f) \subseteq IdsIn(latest) \cup IdsIn(buffer_)
         /\ Whole(f) = Whole(latest) \cup Whole(Landed(buffer_, n))
         /\ Held(latest) \subseteq Held(f)
         /\ ~(n < cursor_) => IdsIn(buffer_) \subseteq Held(f)
<1> DEFINE g == Landed(buffer_, n)
<1>1. latest \in Seq(FileLine) /\ buffer_ \in Seq(BufferLine) /\ cursor_ \in Nat /\ n \in Nat
  BY DEF FileSinkInvariant, FileTypes
<1>2. /\ g \in Seq(FileLine) /\ IdsIn(g) \subseteq IdsIn(buffer_) /\ IdsIncrease(g)
      /\ (\A i \in DOMAIN buffer_ : buffer_[i].at + buffer_[i].size <= n) => IdsIn(buffer_) \subseteq Held(g)
  BY <1>1, LandedLines DEF FileSinkInvariant, Ordered
<1> HIDE DEF g
<1>3. \A k \in IdsIn(latest), l \in IdsIn(g) : k < l
  BY <1>2 DEF FileSinkInvariant, Ordered
<1>4. ~(n < cursor_) => IdsIn(buffer_) \subseteq Held(g)
  <2>1. ~(n < cursor_) => n = cursor_
    BY <1>1
  <2>. QED
    BY <1>2, <2>1 DEF FileSinkInvariant, Packed
<1>5. IdsIncrease(latest)
  BY DEF FileSinkInvariant, Ordered
<1>6. /\ latest \o g \in Seq(FileLine) /\ IdsIn(latest \o g) = IdsIn(latest) \cup IdsIn(g)
      /\ Whole(latest \o g) = Whole(latest) \cup Whole(g)
      /\ Held(latest \o g) = Held(latest) \cup Held(g) /\ IdsIncrease(latest \o g)
  BY <1>1, <1>2, <1>3, <1>5, JoinedLines
<1>. QED
  BY <1>2, <1>4, <1>6 DEF g

LEMMA BufferedStep ==
  ASSUME FileSinkInvariant, NEW size \in Sizes, LogBuffered(size) \/ LogOverrun(size)
  PROVE  FileSinkInvariant'
<1> DEFINE e == Line(size, cursor_)
<1>1. /\ pc = "up" /\ pc' = "up" /\ lines' = lines + 1 /\ fd_' = fd_
      /\ buffer_' = Append(buffer_, e) /\ cursor_' = cursor_ + size
      /\ UNCHANGED <<present, archives, copied, first, cut, latest, onDisk, faulty>>
  BY DEF LogBuffered, LogOverrun, NoWrite
<1>2. FileTypes /\ Ordered /\ Packed
  BY DEF FileSinkInvariant
<1>3. e \in BufferLine /\ e.id = lines + 1 /\ e.size = size /\ e.at = cursor_ /\ size \in Nat \ {0}
  BY <1>2, LineMade DEF FileTypes
<1> HIDE DEF e
<1>4. buffer_ \in Seq(BufferLine) /\ cursor_ \in Nat /\ latest \in Seq(FileLine) /\ IdsIncrease(latest)
      /\ IdsIncrease(buffer_) /\ faulty \in BOOLEAN
  BY <1>2 DEF FileTypes, Ordered
<1>5. /\ buffer_' \in Seq(BufferLine) /\ IdsIn(buffer_') = IdsIn(buffer_) \cup {lines + 1}
      /\ IdsIncrease(buffer_')
  BY <1>1, <1>3, <1>4, OneLineMore, IdsSoFar
<1>6. Packed'
  <2>1. \A i \in DOMAIN buffer_ : buffer_[i].at + buffer_[i].size <= cursor_
    BY <1>2 DEF Packed
  <2>2. ASSUME NEW i \in DOMAIN buffer_ PROVE buffer_[i].at \in Nat /\ buffer_[i].size \in Nat
    <3>1. buffer_[i] \in BufferLine
      BY <1>4
    <3>. QED
      BY <3>1 DEF BufferLine
  <2>3. ASSUME NEW i \in DOMAIN Append(buffer_, e)
        PROVE  \/ i \in DOMAIN buffer_ /\ Append(buffer_, e)[i] = buffer_[i]
               \/ Append(buffer_, e)[i] = e
    BY <1>3, <1>4
  <2>4. cursor_ <= cursor_ + size /\ e.at + e.size <= cursor_ + size
    BY <1>3, <1>4
  <2>5. ASSUME NEW i \in DOMAIN buffer_ PROVE buffer_[i].at + buffer_[i].size <= cursor_ + size
    BY <1>3, <1>4, <2>1, <2>2
  <2>6. ASSUME NEW i \in DOMAIN Append(buffer_, e)
        PROVE  Append(buffer_, e)[i].at + Append(buffer_, e)[i].size <= cursor_ + size
    BY <2>3, <2>4, <2>5, Zenon
  <2>. QED
    BY <1>1, <2>6, Zenon DEF Packed
<1>7. \A k \in IdsIn(latest'), l \in IdsIn(buffer_') : k < l
  BY <1>1, <1>2, <1>5, IdsSoFar DEF Ordered
<1>8. cursor_' \in Nat
  BY <1>1, <1>3, <1>4
<1>9. \A l \in IdsIn(buffer_) \cup (lines + 1)..lines' : l \in IdsIn(buffer_')
  BY <1>1, <1>5, IdsSoFar
<1>10. \A l \in IdsIn(buffer_') : l \in IdsIn(buffer_) \/ l \in (lines + 1)..lines'
  BY <1>1, <1>5, IdsSoFar
<1>. QED
  BY <1>1, <1>4, <1>5, <1>6, <1>7, <1>8, <1>9, <1>10, SinkMovesLines, Zenon

LEMMA DroppedStep ==
  ASSUME FileSinkInvariant, NEW size \in Sizes, LogDropped(size)
  PROVE  FileSinkInvariant'
<1>1. /\ pc = "up" /\ pc' = "up" /\ lines' = lines + 1 /\ fd_' = fd_ /\ ~fd_
      /\ UNCHANGED <<present, archives, copied, first, cut, latest, onDisk, faulty, buffer_, cursor_>>
  BY DEF LogDropped, NoWrite, sink
<1>2. faulty /\ Packed
  BY <1>1 DEF FileSinkInvariant, Constructor
<1>3. /\ latest \in Seq(FileLine) /\ buffer_ \in Seq(BufferLine) /\ cursor_ \in Nat /\ faulty \in BOOLEAN
      /\ IdsIncrease(latest) /\ IdsIncrease(buffer_)
      /\ \A k \in IdsIn(latest), l \in IdsIn(buffer_) : k < l
  BY DEF FileSinkInvariant, FileTypes, Ordered
<1>4. Packed'
  BY <1>1, <1>2 DEF Packed
<1>. QED
  BY <1>1, <1>2, <1>3, <1>4, SinkMovesLines, Zenon

LEMMA FlushedStep ==
  ASSUME FileSinkInvariant, NEW size \in Sizes, NEW n \in 0..cursor_, LogFlushed(size, n)
  PROVE  FileSinkInvariant'
<1> DEFINE e == Line(size, 0)
           f == latest \o Landed(buffer_, n)
<1>1. /\ pc = "up" /\ pc' = "up" /\ lines' = lines + 1 /\ fd_ /\ fd_' = fd_
      /\ latest' = f /\ onDisk' = onDisk \cup Whole(Landed(buffer_, n))
      /\ faulty' = (faulty \/ n < cursor_)
      /\ buffer_' = <<e>> /\ cursor_' = size
      /\ UNCHANGED <<present, archives, copied, first, cut>>
  BY DEF LogFlushed, WriteBuffer
<1>2. e \in BufferLine /\ e.id = lines + 1 /\ e.size = size /\ e.at = 0 /\ size \in Nat \ {0}
  BY LineMade
<1>3. /\ f \in Seq(FileLine) /\ IdsIncrease(f)
      /\ IdsIn(f) \subseteq IdsIn(latest) \cup IdsIn(buffer_)
      /\ Whole(f) = Whole(latest) \cup Whole(Landed(buffer_, n))
      /\ Held(latest) \subseteq Held(f)
      /\ ~(n < cursor_) => IdsIn(buffer_) \subseteq Held(f)
  BY BufferLands
<1> HIDE DEF e, f
<1>4. <<e>> \in Seq(BufferLine) /\ IdsIn(<<e>>) = {lines + 1} /\ IdsIncrease(<<e>>)
  BY <1>2, OneLine
<1>5. Packed'
  <2>1. \A i \in DOMAIN <<e>> : <<e>>[i] = e
    OBVIOUS
  <2>2. e.at + e.size <= size
    BY <1>2
  <2>. QED
    BY <1>1, <2>1, <2>2, Zenon DEF Packed
<1>6. \A k \in IdsIn(f), l \in IdsIn(<<e>>) : k < l
  BY <1>3, <1>4, IdsSoFar
<1>7. faulty' \in BOOLEAN /\ (faulty => faulty') /\ (~faulty' => ~(n < cursor_))
  BY <1>1, Zenon
<1>8. \A l \in (lines + 1)..lines' : l \in IdsIn(<<e>>)
  BY <1>1, <1>4, IdsSoFar
<1>9. \A l \in IdsIn(<<e>>) : l \in (lines + 1)..lines'
  BY <1>1, <1>4, IdsSoFar
<1>10. cursor_' \in Nat
  BY <1>1, <1>2
<1>11. ~faulty' => \A l \in IdsIn(buffer_) \cup (lines + 1)..lines' : l \in Held(f) \/ l \in IdsIn(<<e>>)
  BY <1>3, <1>7, <1>8
<1>12. \A l \in onDisk' : l \in onDisk \/ l \in Whole(f)
  BY <1>1, <1>3
<1>. QED
  BY <1>1, <1>3, <1>4, <1>5, <1>6, <1>7, <1>9, <1>10, <1>11, <1>12, SinkMovesLines

LEMMA DirectStep ==
  ASSUME FileSinkInvariant, NEW size \in Sizes, NEW m \in 0..cursor_, NEW n \in 0..size,
         LogDirect(size, m, n)
  PROVE  FileSinkInvariant'
<1> DEFINE e == Line(size, 0)
           f == latest \o Landed(buffer_, m)
           g == Landed(<<e>>, n)
<1>1. /\ pc = "up" /\ pc' = "up" /\ lines' = lines + 1 /\ fd_ /\ fd_' = fd_
      /\ latest' = f \o g /\ onDisk' = onDisk \cup Whole(Landed(buffer_, m)) \cup Whole(g)
      /\ faulty' = (faulty \/ m < cursor_ \/ n < size)
      /\ buffer_' = <<>> /\ cursor_' = 0
      /\ UNCHANGED <<present, archives, copied, first, cut>>
  BY DEF LogDirect
<1>2. e \in BufferLine /\ e.id = lines + 1 /\ e.size = size /\ e.at = 0 /\ size \in Nat \ {0}
  BY LineMade
<1>3. /\ f \in Seq(FileLine) /\ IdsIncrease(f)
      /\ IdsIn(f) \subseteq IdsIn(latest) \cup IdsIn(buffer_)
      /\ Whole(f) = Whole(latest) \cup Whole(Landed(buffer_, m))
      /\ Held(latest) \subseteq Held(f)
      /\ ~(m < cursor_) => IdsIn(buffer_) \subseteq Held(f)
  BY BufferLands
<1> HIDE DEF e, f
<1>4. <<e>> \in Seq(BufferLine) /\ IdsIn(<<e>>) = {lines + 1} /\ IdsIncrease(<<e>>)
  BY <1>2, OneLine
<1>5. /\ g \in Seq(FileLine) /\ IdsIn(g) \subseteq {lines + 1} /\ IdsIncrease(g)
      /\ (\A i \in DOMAIN <<e>> : <<e>>[i].at + <<e>>[i].size <= n) => {lines + 1} \subseteq Held(g)
  <2>1. n \in Nat
    BY <1>2
  <2>. QED
    BY <1>4, <2>1, LandedLines
<1>6. ~(n < size) => {lines + 1} \subseteq Held(g)
  <2>1. \A i \in DOMAIN <<e>> : <<e>>[i] = e
    OBVIOUS
  <2>2. ~(n < size) => e.at + e.size <= n
    BY <1>2
  <2>. QED
    BY <1>5, <2>1, <2>2, Zenon
<1> HIDE DEF g
<1>7. \A k \in IdsIn(f), l \in IdsIn(g) : k < l
  BY <1>3, <1>5, IdsSoFar
<1>8. /\ f \o g \in Seq(FileLine) /\ IdsIn(f \o g) = IdsIn(f) \cup IdsIn(g)
      /\ Whole(f \o g) = Whole(f) \cup Whole(g)
      /\ Held(f \o g) = Held(f) \cup Held(g) /\ IdsIncrease(f \o g)
  BY <1>3, <1>5, <1>7, JoinedLines
<1>9. Packed' /\ buffer_' \in Seq(BufferLine) /\ IdsIncrease(buffer_') /\ IdsIn(buffer_') = {}
  <2>1. DOMAIN <<>> = {}
    OBVIOUS
  <2>. QED
    BY <1>1, <2>1, NoLines, Zenon DEF Packed
<1>10. /\ faulty' \in BOOLEAN /\ (faulty => faulty')
       /\ ~faulty' => ~(m < cursor_) /\ ~(n < size)
  BY <1>1, Zenon
<1>11. ~faulty' => \A l \in IdsIn(buffer_) \cup (lines + 1)..lines' : l \in Held(f \o g)
  BY <1>1, <1>3, <1>6, <1>8, <1>10, IdsSoFar
<1>12. \A l \in onDisk' : l \in onDisk \/ l \in Whole(f \o g)
  BY <1>1, <1>3, <1>8
<1>13. \A l \in IdsIn(f \o g) : l \in IdsIn(latest) \/ l \in IdsIn(buffer_) \/ l \in (lines + 1)..lines'
  BY <1>1, <1>3, <1>5, <1>8, IdsSoFar
<1>14. Whole(latest) \subseteq Whole(f \o g) /\ Held(latest) \subseteq Held(f \o g)
  BY <1>3, <1>8
<1>15. cursor_' \in Nat
  BY <1>1
<1>. QED
  BY <1>1, <1>8, <1>9, <1>10, <1>11, <1>12, <1>13, <1>14, <1>15, SinkMovesLines

LEMMA DestroyStep ==
  ASSUME FileSinkInvariant, NEW n \in 0..cursor_, Destroy(n)
  PROVE  FileSinkInvariant'
<1>1. /\ pc = "up" /\ pc' = "down" /\ fd_' = FALSE /\ lines' = lines
      /\ buffer_' = <<>> /\ cursor_' = 0
      /\ UNCHANGED <<present, archives, copied, first, cut>>
  BY DEF Destroy
<1>2. Packed' /\ buffer_' \in Seq(BufferLine) /\ IdsIncrease(buffer_') /\ IdsIn(buffer_') = {}
  <2>1. DOMAIN <<>> = {}
    OBVIOUS
  <2>. QED
    BY <1>1, <2>1, NoLines, Zenon DEF Packed
<1>3. cursor_' \in Nat /\ (lines + 1)..lines' = {}
  BY <1>1, IdsSoFar
<1>4. CASE fd_
  <2> DEFINE f == latest \o Landed(buffer_, n)
  <2>1. /\ latest' = f /\ onDisk' = onDisk \cup Whole(Landed(buffer_, n))
        /\ faulty' = (faulty \/ n < cursor_)
    BY <1>4 DEF Destroy, WriteBuffer
  <2>2. /\ f \in Seq(FileLine) /\ IdsIncrease(f)
        /\ IdsIn(f) \subseteq IdsIn(latest) \cup IdsIn(buffer_)
        /\ Whole(f) = Whole(latest) \cup Whole(Landed(buffer_, n))
        /\ Held(latest) \subseteq Held(f)
        /\ ~(n < cursor_) => IdsIn(buffer_) \subseteq Held(f)
    BY BufferLands
  <2> HIDE DEF f
  <2>3. faulty' \in BOOLEAN /\ (faulty => faulty') /\ (~faulty' => ~(n < cursor_))
    BY <2>1, Zenon
  <2>4. ~faulty' => \A l \in IdsIn(buffer_) \cup (lines + 1)..lines' : l \in Held(f)
    BY <1>3, <2>2, <2>3
  <2>5. \A l \in onDisk' : l \in onDisk \/ l \in Whole(f)
    BY <2>1, <2>2
  <2>. QED
    BY <1>1, <1>2, <1>3, <1>4, <2>1, <2>2, <2>3, <2>4, <2>5, SinkMovesLines
<1>5. CASE ~fd_
  <2>1. UNCHANGED <<latest, onDisk, faulty>>
    BY <1>5 DEF Destroy, NoWrite
  <2>2. faulty
    BY <1>1, <1>5 DEF FileSinkInvariant, Constructor
  <2>3. latest \in Seq(FileLine) /\ IdsIncrease(latest) /\ faulty \in BOOLEAN
    BY DEF FileSinkInvariant, FileTypes, Ordered
  <2>. QED
    BY <1>1, <1>2, <1>3, <2>1, <2>2, <2>3, SinkMovesLines, Zenon
<1>. QED
  BY <1>4, <1>5

\* The constructor's steps, and the end of the program.
LEMMA CrashStep == ASSUME FileSinkInvariant, Crash PROVE FileSinkInvariant'
<1>1. /\ pc' = "down" /\ copied' = 0 /\ fd_' = FALSE /\ buffer_' = <<>> /\ cursor_' = 0 /\ faulty' = TRUE
      /\ UNCHANGED <<present, latest, archives, lines, first, onDisk, cut>>
  BY DEF Crash, files
<1>2. FileTypes'
  BY <1>1, NoLines DEF FileSinkInvariant, FileTypes
<1>3. Constructor'
  BY <1>1 DEF FileSinkInvariant, Constructor
<1>4. Ordered' /\ Kept' /\ Survive'
  BY <1>1, NoLines DEF FileSinkInvariant, Ordered, Kept, Survive
<1>5. Packed'
  BY <1>1 DEF Packed
<1>. QED
  BY <1>2, <1>3, <1>4, <1>5 DEF FileSinkInvariant

LEMMA ConstructStep ==
  ASSUME FileSinkInvariant, NEW stamp, Construct(stamp)
  PROVE  FileSinkInvariant'
<1>1. /\ pc = "down" /\ first' = lines + 1 /\ faulty' = FALSE
      /\ pc' = "create" \/ pc' = "compress"
      /\ pc' = "compress" => present /\ dest' = FreshName(stamp)
      /\ pc' = "create" => ~present
      /\ UNCHANGED <<present, latest, archives, copied, fd_, buffer_, cursor_, lines, onDisk, cut>>
  BY DEF Construct, files, sink
<1>2. FileTypes'
  <2>1. first' \in Nat /\ first' <= lines' + 1
    BY <1>1 DEF FileSinkInvariant, FileTypes
  <2>2. faulty' \in BOOLEAN
    BY <1>1
  <2>. QED
    BY <1>1, <2>1, <2>2, Zenon DEF FileSinkInvariant, FileTypes
<1>3. FreshName(stamp) \notin DOMAIN archives
  BY NameIsFresh DEF FileSinkInvariant, FileTypes
<1>4. Constructor'
  BY <1>1, <1>3 DEF FileSinkInvariant, Constructor
<1>5. pc' = "create" => IdsIn(latest) = {}
  BY <1>1, NoLines DEF FileSinkInvariant, Constructor
<1>6. IdsIn(buffer_) = {}
  BY <1>1, NoLines DEF FileSinkInvariant, Constructor
<1>7. Ordered'
  BY <1>1, <1>5, <1>6 DEF FileSinkInvariant, Ordered
<1>8. Kept'
  <2>1. first'..lines' = {}
    BY <1>1 DEF FileSinkInvariant, FileTypes
  <2>. QED
    BY <2>1 DEF Kept
<1>9. Packed' /\ Survive'
  BY <1>1 DEF FileSinkInvariant, Packed, Survive
<1>. QED
  BY <1>2, <1>4, <1>7, <1>8, <1>9 DEF FileSinkInvariant

\* One archive is created or filled, with the lines c.
LEMMA ArchiveFilled ==
  ASSUME FileSinkInvariant, NEW c \in Seq(FileLine), IdsIncrease(c),
         DOMAIN archives' = DOMAIN archives \cup {dest}, archives'[dest] = c,
         \A a \in DOMAIN archives : a # dest => archives'[a] = archives[a]
  PROVE  /\ IsFiniteSet(DOMAIN archives')
         /\ \A a \in DOMAIN archives' : archives'[a] \in Seq(FileLine) /\ IdsIncrease(archives'[a])
<1>1. IsFiniteSet(DOMAIN archives')
  BY FS_AddElement DEF FileSinkInvariant, FileTypes
<1>2. ASSUME NEW a \in DOMAIN archives'
      PROVE  archives'[a] \in Seq(FileLine) /\ IdsIncrease(archives'[a])
  BY DEF FileSinkInvariant, FileTypes, Ordered
<1>. QED
  BY <1>1, <1>2

\* While there is no sink yet, only the files and the constructor's own state
\* change.
LEMMA ConstructorMoves ==
  ASSUME FileSinkInvariant, pc \notin {"up", "down"},
         UNCHANGED <<buffer_, cursor_, lines, first, onDisk>>,
         present' \in BOOLEAN, fd_' \in BOOLEAN, faulty' \in BOOLEAN, cut' \in BOOLEAN, copied' \in Nat,
         latest' = latest \/ latest' = <<>>,
         IsFiniteSet(DOMAIN archives'),
         \A a \in DOMAIN archives' : archives'[a] \in Seq(FileLine) /\ IdsIncrease(archives'[a]),
         pc' \in {"create", "open", "up"} /\ ~faulty' => \A l \in IdsIn(latest') : first <= l,
         Constructor', Survive'
  PROVE  FileSinkInvariant'
<1>1. buffer_ = <<>> /\ first = lines + 1 /\ IdsIn(buffer_) = {}
  BY NoLines DEF FileSinkInvariant, Constructor
<1>2. latest' \in Seq(FileLine) /\ IdsIncrease(latest') /\ \A l \in IdsIn(latest') : l <= lines
  BY NoLines DEF FileSinkInvariant, FileTypes, Ordered
<1>3. FileTypes'
  <2>1. /\ buffer_ \in Seq(BufferLine) /\ cursor_ \in Nat /\ lines \in Nat /\ first \in Nat
        /\ first <= lines + 1
    BY DEF FileSinkInvariant, FileTypes
  <2>. QED
    BY <1>2, <2>1, Zenon DEF FileTypes
<1>4. Ordered'
  <2>1. buffer_' = buffer_ /\ lines' = lines /\ first' = first /\ IdsIncrease(buffer_)
    BY DEF FileSinkInvariant, Ordered
  <2>. QED
    BY <1>1, <1>2, <2>1, Zenon DEF Ordered
<1>5. Packed'
  BY DEF FileSinkInvariant, Packed
<1>6. Kept'
  <2>1. first'..lines' = {}
    BY <1>1 DEF FileSinkInvariant, FileTypes
  <2>. QED
    BY <2>1 DEF Kept
<1>. QED
  BY <1>3, <1>4, <1>5, <1>6 DEF FileSinkInvariant

LEMMA CompressOpenStep ==
  ASSUME FileSinkInvariant, NEW ok \in BOOLEAN, CompressOpen(ok)
  PROVE  FileSinkInvariant'
<1>0. /\ pc = "compress" /\ dest \notin DOMAIN archives
      /\ UNCHANGED <<present, latest, copied, fd_, buffer_, cursor_, lines, first, onDisk, cut>>
  BY DEF CompressOpen, sink, FileSinkInvariant, Constructor
<1>1. /\ present \in BOOLEAN /\ fd_ \in BOOLEAN /\ faulty \in BOOLEAN /\ cut \in BOOLEAN /\ copied \in Nat
      /\ latest \in Seq(FileLine)
  BY DEF FileSinkInvariant, FileTypes
<1>2. CASE ok
  <2>1. /\ archives' = [a \in DOMAIN archives \cup {dest} |-> IF a = dest THEN <<>> ELSE archives[a]]
        /\ pc' = "copy" /\ dest' = dest /\ faulty' = faulty
    BY <1>2 DEF CompressOpen
  <2>2. /\ DOMAIN archives' = DOMAIN archives \cup {dest} /\ archives'[dest] = <<>>
        /\ \A a \in DOMAIN archives : a # dest => archives'[a] = archives[a]
    BY <2>1
  <2>3. /\ IsFiniteSet(DOMAIN archives')
        /\ \A a \in DOMAIN archives' : archives'[a] \in Seq(FileLine) /\ IdsIncrease(archives'[a])
    BY <2>2, ArchiveFilled, NoLines
  <2>4. copied = 0 /\ SubSeq(latest, 1, 0) = <<>> /\ 0 <= Len(latest)
    BY <1>0, <1>1 DEF FileSinkInvariant, Constructor
  <2>5. Constructor'
    BY <1>0, <2>1, <2>2, <2>4 DEF FileSinkInvariant, Constructor
  <2>6. Survive'
    BY <1>0, <2>2 DEF FileSinkInvariant, Survive
  <2>. QED
    BY <1>0, <1>1, <2>1, <2>3, <2>5, <2>6, ConstructorMoves
<1>3. CASE ~ok
  <2>1. pc' = "create" /\ faulty' = TRUE /\ archives' = archives
    BY <1>3 DEF CompressOpen
  <2>2. Constructor' /\ Survive'
    BY <1>0, <2>1 DEF FileSinkInvariant, Constructor, Survive
  <2>3. /\ IsFiniteSet(DOMAIN archives)
        /\ \A a \in DOMAIN archives : archives[a] \in Seq(FileLine) /\ IdsIncrease(archives[a])
    BY DEF FileSinkInvariant, FileTypes, Ordered
  <2>. QED
    BY <1>0, <1>1, <2>1, <2>2, <2>3, ConstructorMoves
<1>. QED
  BY <1>2, <1>3

LEMMA CompressCopyStep ==
  ASSUME FileSinkInvariant, NEW ok \in BOOLEAN, CompressCopy(ok)
  PROVE  FileSinkInvariant'
<1>0. /\ pc = "copy" /\ dest \in DOMAIN archives /\ copied < Len(latest)
      /\ archives[dest] = SubSeq(latest, 1, copied)
      /\ UNCHANGED <<present, latest, fd_, buffer_, cursor_, lines, first, onDisk, cut>>
  BY DEF CompressCopy, sink, FileSinkInvariant, Constructor
<1>1. /\ present \in BOOLEAN /\ fd_ \in BOOLEAN /\ faulty \in BOOLEAN /\ cut \in BOOLEAN /\ copied \in Nat
      /\ latest \in Seq(FileLine) /\ IdsIncrease(latest)
  BY DEF FileSinkInvariant, FileTypes, Ordered
<1>2. CASE ok
  <2>1. PICK k \in (copied + 1)..Len(latest) :
          copied' = k /\ archives' = [archives EXCEPT ![dest] = SubSeq(latest, 1, k)]
    BY <1>2 DEF CompressCopy
  <2>2. pc' = "copy" /\ dest' = dest /\ faulty' = faulty
    BY <1>0, <1>2 DEF CompressCopy
  <2>3. k \in 0..Len(latest) /\ k \in Nat /\ k <= Len(latest) /\ copied \in 0..Len(latest)
    BY <1>0, <1>1
  <2>4. SubSeq(latest, 1, k) \in Seq(FileLine) /\ IdsIncrease(SubSeq(latest, 1, k))
    BY <1>1, <2>3, PrefixLines
  <2> DEFINE c == SubSeq(latest, 1, k)
  <2>5. /\ DOMAIN archives' = DOMAIN archives \cup {dest} /\ archives'[dest] = c
        /\ \A a \in DOMAIN archives : a # dest => archives'[a] = archives[a]
    <3> HIDE DEF c
    <3>1. archives' = [archives EXCEPT ![dest] = c]
      BY <2>1 DEF c
    <3>. QED
      BY <1>0, <3>1
  <2>6. /\ IsFiniteSet(DOMAIN archives')
        /\ \A a \in DOMAIN archives' : archives'[a] \in Seq(FileLine) /\ IdsIncrease(archives'[a])
    BY <2>4, <2>5, ArchiveFilled
  <2>7. Constructor'
    BY <1>0, <2>1, <2>2, <2>3, <2>5 DEF FileSinkInvariant, Constructor
  <2>8. Survive'
    <3>1. Whole(archives[dest]) \subseteq Whole(latest)
      BY <1>0, <1>1, <2>3, PrefixLines
    <3>. QED
      BY <1>0, <2>5, <3>1 DEF FileSinkInvariant, Survive
  <2>. QED
    BY <1>0, <1>1, <2>1, <2>2, <2>3, <2>6, <2>7, <2>8, ConstructorMoves
<1>3. CASE ~ok
  <2>1. pc' = "create" /\ faulty' = TRUE /\ archives' = archives /\ copied' = 0
    BY <1>3 DEF CompressCopy
  <2>2. Constructor' /\ Survive'
    BY <1>0, <2>1 DEF FileSinkInvariant, Constructor, Survive
  <2>3. /\ IsFiniteSet(DOMAIN archives)
        /\ \A a \in DOMAIN archives : archives[a] \in Seq(FileLine) /\ IdsIncrease(archives[a])
    BY DEF FileSinkInvariant, FileTypes, Ordered
  <2>. QED
    BY <1>0, <1>1, <2>1, <2>2, <2>3, ConstructorMoves
<1>. QED
  BY <1>2, <1>3

LEMMA CompressRemoveStep ==
  ASSUME FileSinkInvariant, NEW ok \in BOOLEAN, CompressRemove(ok)
  PROVE  FileSinkInvariant'
<1>0. /\ pc = "copy" /\ dest \in DOMAIN archives /\ copied = Len(latest)
      /\ archives[dest] = SubSeq(latest, 1, copied)
      /\ faulty' = ~ok /\ pc' = "create" /\ copied' = 0
      /\ UNCHANGED <<archives, fd_, buffer_, cursor_, lines, first, onDisk, cut>>
  BY DEF CompressRemove, sink, FileSinkInvariant, Constructor
<1>1. /\ present \in BOOLEAN /\ fd_ \in BOOLEAN /\ cut \in BOOLEAN /\ copied \in Nat
      /\ latest \in Seq(FileLine) /\ IsFiniteSet(DOMAIN archives)
      /\ \A a \in DOMAIN archives : archives[a] \in Seq(FileLine) /\ IdsIncrease(archives[a])
  BY DEF FileSinkInvariant, FileTypes, Ordered
<1>2. archives[dest] = latest
  BY <1>0, <1>1
<1>3. CASE ok
  <2>1. present' = FALSE /\ latest' = <<>> /\ faulty' = FALSE
    BY <1>0, <1>3 DEF CompressRemove
  <2>2. Constructor'
    BY <1>0, <2>1 DEF FileSinkInvariant, Constructor
  <2>3. Survive'
    BY <1>0, <1>2 DEF FileSinkInvariant, Survive
  <2>4. IdsIn(latest') = {}
    BY <2>1, NoLines
  <2>. QED
    BY <1>0, <1>1, <2>1, <2>2, <2>3, <2>4, ConstructorMoves
<1>4. CASE ~ok
  <2>1. UNCHANGED <<present, latest>> /\ faulty' = TRUE
    BY <1>0, <1>4 DEF CompressRemove
  <2>2. Constructor' /\ Survive'
    BY <1>0, <2>1 DEF FileSinkInvariant, Constructor, Survive
  <2>. QED
    BY <1>0, <1>1, <2>1, <2>2, ConstructorMoves
<1>. QED
  BY <1>3, <1>4

LEMMA CompressCutStep ==
  ASSUME FileSinkInvariant, NEW k \in 0..copied, CompressCut(k)
  PROVE  FileSinkInvariant'
<1>0. /\ pc = "copy" /\ dest \in DOMAIN archives /\ k < Len(latest)
      /\ archives' = [archives EXCEPT ![dest] = SubSeq(latest, 1, k)]
      /\ present' = FALSE /\ latest' = <<>> /\ faulty' = TRUE /\ cut' = TRUE /\ pc' = "create" /\ copied' = 0
      /\ UNCHANGED <<fd_, buffer_, cursor_, lines, first, onDisk>>
  BY DEF CompressCut, sink, FileSinkInvariant, Constructor
<1>1. fd_ \in BOOLEAN /\ latest \in Seq(FileLine) /\ IdsIncrease(latest) /\ copied \in Nat
  BY DEF FileSinkInvariant, FileTypes, Ordered
<1> DEFINE c == SubSeq(latest, 1, k)
<1>2. c \in Seq(FileLine) /\ IdsIncrease(c)
  <2>1. k \in 0..Len(latest)
    BY <1>0, <1>1
  <2>. QED
    BY <1>1, <2>1, PrefixLines
<1>3. archives' = [archives EXCEPT ![dest] = c]
  BY <1>0
<1> HIDE DEF c
<1>4. /\ DOMAIN archives' = DOMAIN archives \cup {dest} /\ archives'[dest] = c
      /\ \A a \in DOMAIN archives : a # dest => archives'[a] = archives[a]
  BY <1>0, <1>3
<1>5. /\ IsFiniteSet(DOMAIN archives')
      /\ \A a \in DOMAIN archives' : archives'[a] \in Seq(FileLine) /\ IdsIncrease(archives'[a])
  BY <1>2, <1>4, ArchiveFilled
<1>6. Constructor' /\ Survive'
  BY <1>0 DEF FileSinkInvariant, Constructor, Survive
<1>. QED
  BY <1>0, <1>1, <1>5, <1>6, ConstructorMoves

LEMMA OpenStep ==
  ASSUME FileSinkInvariant, NEW ok \in BOOLEAN, CreateFile(ok) \/ OpenFile(ok)
  PROVE  FileSinkInvariant'
<1>0. /\ \/ pc = "create" /\ pc' = "open" /\ fd_' = fd_
         \/ pc = "open" /\ pc' = "up" /\ fd_' = ok
      /\ present' = (present \/ ok) /\ faulty' = (faulty \/ ~ok)
      /\ UNCHANGED <<latest, archives, copied, buffer_, cursor_, lines, first, onDisk, cut>>
  BY Zenon DEF CreateFile, OpenFile, sink
<1>1. /\ present \in BOOLEAN /\ fd_ \in BOOLEAN /\ faulty \in BOOLEAN /\ cut \in BOOLEAN /\ copied \in Nat
      /\ IsFiniteSet(DOMAIN archives)
      /\ \A a \in DOMAIN archives : archives[a] \in Seq(FileLine) /\ IdsIncrease(archives[a])
  BY DEF FileSinkInvariant, FileTypes, Ordered
<1>2. present' \in BOOLEAN /\ faulty' \in BOOLEAN /\ fd_' \in BOOLEAN
  BY <1>0, <1>1, Zenon
<1>3. Constructor'
  <2>1. /\ ~present' => ~present /\ ~ok
        /\ ~ok => faulty'
    BY <1>0, Zenon
  <2>2. CASE pc = "create" /\ pc' = "open" /\ fd_' = fd_
    BY <1>0, <2>1, <2>2 DEF FileSinkInvariant, Constructor
  <2>3. CASE pc = "open" /\ pc' = "up" /\ fd_' = ok
    BY <1>0, <2>1, <2>3 DEF FileSinkInvariant, Constructor
  <2>. QED
    BY <1>0, <2>2, <2>3, Zenon
<1>4. Survive'
  BY <1>0 DEF FileSinkInvariant, Survive
<1>5. ~faulty' => \A l \in IdsIn(latest') : first <= l
  BY <1>0 DEF FileSinkInvariant, Ordered
<1>. QED
  BY <1>0, <1>1, <1>2, <1>3, <1>4, <1>5, ConstructorMoves

\* The inductive invariant holds for lines and buffers of any size, any number
\* of runs and archives, and whatever fails.
THEOREM FileSinkInvariance == FileSinkSpec => []FileSinkInvariant
<1>1. FileSinkInvariant /\ [FileSinkNext]_fileSinkVars => FileSinkInvariant'
  <2> SUFFICES ASSUME FileSinkInvariant, [FileSinkNext]_fileSinkVars PROVE FileSinkInvariant'
    OBVIOUS
  <2>1. CASE FileSinkOver \/ UNCHANGED fileSinkVars
    BY <2>1, SMTT(30) DEF FileSinkOver, fileSinkVars, files, sink, ghosts, FileSinkInvariant, FileTypes,
       Constructor, Ordered, Packed, Kept, Survive
  <2>2. CASE FileSinkNext /\ ~FileSinkOver
    BY <2>2, ConstructStep, CompressOpenStep, CompressCopyStep, CompressRemoveStep, CompressCutStep,
       OpenStep, BufferedStep, DroppedStep, FlushedStep, DirectStep, DestroyStep, CrashStep, Zenon
       DEF FileSinkNext
  <2>. QED
    BY <2>1, <2>2
<1>2. QED
  BY InitFileSink, <1>1, PTL DEF FileSinkSpec

\* The lines of every file are in the order they were logged, none twice.
THEOREM FilesAreOrdered == FileSinkSpec => []LinesInOrder
<1>1. FileSinkInvariant => LinesInOrder
  BY DEF FileSinkInvariant, Ordered, LinesInOrder, Files, IdsIncrease
<1>2. QED
  BY <1>1, FileSinkInvariance, PTL

\* What a write put whole into the file stays whole in it or in an archive.
THEOREM WrittenStays == FileSinkSpec => []WrittenLinesSurvive
<1>1. FileSinkInvariant => WrittenLinesSurvive
  <2> SUFFICES ASSUME FileSinkInvariant, ~cut, NEW l \in onDisk
               PROVE  l \in UNION {Whole(f) : f \in Files}
    BY DEF WrittenLinesSurvive
  <2>1. l \in Whole(latest) \/ \E a \in DOMAIN archives : l \in Whole(archives[a])
    BY DEF FileSinkInvariant, Survive
  <2>. QED
    BY <2>1 DEF Files
<1>2. QED
  BY <1>1, FileSinkInvariance, PTL

\* Without a failure, every line of this run is in the file or in the buffer.
THEOREM FaultlessKeepsAll == FileSinkSpec => []NothingLostUnlessFaulty
<1>1. FileSinkInvariant => NothingLostUnlessFaulty
  BY DEF FileSinkInvariant, Kept, Held, IdsIn, NothingLostUnlessFaulty
<1>2. QED
  BY <1>1, FileSinkInvariance, PTL

\* After a constructor without a failure latest.log has this run's lines only.
THEOREM RotationSeparates == FileSinkSpec => []RotationSeparatesRuns
<1>1. FileSinkInvariant => RotationSeparatesRuns
  <2> SUFFICES ASSUME FileSinkInvariant, pc = "up", ~faulty, NEW i \in DOMAIN latest
               PROVE  latest[i].id >= first
    BY DEF RotationSeparatesRuns
  <2>1. latest[i].id \in IdsIn(latest)
    BY DEF IdsIn
  <2>2. first <= latest[i].id
    BY <2>1 DEF FileSinkInvariant, Ordered
  <2>. QED
    BY <2>2
<1>2. QED
  BY <1>1, FileSinkInvariance, PTL
-----------------------------------------------------------------------------
(* How often a byte occurs *)

Places(f, b) == {i \in DOMAIN f : f[i] = b}
Count(f, b) == Cardinality(Places(f, b))

LEMMA PlacesFinite ==
  ASSUME NEW S, NEW f \in Seq(S), NEW b
  PROVE  IsFiniteSet(Places(f, b)) /\ Count(f, b) \in Nat
<1>1. DOMAIN f = 1..Len(f) /\ Len(f) \in Nat
  OBVIOUS
<1>2. IsFiniteSet(DOMAIN f)
  BY <1>1, FS_Interval
<1>3. Places(f, b) \in SUBSET (DOMAIN f)
  BY DEF Places
<1>. QED
  BY <1>2, <1>3, FS_Subset, FS_CardinalityType DEF Count

LEMMA Shifted ==
  ASSUME NEW A \in SUBSET Int, IsFiniteSet(A), NEW k \in Int
  PROVE  IsFiniteSet({a + k : a \in A}) /\ Cardinality({a + k : a \in A}) = Cardinality(A)
<1> DEFINE B == {a + k : a \in A}
           h == [a \in A |-> a + k]
<1>1. h \in [A -> B]
  OBVIOUS
<1>2. \A x, y \in A : h[x] = h[y] => x = y
  OBVIOUS
<1>3. \A b \in B : \E a \in A : h[a] = b
  OBVIOUS
<1> HIDE DEF B, h
<1>4. h \in Injection(A, B)
  BY <1>1, <1>2 DEF Injection, IsInjective
<1>5. h \in Surjection(A, B)
  BY <1>1, <1>3 DEF Surjection
<1>6. ExistsBijection(A, B)
  BY <1>4, <1>5 DEF ExistsBijection, Bijection
<1>7. IsFiniteSet(B) /\ Cardinality(B) = Cardinality(A)
  BY <1>6, FS_Bijection
<1>. QED
  BY <1>7 DEF B

LEMMA CountJoined ==
  ASSUME NEW S, NEW f \in Seq(S), NEW g \in Seq(S), NEW b
  PROVE  Count(f \o g, b) = Count(f, b) + Count(g, b)
<1> DEFINE A == Places(f, b)
           B == {i + Len(f) : i \in Places(g, b)}
<1>1. /\ Len(f) \in Nat /\ Len(g) \in Nat /\ DOMAIN f = 1..Len(f) /\ DOMAIN g = 1..Len(g)
      /\ DOMAIN (f \o g) = 1..(Len(f) + Len(g))
  OBVIOUS
<1>2. IsFiniteSet(A) /\ IsFiniteSet(Places(g, b)) /\ Count(f, b) \in Nat /\ Count(g, b) \in Nat
  BY PlacesFinite
<1>3. IsFiniteSet(B) /\ Cardinality(B) = Count(g, b)
  <2> DEFINE P == Places(g, b)
             k == Len(f)
  <2>1. P \in SUBSET Int /\ k \in Int
    BY <1>1 DEF Places
  <2>2. IsFiniteSet(P) /\ Count(g, b) = Cardinality(P) /\ B = {a + k : a \in P}
    BY <1>2 DEF Count
  <2> HIDE DEF P, k, B
  <2>3. IsFiniteSet({a + k : a \in P}) /\ Cardinality({a + k : a \in P}) = Cardinality(P)
    BY <2>1, <2>2, Shifted
  <2>. QED
    BY <2>2, <2>3, Zenon
<1>4. A \cap B = {}
  BY <1>1 DEF Places
<1>5. Places(f \o g, b) = A \cup B
  <2>1. ASSUME NEW i \in Places(f \o g, b) PROVE i \in A \cup B
    <3>1. i \in 1..(Len(f) + Len(g)) /\ (f \o g)[i] = b
      BY <1>1 DEF Places
    <3>2. CASE i <= Len(f)
      <4>1. i \in DOMAIN f /\ f[i] = b
        BY <1>1, <3>1, <3>2
      <4>. QED
        BY <4>1 DEF Places
    <3>3. CASE ~(i <= Len(f))
      <4>1. i - Len(f) \in DOMAIN g /\ g[i - Len(f)] = b
        BY <1>1, <3>1, <3>3
      <4>2. i = (i - Len(f)) + Len(f) /\ i - Len(f) \in Places(g, b)
        BY <1>1, <3>1, <4>1 DEF Places
      <4>. QED
        BY <4>2
    <3>. QED
      BY <3>2, <3>3
  <2>2. ASSUME NEW i \in A PROVE i \in Places(f \o g, b)
    <3>1. i \in DOMAIN f /\ f[i] = b
      BY DEF Places
    <3>2. i \in DOMAIN (f \o g) /\ (f \o g)[i] = f[i]
      BY <1>1, <3>1
    <3>. QED
      BY <3>1, <3>2 DEF Places
  <2>3. ASSUME NEW j \in Places(g, b) PROVE j + Len(f) \in Places(f \o g, b)
    <3>1. j \in DOMAIN g /\ g[j] = b
      BY DEF Places
    <3>2. j + Len(f) \in DOMAIN (f \o g) /\ (f \o g)[j + Len(f)] = g[j]
      BY <1>1, <3>1
    <3>. QED
      BY <3>1, <3>2 DEF Places
  <2>. QED
    BY <2>1, <2>2, <2>3
<1> HIDE DEF A, B
<1>6. Cardinality(A \cup B) = Cardinality(A) + Cardinality(B) - Cardinality(A \cap B)
  BY <1>2, <1>3, FS_Union DEF A
<1>7. Cardinality(A \cap B) = 0
  BY <1>4, FS_EmptySet
<1>. QED
  BY <1>2, <1>3, <1>5, <1>6, <1>7 DEF Count, A

Repeated(c, n) == [i \in 1..n |-> c]

LEMMA CountRepeated ==
  ASSUME NEW n \in Nat, NEW c, NEW b
  PROVE  Count(Repeated(c, n), b) = IF b = c THEN n ELSE 0
<1> DEFINE f == Repeated(c, n)
<1>1. CASE b = c
  <2>1. Places(f, b) = 1..n
    BY <1>1 DEF Places, Repeated
  <2>2. Cardinality(1..n) = n
    BY FS_Interval
  <2>. QED
    BY <1>1, <2>1, <2>2 DEF Count
<1>2. CASE b # c
  <2>1. Places(f, b) = {}
    BY <1>2 DEF Places, Repeated
  <2>. QED
    BY <1>2, <2>1, FS_EmptySet DEF Count
<1>. QED
  BY <1>1, <1>2

LEMMA CountAppended ==
  ASSUME NEW S, NEW f \in Seq(S), NEW x \in S, NEW b
  PROVE  Count(Append(f, x), b) = Count(f, b) + (IF b = x THEN 1 ELSE 0)
<1> DEFINE g == Repeated(x, 1)
<1>1. Append(f, x) = f \o g /\ g \in Seq(S)
  BY DEF Repeated
<1>2. Count(g, b) = IF b = x THEN 1 ELSE 0
  BY CountRepeated
<1> HIDE DEF g
<1>3. Count(f \o g, b) = Count(f, b) + Count(g, b)
  BY <1>1, CountJoined
<1>. QED
  BY <1>1, <1>2, <1>3

LEMMA CountTail ==
  ASSUME NEW S, NEW f \in Seq(S), f # <<>>, NEW b
  PROVE  Count(f, b) = (IF b = Head(f) THEN 1 ELSE 0) + Count(Tail(f), b)
<1> DEFINE g == Repeated(Head(f), 1)
<1>1. f = g \o Tail(f) /\ g \in Seq(S) /\ Tail(f) \in Seq(S)
  BY DEF Repeated
<1>2. Count(g, b) = IF b = Head(f) THEN 1 ELSE 0
  BY CountRepeated
<1> HIDE DEF g
<1>3. Count(g \o Tail(f), b) = Count(g, b) + Count(Tail(f), b)
  BY <1>1, CountJoined
<1>. QED
  BY <1>1, <1>2, <1>3, Zenon

LEMMA CountNone == \A b : Count(<<>>, b) = 0
<1>1. \A b : Places(<<>>, b) = {}
  BY DEF Places
<1>. QED
  BY <1>1, FS_EmptySet DEF Count
-----------------------------------------------------------------------------
(* StdoutSink's inductive invariant *)

Byte == Sinks \X Nat

\* What a sink is writing, and what it will write after that: its buffer, or
\* the line that goes around the buffer once that is empty.
First(s) == IF todo[s] = <<>> THEN <<>> ELSE todo[s][1]
Rest(s) == IF Len(todo[s]) = 2 THEN todo[s][2] ELSE buffers_[s]
Has(s) == owner[Instantiation(s)] = s

StdoutTypes ==
  /\ buffers_ \in [Sinks -> Seq(Byte)] /\ todo \in [Sinks -> Seq(Seq(Byte))]
  /\ owner \in [BOOLEAN -> Sinks \cup {Nobody}] /\ out \in Seq(Byte)
  /\ state \in [Sinks -> {"up", "down"}]
  /\ lengths \in [Sinks -> Seq(Nat)] /\ short \in SUBSET Sinks

\* A write around the buffer is the second of two, the buffer's the first.
Writes ==
  \A s \in Sinks : /\ Len(todo[s]) <= 2
                   /\ Len(todo[s]) = 2 => buffers_[s] = <<>>
                   /\ Has(s) => todo[s] # <<>>
                   /\ state[s] = "down" => buffers_[s] = <<>>

\* The bytes f are of s, of its first m lines, and in their order.
Lined(f, s, m) ==
  /\ \A i \in DOMAIN f : f[i][1] = s /\ f[i][2] \in 1..m
  /\ \A i, j \in DOMAIN f : i <= j => f[i][2] <= f[j][2]

\* Where f and g have bytes of one sink, those of f are of earlier lines ...
Before(f, g) == \A i \in DOMAIN f, j \in DOMAIN g : f[i][1] = g[j][1] => f[i][2] < g[j][2]

\* ... or of no later ones.
UpTo(f, g) == \A i \in DOMAIN f, j \in DOMAIN g : f[i][1] = g[j][1] => f[i][2] <= g[j][2]

Queued(s) ==
  /\ Lined(First(s), s, Len(lengths[s])) /\ Lined(Rest(s), s, Len(lengths[s]))
  /\ Before(First(s), Rest(s))

Known(o, s, m) == \A i \in DOMAIN o : o[i][1] = s => o[i][2] <= m

\* What is out is of lines before those in wait; only a sink that has the
\* mutex may be in the middle of a line.
Behind(s) ==
  /\ Known(out, s, Len(lengths[s]))
  /\ UpTo(out, First(s)) /\ Before(out, Rest(s))
  /\ ~Has(s) => Before(out, First(s))

\* Nothing of its instantiation has come after the line of f that is out.
AtEnd(o, f, s) ==
  \A i \in DOMAIN o, j \in DOMAIN f : o[i] = f[j] =>
    \A k \in DOMAIN o : i <= k => o[k] = o[i] \/ Instantiation(o[k][1]) # Instantiation(s)

Unbroken(s) == Has(s) => AtEnd(out, First(s), s)

Adds(o, f, r, s, ls) ==
  \A l \in DOMAIN ls : Count(o, <<s, l>>) + Count(f, <<s, l>>) + Count(r, <<s, l>>) = ls[l]

\* Every byte is out or in wait.
Conserved(s) == s \notin short => Adds(out, First(s), Rest(s), s, lengths[s])

SinkOK(s) == Queued(s) /\ Behind(s) /\ Unbroken(s) /\ Conserved(s)

StdoutInvariant ==
  /\ StdoutTypes /\ Writes /\ \A s \in Sinks : SinkOK(s)
  /\ StdoutLinesIntact /\ OverrunAtMostOne

LEMMA OwnerSet ==
  ASSUME StdoutTypes, NEW s \in Sinks, NEW x, owner' = [owner EXCEPT ![Instantiation(s)] = x], NEW t \in Sinks
  PROVE  owner'[Instantiation(t)] = IF Instantiation(t) = Instantiation(s) THEN x ELSE owner[Instantiation(t)]
<1> DEFINE B == BOOLEAN
           V == Sinks \cup {Nobody}
           i == Instantiation(s)
           j == Instantiation(t)
<1>1. owner \in [B -> V]
  BY Zenon DEF StdoutTypes
<1>2. i \in B /\ j \in B
  <2>1. Instantiation(s) = TRUE \/ Instantiation(s) = FALSE
    BY DEF Instantiation
  <2>2. Instantiation(t) = TRUE \/ Instantiation(t) = FALSE
    BY DEF Instantiation
  <2>. QED
    BY <2>1, <2>2, Zenon
<1> HIDE DEF B, V, i, j
<1>3. owner'[j] = IF j = i THEN x ELSE owner[j]
  <2>1. owner' = [owner EXCEPT ![i] = x]
    BY Zenon DEF i
  <2>. QED
    BY <1>1, <1>2, <2>1
<1>. QED
  BY <1>3, Zenon DEF i, j

LEMMA LineFacts ==
  ASSUME StdoutTypes, NEW s \in Sinks, NEW n \in Nat
  PROVE  /\ StdoutLine(s, n) = Repeated(<<s, Len(lengths[s]) + 1>>, n)
         /\ StdoutLine(s, n) \in Seq(Byte) /\ Len(StdoutLine(s, n)) = n
<1> DEFINE b == <<s, Len(lengths[s]) + 1>>
<1>1. b \in Byte
  <2>1. Len(lengths[s]) + 1 \in Nat
    BY DEF StdoutTypes
  <2>. QED
    BY <2>1 DEF Byte
<1>2. StdoutLine(s, n) = Repeated(b, n)
  BY DEF StdoutLine, Repeated
<1> HIDE DEF b
<1>3. Repeated(b, n) \in Seq(Byte) /\ Len(Repeated(b, n)) = n
  BY <1>1 DEF Repeated
<1>. QED
  BY <1>2, <1>3 DEF b

LEMMA LogIn ==
  ASSUME StdoutTypes, Writes, OverrunAtMostOne, NEW s \in Sinks, NEW raw \in BOOLEAN, NEW len \in Contents,
         StdoutBuffered(s, raw, len) \/ StdoutFlushed(s, raw, len) \/ StdoutDirect(s, raw, len)
  PROVE  StdoutTypes' /\ Writes' /\ OverrunAtMostOne'
<1> DEFINE n == build_message(s, raw, len)
           L == StdoutLine(s, n)
<1>1. n \in Nat /\ len \in Nat /\ estimate_length(s, len) \in Nat
      /\ n <= estimate_length(s, len) + (IF s \in ColourSinks THEN 1 ELSE 0)
  BY StdoutConstants DEF build_message, estimate_length
<1>2. L \in Seq(Byte) /\ Len(L) = n
  BY <1>1, LineFacts
<1>3. /\ todo[s] = <<>> /\ state[s] = "up" /\ lengths' = [lengths EXCEPT ![s] = Append(@, n)]
      /\ UNCHANGED <<owner, out, state, dead, short>>
  BY Zenon DEF StdoutBuffered, StdoutFlushed, StdoutDirect, Logs, MayLog
<1>4. /\ buffers_ \in [Sinks -> Seq(Byte)] /\ todo \in [Sinks -> Seq(Seq(Byte))]
      /\ buffers_[s] \in Seq(Byte) /\ Flush(s) \in Seq(Seq(Byte)) /\ Len(Flush(s)) <= 1
  BY DEF StdoutTypes, Flush
<1> HIDE DEF n, L
<1>5. /\ StdoutBuffered(s, raw, len) => /\ Len(buffers_[s]) + estimate_length(s, len) <= StdoutCapacity
                                        /\ todo' = todo /\ buffers_' = [buffers_ EXCEPT ![s] = @ \o L]
      /\ StdoutFlushed(s, raw, len) => /\ estimate_length(s, len) <= StdoutCapacity
                                       /\ todo' = [todo EXCEPT ![s] = Flush(s)]
                                       /\ buffers_' = [buffers_ EXCEPT ![s] = L]
      /\ StdoutDirect(s, raw, len) => /\ todo' = [todo EXCEPT ![s] = Flush(s) \o <<L>>]
                                      /\ buffers_' = [buffers_ EXCEPT ![s] = <<>>]
  BY DEF StdoutBuffered, StdoutFlushed, StdoutDirect, StdoutFits, Cursor, n, L
<1>6. lengths' \in [Sinks -> Seq(Nat)]
  BY <1>1, <1>3 DEF StdoutTypes
<1>7. buffers_' \in [Sinks -> Seq(Byte)] /\ todo' \in [Sinks -> Seq(Seq(Byte))]
  <2>1. CASE StdoutBuffered(s, raw, len)
    <3>1. buffers_[s] \o L \in Seq(Byte)
      BY <1>2, <1>4
    <3>. QED
      BY <1>4, <1>5, <2>1, <3>1
  <2>2. CASE StdoutFlushed(s, raw, len)
    BY <1>2, <1>4, <1>5, <2>2
  <2>3. CASE StdoutDirect(s, raw, len)
    <3> DEFINE v == Flush(s) \o <<L>>
    <3>1. v \in Seq(Seq(Byte)) /\ <<>> \in Seq(Byte)
      BY <1>2, <1>4
    <3>2. todo' = [todo EXCEPT ![s] = v] /\ buffers_' = [buffers_ EXCEPT ![s] = <<>>]
      BY <1>5, <2>3
    <3> HIDE DEF v
    <3>. QED
      BY <1>4, <3>1, <3>2
  <2>. QED
    BY <2>1, <2>2, <2>3
<1>8. StdoutTypes'
  BY <1>3, <1>6, <1>7, Zenon DEF StdoutTypes
<1>9. Writes'
  <2> SUFFICES ASSUME NEW t \in Sinks
               PROVE  /\ Len(todo'[t]) <= 2
                      /\ Len(todo'[t]) = 2 => buffers_'[t] = <<>>
                      /\ Has(t)' => todo'[t] # <<>>
                      /\ state'[t] = "down" => buffers_'[t] = <<>>
    BY Zenon DEF Writes
  <2>1. CASE t # s
    <3>1. todo'[t] = todo[t] /\ buffers_'[t] = buffers_[t]
      BY <1>5, <2>1 DEF StdoutTypes
    <3>. QED
      BY <1>3, <3>1, Zenon DEF Writes, Has
  <2>2. CASE t = s
    <3>1. ~Has(s) /\ state'[s] = "up"
      BY <1>3, Zenon DEF Writes
    <3>2. ~Has(s)'
      BY <1>3, <3>1, Zenon DEF Has
    <3>3. Len(todo'[s]) <= 2 /\ (Len(todo'[s]) = 2 => buffers_'[s] = <<>>)
      <4>1. CASE StdoutBuffered(s, raw, len)
        BY <1>3, <1>4, <1>5, <4>1
      <4>2. CASE StdoutFlushed(s, raw, len)
        <5>1. todo'[s] = Flush(s) /\ Len(Flush(s)) \in Nat
          BY <1>4, <1>5, <4>2
        <5>2. Len(todo'[s]) <= 2 /\ Len(todo'[s]) # 2
          <6> DEFINE c == Len(Flush(s))
          <6>1. Len(todo'[s]) = c /\ c \in Nat /\ c <= 1
            BY <1>4, <5>1, Zenon
          <6> HIDE DEF c
          <6>. QED
            BY <6>1
        <5>. QED
          BY <5>2, Zenon
      <4>3. CASE StdoutDirect(s, raw, len)
        BY <1>2, <1>4, <1>5, <4>3
      <4>. QED
        BY <4>1, <4>2, <4>3
    <3>. QED
      BY <2>2, <3>1, <3>2, <3>3
  <2>. QED
    BY <2>1, <2>2
<1>10. OverrunAtMostOne'
  <2> SUFFICES ASSUME NEW t \in Sinks
               PROVE  Len(buffers_'[t]) <= StdoutCapacity + (IF t \in ColourSinks THEN 1 ELSE 0)
    BY DEF OverrunAtMostOne, Cursor
  <2>1. CASE t # s
    BY <1>5, <2>1 DEF OverrunAtMostOne, Cursor, StdoutTypes
  <2>2. CASE t = s
    BY <1>1, <1>2, <1>4, <1>5, <2>2, StdoutConstants DEF StdoutTypes
  <2>. QED
    BY <2>1, <2>2
<1>. QED
  BY <1>8, <1>9, <1>10

LEMMA StdoutTypesStep ==
  ASSUME StdoutTypes, Writes, OverrunAtMostOne, StdoutNext
  PROVE  StdoutTypes' /\ Writes' /\ OverrunAtMostOne'
<1>1. ASSUME NEW s \in Sinks, StdoutDestroy(s) PROVE StdoutTypes' /\ Writes' /\ OverrunAtMostOne'
  <2>1. /\ todo[s] = <<>> /\ state' = [state EXCEPT ![s] = "down"]
        /\ todo' = [todo EXCEPT ![s] = Flush(s)] /\ buffers_' = [buffers_ EXCEPT ![s] = <<>>]
        /\ UNCHANGED <<owner, out, dead, lengths, short>>
    BY <1>1, Zenon DEF StdoutDestroy, stdoutGhosts
  <2>2. /\ buffers_ \in [Sinks -> Seq(Byte)] /\ todo \in [Sinks -> Seq(Seq(Byte))]
        /\ state \in [Sinks -> {"up", "down"}]
        /\ Flush(s) \in Seq(Seq(Byte)) /\ Len(Flush(s)) <= 1 /\ Len(Flush(s)) \in Nat /\ <<>> \in Seq(Byte)
    BY DEF StdoutTypes, Flush
  <2>3. /\ buffers_' \in [Sinks -> Seq(Byte)] /\ todo' \in [Sinks -> Seq(Seq(Byte))]
        /\ state' \in [Sinks -> {"up", "down"}]
    BY <2>1, <2>2
  <2>4. StdoutTypes'
    BY <2>1, <2>3, Zenon DEF StdoutTypes
  <2>5. ASSUME NEW t \in Sinks
        PROVE  /\ Len(todo'[t]) <= 2
               /\ Len(todo'[t]) = 2 => buffers_'[t] = <<>>
               /\ Has(t)' => todo'[t] # <<>>
               /\ state'[t] = "down" => buffers_'[t] = <<>>
               /\ buffers_'[t] = buffers_[t] \/ buffers_'[t] = <<>>
    <3>1. CASE t # s
      <4>1. todo'[t] = todo[t] /\ buffers_'[t] = buffers_[t] /\ state'[t] = state[t]
        BY <2>1, <2>2, <3>1
      <4>. QED
        BY <2>1, <4>1, Zenon DEF Writes, Has
    <3>2. CASE t = s
      <4>1. todo'[s] = Flush(s) /\ buffers_'[s] = <<>>
        BY <2>1, <2>2
      <4>2. ~Has(s)
        BY <2>1, Zenon DEF Writes
      <4>3. ~Has(s)'
        BY <2>1, <4>2, Zenon DEF Has
      <4>4. Len(todo'[s]) <= 2
        BY <2>2, <4>1
      <4>. QED
        BY <3>2, <4>1, <4>3, <4>4, Zenon
    <3>. QED
      BY <3>1, <3>2
  <2>6. OverrunAtMostOne'
    <3>1. ASSUME NEW t \in Sinks
          PROVE  Len(buffers_'[t]) <= StdoutCapacity + (IF t \in ColourSinks THEN 1 ELSE 0)
      BY <2>2, <2>5, StdoutConstants DEF OverrunAtMostOne, Cursor
    <3>. QED
      BY <3>1, Zenon DEF OverrunAtMostOne, Cursor
  <2>. QED
    BY <2>4, <2>5, <2>6, Zenon DEF Writes
<1>2. ASSUME NEW s \in Sinks, Lock(s) PROVE StdoutTypes' /\ Writes' /\ OverrunAtMostOne'
  <2>1. /\ todo[s] # <<>> /\ owner' = [owner EXCEPT ![Instantiation(s)] = s]
        /\ owner[Instantiation(s)] = Nobody
        /\ UNCHANGED <<buffers_, todo, out, state, dead, lengths, short>>
    BY <1>2, Zenon DEF Lock, Unlocked, stdoutGhosts
  <2>2. owner' \in [BOOLEAN -> Sinks \cup {Nobody}]
    BY <2>1, Zenon DEF StdoutTypes, Instantiation
  <2>3. StdoutTypes'
    BY <2>1, <2>2, Zenon DEF StdoutTypes
  <2>4. \A t \in Sinks : Has(t)' => Has(t) \/ t = s
    <3>1. \A t \in Sinks : owner'[Instantiation(t)] =
            IF Instantiation(t) = Instantiation(s) THEN s ELSE owner[Instantiation(t)]
      BY <2>1, OwnerSet, Zenon
    <3>. QED
      BY <3>1, Zenon DEF Has
  <2>5. Writes'
    BY <2>1, <2>4, Zenon DEF Writes
  <2>6. OverrunAtMostOne'
    BY <2>1, Zenon DEF OverrunAtMostOne, Cursor
  <2>. QED
    BY <2>3, <2>5, <2>6
<1>3. ASSUME NEW s \in Sinks, WriteByte(s) \/ WriteShort(s) PROVE StdoutTypes' /\ Writes' /\ OverrunAtMostOne'
  <2>1. /\ todo[s] # <<>> /\ todo[s][1] # <<>> /\ UNCHANGED <<buffers_, owner, state, dead, lengths>>
    BY <1>3, Zenon DEF WriteByte, WriteShort, Holds, Has, Writes, stdoutGhosts
  <2>2. /\ todo \in [Sinks -> Seq(Seq(Byte))] /\ todo[s] \in Seq(Seq(Byte)) /\ out \in Seq(Byte)
    BY DEF StdoutTypes
  <2>3. todo[s][1] \in Seq(Byte) /\ 1 \in DOMAIN todo[s]
    BY <2>1, <2>2
  <2>4. Tail(todo[s][1]) \in Seq(Byte) /\ <<>> \in Seq(Byte) /\ Append(out, Head(todo[s][1])) \in Seq(Byte)
    BY <2>1, <2>2, <2>3
  <2>5. PICK v \in Seq(Byte) : todo' = [todo EXCEPT ![s] = [todo[s] EXCEPT ![1] = v]]
    <3>1. \/ todo' = [todo EXCEPT ![s][1] = Tail(@)]
          \/ todo' = [todo EXCEPT ![s][1] = <<>>]
      BY <1>3, Zenon DEF WriteByte, WriteShort
    <3>. QED
      BY <2>4, <3>1
  <2>6. out' \in Seq(Byte) /\ short' \in SUBSET Sinks
    <3>1. out' = out \/ out' = Append(out, Head(todo[s][1]))
      BY <1>3, Zenon DEF WriteByte, WriteShort
    <3>2. short' = short \/ short' = short \cup {s}
      BY <1>3, Zenon DEF WriteByte, WriteShort, stdoutGhosts
    <3>3. short \in SUBSET Sinks
      BY DEF StdoutTypes
    <3>4. out' \in Seq(Byte)
      BY <2>2, <2>4, <3>1
    <3>. QED
      BY <3>2, <3>3, <3>4
  <2> DEFINE w == [todo[s] EXCEPT ![1] = v]
  <2>7. w \in Seq(Seq(Byte)) /\ Len(w) = Len(todo[s]) /\ w # <<>>
    BY <2>1, <2>2, <2>3
  <2> HIDE DEF w
  <2>8. todo' \in [Sinks -> Seq(Seq(Byte))] /\ todo'[s] = w /\ (\A t \in Sinks : t # s => todo'[t] = todo[t])
    BY <2>2, <2>5, <2>7 DEF w
  <2>9. StdoutTypes'
    BY <2>1, <2>6, <2>8, Zenon DEF StdoutTypes
  <2>10. ASSUME NEW t \in Sinks
         PROVE  Len(todo'[t]) = Len(todo[t]) /\ (todo[t] # <<>> => todo'[t] # <<>>)
    BY <2>7, <2>8
  <2>11. Writes'
    BY <2>1, <2>10, Zenon DEF Writes, Has
  <2>12. OverrunAtMostOne'
    BY <2>1, Zenon DEF OverrunAtMostOne, Cursor
  <2>. QED
    BY <2>9, <2>11, <2>12
<1>4. ASSUME NEW s \in Sinks, Unlock(s) PROVE StdoutTypes' /\ Writes' /\ OverrunAtMostOne'
  <2>1. /\ todo[s] # <<>> /\ owner' = [owner EXCEPT ![Instantiation(s)] = Nobody]
        /\ todo' = [todo EXCEPT ![s] = Tail(@)]
        /\ UNCHANGED <<buffers_, out, state, dead, lengths, short>>
    BY <1>4, Zenon DEF Unlock, Holds, Has, Writes, stdoutGhosts
  <2>2. owner' \in [BOOLEAN -> Sinks \cup {Nobody}]
    BY <2>1, Zenon DEF StdoutTypes, Instantiation
  <2>3. /\ todo' \in [Sinks -> Seq(Seq(Byte))] /\ todo'[s] = Tail(todo[s])
        /\ \A t \in Sinks : t # s => todo'[t] = todo[t]
    BY <2>1 DEF StdoutTypes
  <2>4. StdoutTypes'
    BY <2>1, <2>2, <2>3, Zenon DEF StdoutTypes
  <2>5. \A t \in Sinks : Has(t)' => Has(t) /\ t # s
    <3>1. \A t \in Sinks : t # Nobody
      BY StdoutConstants
    <3>2. \A t \in Sinks : owner'[Instantiation(t)] =
            IF Instantiation(t) = Instantiation(s) THEN Nobody ELSE owner[Instantiation(t)]
      BY <2>1, OwnerSet, Zenon
    <3>. QED
      BY <3>1, <3>2, Zenon DEF Has
  <2>6. Len(todo[s]) <= 2 /\ todo[s] \in Seq(Seq(Byte))
    BY DEF Writes, StdoutTypes
  <2>7. Len(todo'[s]) <= 2 /\ Len(todo'[s]) # 2
    <3>1. Len(Tail(todo[s])) = Len(todo[s]) - 1 /\ Len(todo[s]) \in Nat
      BY <2>1, <2>6
    <3> DEFINE c == Len(todo[s])
    <3>2. Len(todo'[s]) = c - 1 /\ c \in Nat /\ c <= 2
      BY <2>3, <2>6, <3>1, Zenon
    <3> HIDE DEF c
    <3>. QED
      BY <3>2
  <2>8. Writes'
    BY <2>1, <2>3, <2>5, <2>7, Zenon DEF Writes
  <2>9. OverrunAtMostOne'
    BY <2>1, Zenon DEF OverrunAtMostOne, Cursor
  <2>. QED
    BY <2>4, <2>8, <2>9
<1>5. ASSUME UNCHANGED <<buffers_, todo, owner, out, state, lengths, short>>
      PROVE  StdoutTypes' /\ Writes' /\ OverrunAtMostOne'
  BY <1>5, Zenon DEF StdoutTypes, Writes, Has, OverrunAtMostOne, Cursor
<1>6. ASSUME NEW s \in Sinks, NEW raw \in BOOLEAN, NEW len \in Contents, StdoutSmash(s, raw, len)
      PROVE  UNCHANGED <<buffers_, todo, owner, out, state, lengths, short>>
  BY <1>6, Zenon DEF StdoutSmash, stdoutGhosts
<1>7. StdoutOver => UNCHANGED <<buffers_, todo, owner, out, state, lengths, short>>
  BY Zenon DEF StdoutOver, stdoutVars
<1>. QED
  BY <1>1, <1>2, <1>3, <1>4, <1>5, <1>6, <1>7, LogIn DEF StdoutNext
-----------------------------------------------------------------------------
(* What the actions do to what is in wait *)

Same(t) == First(t)' = First(t) /\ Rest(t)' = Rest(t)

\* A line comes in behind the rest, or with a write of its own.
Comes(s, n) ==
  /\ First(s) = <<>> /\ ~Has(s) /\ UNCHANGED <<owner, out, short>>
  /\ lengths' = [lengths EXCEPT ![s] = Append(@, n)]
  /\ \A t \in Sinks \ {s} : Same(t)
  /\ \/ First(s)' = <<>> /\ Rest(s)' = Rest(s) \o StdoutLine(s, n)
     \/ First(s)' = Rest(s) /\ Rest(s)' = StdoutLine(s, n)
     \/ Rest(s) = <<>> /\ First(s)' = StdoutLine(s, n) /\ Rest(s)' = <<>>

\* A write is over or the last one begins: the rest comes first.
Advances(s) ==
  /\ First(s) = <<>> /\ UNCHANGED <<out, lengths, short>>
  /\ \A t \in Sinks : Has(t)' => Has(t) /\ t # s
  /\ \A t \in Sinks \ {s} : Same(t) /\ (Has(t)' <=> Has(t))
  /\ \/ First(s)' = Rest(s) /\ Rest(s)' = <<>>
     \/ First(s)' = <<>> /\ Rest(s)' = Rest(s)

Emits(s) ==
  /\ Has(s) /\ First(s) # <<>> /\ UNCHANGED <<owner, lengths, short>>
  /\ out' = Append(out, Head(First(s)))
  /\ First(s)' = Tail(First(s)) /\ Rest(s)' = Rest(s)
  /\ \A t \in Sinks \ {s} : Same(t)

Cuts(s) ==
  /\ UNCHANGED <<owner, out, lengths>> /\ short' = short \cup {s}
  /\ First(s)' = <<>> /\ Rest(s)' = Rest(s)
  /\ \A t \in Sinks \ {s} : Same(t)

Locks(s) ==
  /\ UNCHANGED <<out, lengths, short>> /\ ~Has(s)
  /\ \A t \in Sinks : Same(t)
  /\ \A t \in Sinks : Has(t)' <=> Has(t) \/ t = s

Rests == UNCHANGED <<owner, out, lengths, short>> /\ \A t \in Sinks : Same(t)

LEMMA EmptyOnly ==
  ASSUME NEW S, NEW q \in Seq(S)
  PROVE  (q = <<>>) <=> (Len(q) = 0)
OBVIOUS

LEMMA OneByOne ==
  ASSUME NEW S, NEW a \in S, NEW b \in S
  PROVE  <<a>> \o <<b>> = <<a, b>>
<1>1. <<a>> \o <<b>> \in Seq(S) /\ <<a, b>> \in Seq(S)
  OBVIOUS
<1>2. Len(<<a>> \o <<b>>) = 2 /\ Len(<<a, b>>) = 2
  OBVIOUS
<1>3. ASSUME NEW i \in 1..2 PROVE (<<a>> \o <<b>>)[i] = <<a, b>>[i]
  <2>1. i = 1 \/ i = 2
    OBVIOUS
  <2>2. (<<a>> \o <<b>>)[1] = a /\ (<<a>> \o <<b>>)[2] = b
    OBVIOUS
  <2>. QED
    BY <2>1, <2>2
<1> DEFINE p == <<a>> \o <<b>>
           q == <<a, b>>
<1>4. p \in Seq(S) /\ q \in Seq(S) /\ Len(p) = 2 /\ Len(q) = 2 /\ \A i \in 1..2 : p[i] = q[i]
  BY <1>1, <1>2, <1>3, Zenon
<1> HIDE DEF p, q
<1>5. p = q
  BY <1>4
<1>. QED
  BY <1>5 DEF p, q

LEMMA SameWhere ==
  ASSUME NEW t, todo'[t] = todo[t], buffers_'[t] = buffers_[t]
  PROVE  Same(t)
BY Zenon DEF Same, First, Rest

LEMMA ComesIn ==
  ASSUME StdoutTypes, Writes, NEW s \in Sinks, NEW raw \in BOOLEAN, NEW len \in Contents,
         StdoutBuffered(s, raw, len) \/ StdoutFlushed(s, raw, len) \/ StdoutDirect(s, raw, len)
  PROVE  \E n \in Nat : Comes(s, n)
<1> DEFINE n == build_message(s, raw, len)
           L == StdoutLine(s, n)
<1>1. n \in Nat
  BY StdoutConstants DEF build_message
<1>2. L \in Seq(Byte)
  BY <1>1, LineFacts
<1>3. /\ todo[s] = <<>> /\ lengths' = [lengths EXCEPT ![s] = Append(@, n)]
      /\ UNCHANGED <<owner, out, short>>
  BY Zenon DEF StdoutBuffered, StdoutFlushed, StdoutDirect, Logs, MayLog
<1> HIDE DEF n, L
<1>4. /\ StdoutBuffered(s, raw, len) => todo' = todo /\ buffers_' = [buffers_ EXCEPT ![s] = @ \o L]
      /\ StdoutFlushed(s, raw, len) => /\ todo' = [todo EXCEPT ![s] = Flush(s)]
                                       /\ buffers_' = [buffers_ EXCEPT ![s] = L]
      /\ StdoutDirect(s, raw, len) => /\ todo' = [todo EXCEPT ![s] = Flush(s) \o <<L>>]
                                      /\ buffers_' = [buffers_ EXCEPT ![s] = <<>>]
  BY DEF StdoutBuffered, StdoutFlushed, StdoutDirect, n, L
<1>5. /\ buffers_ \in [Sinks -> Seq(Byte)] /\ todo \in [Sinks -> Seq(Seq(Byte))] /\ buffers_[s] \in Seq(Byte)
  BY DEF StdoutTypes
<1>6. First(s) = <<>> /\ Rest(s) = buffers_[s]
  <2>1. Len(todo[s]) # 2
    BY <1>3
  <2>. QED
    BY <1>3, <2>1, Zenon DEF First, Rest
<1>7. ASSUME NEW t \in Sinks \ {s} PROVE Same(t)
  <2>1. todo'[t] = todo[t] /\ buffers_'[t] = buffers_[t]
    BY <1>4, <1>5
  <2>. QED
    BY <2>1, SameWhere, Zenon
<1>8. \/ First(s)' = <<>> /\ Rest(s)' = Rest(s) \o L
      \/ First(s)' = Rest(s) /\ Rest(s)' = L
      \/ Rest(s) = <<>> /\ First(s)' = L /\ Rest(s)' = <<>>
  <2>1. CASE StdoutBuffered(s, raw, len)
    <3>1. todo'[s] = <<>> /\ Len(todo'[s]) # 2 /\ buffers_'[s] = buffers_[s] \o L
      BY <1>3, <1>4, <1>5, <2>1
    <3>. QED
      BY <1>6, <3>1, Zenon DEF First, Rest
  <2>2. CASE StdoutFlushed(s, raw, len)
    <3>1. todo'[s] = Flush(s) /\ buffers_'[s] = L
      BY <1>4, <1>5, <2>2
    <3>2. CASE buffers_[s] = <<>>
      <4>1. todo'[s] = <<>> /\ Len(<<>>) # 2
        BY <3>1, <3>2 DEF Flush
      <4>2. L = <<>> \o L
        BY <1>2
      <4>3. First(s)' = <<>> /\ Rest(s)' = L
        BY <3>1, <4>1, Zenon DEF First, Rest
      <4>. QED
        BY <1>6, <3>2, <4>2, <4>3, Zenon
    <3>3. CASE buffers_[s] # <<>>
      <4>1. todo'[s] = <<buffers_[s]>>
        BY <3>1, <3>3 DEF Flush
      <4>2. <<buffers_[s]>> # <<>> /\ Len(<<buffers_[s]>>) # 2 /\ <<buffers_[s]>>[1] = buffers_[s]
        OBVIOUS
      <4>3. First(s)' = buffers_[s] /\ Rest(s)' = L
        BY <3>1, <4>1, <4>2, Zenon DEF First, Rest
      <4>. QED
        BY <1>6, <4>3, Zenon
    <3>. QED
      BY <3>2, <3>3
  <2>3. CASE StdoutDirect(s, raw, len)
    <3>1. todo'[s] = Flush(s) \o <<L>> /\ buffers_'[s] = <<>>
      BY <1>4, <1>5, <2>3
    <3>2. CASE buffers_[s] = <<>>
      <4>1. todo'[s] = <<L>>
        BY <1>2, <3>1, <3>2 DEF Flush
      <4>2. <<L>> # <<>> /\ Len(<<L>>) # 2 /\ <<L>>[1] = L
        OBVIOUS
      <4>3. First(s)' = L /\ Rest(s)' = <<>>
        BY <3>1, <4>1, <4>2, Zenon DEF First, Rest
      <4>. QED
        BY <1>6, <3>2, <4>3, Zenon
    <3>3. CASE buffers_[s] # <<>>
      <4> DEFINE w == <<buffers_[s], L>>
      <4>1. todo'[s] = w
        <5>1. Flush(s) = <<buffers_[s]>>
          BY <3>3 DEF Flush
        <5>2. <<buffers_[s]>> \o <<L>> = w
          BY <1>2, <1>5, OneByOne
        <5>. QED
          BY <3>1, <5>1, <5>2, Zenon
      <4>2. w # <<>> /\ Len(w) = 2 /\ w[1] = buffers_[s] /\ w[2] = L
        OBVIOUS
      <4> HIDE DEF w
      <4>3. First(s)' = buffers_[s] /\ Rest(s)' = L
        BY <3>1, <4>1, <4>2, Zenon DEF First, Rest
      <4>. QED
        BY <1>6, <4>3, Zenon
    <3>. QED
      BY <3>2, <3>3
  <2>. QED
    BY <2>1, <2>2, <2>3
<1>9. ~Has(s)
  BY <1>3, Zenon DEF Writes
<1>10. Comes(s, n)
  BY <1>3, <1>6, <1>7, <1>8, <1>9, Zenon DEF Comes, L
<1>. QED
  BY <1>1, <1>10

LEMMA StdoutMoves ==
  ASSUME StdoutTypes, Writes, StdoutNext
  PROVE  \/ \E s \in Sinks : \/ \E n \in Nat : Comes(s, n)
                             \/ Advances(s) \/ Emits(s) \/ Cuts(s) \/ Locks(s)
         \/ Rests
<1>0. /\ buffers_ \in [Sinks -> Seq(Byte)] /\ todo \in [Sinks -> Seq(Seq(Byte))]
  BY DEF StdoutTypes
<1>1. ASSUME NEW s \in Sinks, StdoutDestroy(s) PROVE Advances(s)
  <2>1. /\ todo[s] = <<>> /\ todo' = [todo EXCEPT ![s] = Flush(s)] /\ buffers_' = [buffers_ EXCEPT ![s] = <<>>]
        /\ UNCHANGED <<owner, out, lengths, short>>
    BY <1>1, Zenon DEF StdoutDestroy, stdoutGhosts
  <2>2. First(s) = <<>> /\ Rest(s) = buffers_[s]
    <3>1. Len(todo[s]) # 2
      BY <2>1
    <3>. QED
      BY <2>1, <3>1, Zenon DEF First, Rest
  <2>3. todo'[s] = Flush(s) /\ buffers_'[s] = <<>>
    BY <1>0, <2>1
  <2>4. First(s)' = buffers_[s] /\ Rest(s)' = <<>>
    <3>1. CASE buffers_[s] = <<>>
      <4>1. todo'[s] = <<>> /\ Len(<<>>) # 2
        BY <2>3, <3>1 DEF Flush
      <4>. QED
        BY <2>3, <3>1, <4>1, Zenon DEF First, Rest
    <3>2. CASE buffers_[s] # <<>>
      <4>1. todo'[s] = <<buffers_[s]>>
        BY <2>3, <3>2 DEF Flush
      <4>2. <<buffers_[s]>> # <<>> /\ Len(<<buffers_[s]>>) # 2 /\ <<buffers_[s]>>[1] = buffers_[s]
        OBVIOUS
      <4>. QED
        BY <2>3, <4>1, <4>2, Zenon DEF First, Rest
    <3>. QED
      BY <3>1, <3>2
  <2>5. ASSUME NEW t \in Sinks \ {s} PROVE Same(t)
    <3>1. todo'[t] = todo[t] /\ buffers_'[t] = buffers_[t]
      BY <1>0, <2>1
    <3>. QED
      BY <3>1, SameWhere, Zenon
  <2>6. ~Has(s) /\ \A t \in Sinks : Has(t)' <=> Has(t)
    BY <2>1, Zenon DEF Has, Writes
  <2>. QED
    BY <2>1, <2>2, <2>4, <2>5, <2>6, Zenon DEF Advances
<1>2. ASSUME NEW s \in Sinks, Lock(s) PROVE Locks(s)
  <2>1. /\ owner[Instantiation(s)] # s /\ owner' = [owner EXCEPT ![Instantiation(s)] = s]
        /\ owner[Instantiation(s)] = Nobody
        /\ UNCHANGED <<buffers_, todo, out, lengths, short>>
    BY <1>2, Zenon DEF Lock, Unlocked, stdoutGhosts
  <2>2. \A t \in Sinks : owner'[Instantiation(t)] =
          IF Instantiation(t) = Instantiation(s) THEN s ELSE owner[Instantiation(t)]
    BY <2>1, OwnerSet, Zenon
  <2>3. \A t \in Sinks : t # Nobody
    BY StdoutConstants
  <2>4. \A t \in Sinks : Has(t)' <=> Has(t) \/ t = s
    BY <2>1, <2>2, <2>3, Zenon DEF Has
  <2>5. \A t \in Sinks : Same(t)
    BY <2>1, SameWhere, Zenon
  <2>. QED
    BY <2>1, <2>4, <2>5, Zenon DEF Locks, Has
<1>3. ASSUME NEW s \in Sinks, NEW v \in Seq(Byte), Has(s), todo' = [todo EXCEPT ![s][1] = v],
             UNCHANGED buffers_
      PROVE  /\ First(s) = todo[s][1] /\ First(s)' = v /\ Rest(s)' = Rest(s)
             /\ \A t \in Sinks \ {s} : Same(t)
  <2>1. todo[s] # <<>> /\ todo[s] \in Seq(Seq(Byte))
    BY <1>0, <1>3 DEF Writes
  <2> DEFINE w == [todo[s] EXCEPT ![1] = v]
  <2>2. Len(w) = Len(todo[s]) /\ w # <<>> /\ w[1] = v /\ (Len(todo[s]) = 2 => w[2] = todo[s][2])
    <3>1. Len(w) = Len(todo[s]) /\ DOMAIN todo[s] = 1..Len(todo[s]) /\ Len(todo[s]) \in Nat \ {0}
      BY <2>1
    <3>2. w[1] = v /\ (2 \in DOMAIN todo[s] => w[2] = todo[s][2])
      BY <3>1
    <3>3. w # <<>>
      BY <3>1
    <3>. QED
      BY <3>1, <3>2, <3>3
  <2>3. todo'[s] = w
    BY <1>0, <1>3
  <2>4. ASSUME NEW t \in Sinks \ {s} PROVE todo'[t] = todo[t]
    BY <1>0, <1>3
  <2> HIDE DEF w
  <2>5. First(s) = todo[s][1] /\ First(s)' = v
    BY <2>1, <2>2, <2>3, Zenon DEF First
  <2>6. Rest(s)' = Rest(s)
    BY <1>3, <2>2, <2>3, Zenon DEF Rest
  <2>7. \A t \in Sinks \ {s} : Same(t)
    BY <1>3, <2>4, SameWhere, Zenon
  <2>. QED
    BY <2>5, <2>6, <2>7
<1>4. ASSUME NEW s \in Sinks, WriteByte(s) PROVE Emits(s)
  <2>1. /\ Has(s) /\ todo[s][1] # <<>> /\ out' = Append(out, Head(todo[s][1]))
        /\ todo' = [todo EXCEPT ![s][1] = Tail(@)] /\ UNCHANGED <<buffers_, owner, lengths, short>>
    BY <1>4, Zenon DEF WriteByte, Holds, Has, stdoutGhosts
  <2>2. todo[s] # <<>> /\ todo[s] \in Seq(Seq(Byte))
    BY <1>0, <2>1 DEF Writes
  <2>3. Tail(todo[s][1]) \in Seq(Byte)
    <3>1. todo[s][1] \in Seq(Byte)
      BY <2>2
    <3>. QED
      BY <2>1, <3>1
  <2>4. todo' = [todo EXCEPT ![s][1] = Tail(todo[s][1])]
    BY <1>0, <2>1, <2>2
  <2>5. /\ First(s) = todo[s][1] /\ First(s)' = Tail(todo[s][1]) /\ Rest(s)' = Rest(s)
        /\ \A t \in Sinks \ {s} : Same(t)
    BY <1>3, <2>1, <2>3, <2>4, Zenon
  <2>. QED
    BY <2>1, <2>5, Zenon DEF Emits
<1>5. ASSUME NEW s \in Sinks, WriteShort(s) PROVE Cuts(s)
  <2>1. /\ Has(s) /\ short' = short \cup {s}
        /\ todo' = [todo EXCEPT ![s][1] = <<>>] /\ UNCHANGED <<buffers_, owner, out, lengths>>
    BY <1>5, Zenon DEF WriteShort, Holds, Has
  <2>2. <<>> \in Seq(Byte)
    OBVIOUS
  <2>3. /\ First(s)' = <<>> /\ Rest(s)' = Rest(s) /\ \A t \in Sinks \ {s} : Same(t)
    BY <1>3, <2>1, <2>2, Zenon
  <2>. QED
    BY <2>1, <2>3, Zenon DEF Cuts
<1>6. ASSUME NEW s \in Sinks, Unlock(s) PROVE Advances(s)
  <2>1. /\ Has(s) /\ todo[s][1] = <<>> /\ owner' = [owner EXCEPT ![Instantiation(s)] = Nobody]
        /\ todo' = [todo EXCEPT ![s] = Tail(@)] /\ UNCHANGED <<buffers_, out, lengths, short>>
    BY <1>6, Zenon DEF Unlock, Holds, Has, stdoutGhosts
  <2>2. /\ todo[s] # <<>> /\ todo[s] \in Seq(Seq(Byte)) /\ Len(todo[s]) <= 2
        /\ Len(todo[s]) = 2 => buffers_[s] = <<>>
    BY <1>0, <2>1 DEF Writes
  <2>3. todo'[s] = Tail(todo[s]) /\ buffers_'[s] = buffers_[s]
    BY <1>0, <2>1
  <2>4. First(s) = <<>>
    BY <2>1, <2>2, Zenon DEF First
  <2>5. \/ First(s)' = Rest(s) /\ Rest(s)' = <<>>
        \/ First(s)' = <<>> /\ Rest(s)' = Rest(s)
    <3>1. CASE Len(todo[s]) = 2
      <4> DEFINE w == Tail(todo[s])
      <4>1. w # <<>> /\ Len(w) # 2 /\ w[1] = todo[s][2]
        <5>1. w \in Seq(Seq(Byte)) /\ Len(w) = 1
          BY <2>2, <3>1
        <5>2. w[1] = todo[s][1 + 1]
          BY <2>2, <3>1
        <5>3. (w = <<>>) <=> (Len(w) = 0)
          BY <5>1, EmptyOnly, Zenon
        <5> HIDE DEF w
        <5>4. w # <<>> /\ Len(w) # 2
          <6>1. Len(w) # 0 /\ Len(w) # 2
            BY <5>1
          <6>. QED
            BY <5>3, <6>1, Zenon
        <5>. QED
          BY <5>2, <5>4
      <4> HIDE DEF w
      <4>2. First(s)' = todo[s][2] /\ Rest(s)' = <<>> /\ Rest(s) = todo[s][2]
        BY <2>2, <2>3, <3>1, <4>1, Zenon DEF First, Rest, w
      <4>. QED
        BY <4>2, Zenon
    <3>2. CASE Len(todo[s]) # 2
      <4>1. Tail(todo[s]) = <<>> /\ Len(<<>>) # 2
        <5>1. Len(todo[s]) = 1
          <6> DEFINE c == Len(todo[s])
          <6>1. c \in Nat /\ c # 0 /\ c <= 2 /\ c # 2
            BY <2>2, <3>2
          <6> HIDE DEF c
          <6>2. c = 1
            BY <6>1
          <6>. QED
            BY <6>2 DEF c
        <5>2. Tail(todo[s]) \in Seq(Seq(Byte)) /\ Len(Tail(todo[s])) = 0
          BY <2>2, <5>1
        <5>3. (Tail(todo[s]) = <<>>) <=> (Len(Tail(todo[s])) = 0)
          BY <5>2, EmptyOnly, Zenon
        <5>4. Len(<<>>) # 2
          OBVIOUS
        <5>. QED
          BY <5>2, <5>3, <5>4, Zenon
      <4>. QED
        BY <2>3, <3>2, <4>1, Zenon DEF First, Rest
    <3>. QED
      BY <3>1, <3>2
  <2>6. ASSUME NEW t \in Sinks \ {s} PROVE Same(t)
    <3>1. todo'[t] = todo[t] /\ buffers_'[t] = buffers_[t]
      BY <1>0, <2>1
    <3>. QED
      BY <3>1, SameWhere, Zenon
  <2>7. /\ \A t \in Sinks : Has(t)' => Has(t) /\ t # s
        /\ \A t \in Sinks \ {s} : Has(t)' <=> Has(t)
    <3>1. \A t \in Sinks : t # Nobody
      BY StdoutConstants
    <3>2. \A t \in Sinks : owner'[Instantiation(t)] =
            IF Instantiation(t) = Instantiation(s) THEN Nobody ELSE owner[Instantiation(t)]
      BY <2>1, OwnerSet, ZenonT(40)
    <3>. QED
      BY <2>1, <3>1, <3>2, Zenon DEF Has
  <2>. QED
    BY <2>1, <2>4, <2>5, <2>6, <2>7, Zenon DEF Advances
<1>7. ASSUME UNCHANGED <<buffers_, todo, owner, out, lengths, short>> PROVE Rests
  BY <1>7, SameWhere, Zenon DEF Rests
<1>8. ASSUME NEW s \in Sinks, NEW raw \in BOOLEAN, NEW len \in Contents, StdoutSmash(s, raw, len)
      PROVE  UNCHANGED <<buffers_, todo, owner, out, lengths, short>>
  BY <1>8, Zenon DEF StdoutSmash, stdoutGhosts
<1>9. StdoutOver => UNCHANGED <<buffers_, todo, owner, out, lengths, short>>
  BY Zenon DEF StdoutOver, stdoutVars
<1>. QED
  BY <1>1, <1>2, <1>4, <1>5, <1>6, <1>7, <1>8, <1>9, ComesIn DEF StdoutNext
-----------------------------------------------------------------------------
(* Sequences of bytes *)

LEMMA InWait ==
  ASSUME StdoutTypes, Writes, NEW s \in Sinks
  PROVE  First(s) \in Seq(Byte) /\ Rest(s) \in Seq(Byte)
<1>1. /\ todo[s] \in Seq(Seq(Byte)) /\ buffers_[s] \in Seq(Byte) /\ <<>> \in Seq(Byte)
  BY DEF StdoutTypes
<1>2. First(s) \in Seq(Byte)
  <2>1. todo[s] # <<>> => todo[s][1] \in Seq(Byte)
    BY <1>1
  <2>. QED
    BY <1>1, <2>1 DEF First
<1>3. Rest(s) \in Seq(Byte)
  <2>1. Len(todo[s]) = 2 => todo[s][2] \in Seq(Byte)
    BY <1>1
  <2>. QED
    BY <1>1, <2>1 DEF Rest
<1>. QED
  BY <1>2, <1>3

LEMMA CountAbsent ==
  ASSUME NEW f, NEW b, \A i \in DOMAIN f : f[i] # b
  PROVE  Count(f, b) = 0
<1>1. Places(f, b) = {}
  BY DEF Places
<1>. QED
  BY <1>1, FS_EmptySet DEF Count

LEMMA NoneInWait ==
  ASSUME NEW s, NEW m, NEW f
  PROVE  Lined(<<>>, s, m) /\ Before(<<>>, f) /\ Before(f, <<>>) /\ UpTo(f, <<>>)
BY DEF Lined, Before, UpTo

LEMMA TailFacts ==
  ASSUME NEW f \in Seq(Byte), f # <<>>
  PROVE  /\ Head(f) = f[1] /\ 1 \in DOMAIN f /\ f[1] \in Byte /\ Tail(f) \in Seq(Byte)
         /\ \A i \in DOMAIN Tail(f) : i + 1 \in DOMAIN f /\ 1 <= i + 1 /\ Tail(f)[i] = f[i + 1]
OBVIOUS

\* A new line behind those in wait.
LEMMA NewLine ==
  ASSUME NEW s \in Sinks, NEW m \in Nat, NEW n \in Nat, NEW r \in Seq(Byte), Lined(r, s, m),
         NEW L, L = Repeated(<<s, m + 1>>, n)
  PROVE  /\ Lined(r, s, m + 1) /\ Lined(L, s, m + 1) /\ Lined(r \o L, s, m + 1) /\ Before(r, L)
<1>1. /\ DOMAIN L = 1..n /\ \A i \in DOMAIN L : L[i] = <<s, m + 1>>
  BY DEF Repeated
<1>2. \A i \in DOMAIN L : L[i][1] = s /\ L[i][2] = m + 1
  BY <1>1
<1>3. Lined(r, s, m + 1)
  BY DEF Lined
<1>4. Lined(L, s, m + 1)
  <2>1. ASSUME NEW i \in DOMAIN L PROVE L[i][1] = s /\ L[i][2] \in 1..(m + 1)
    BY <1>2
  <2>2. ASSUME NEW i \in DOMAIN L, NEW j \in DOMAIN L PROVE L[i][2] <= L[j][2]
    <3>1. L[i][2] = m + 1 /\ L[j][2] = m + 1
      BY <1>2
    <3>. QED
      BY <3>1
  <2>. QED
    BY <2>1, <2>2, Zenon DEF Lined
<1>5. Before(r, L)
  <2>1. ASSUME NEW i \in DOMAIN r, NEW j \in DOMAIN L PROVE r[i][2] < L[j][2]
    <3>1. r[i][2] \in 1..m /\ L[j][2] = m + 1
      BY <1>2 DEF Lined
    <3>. QED
      BY <3>1
  <2>. QED
    BY <2>1, Zenon DEF Before
<1>6. Lined(r \o L, s, m + 1)
  <2>1. L \in Seq(Byte) /\ Len(L) = n
    <3> DEFINE b == <<s, m + 1>>
    <3>1. b \in Byte /\ L = Repeated(b, n)
      BY DEF Byte
    <3> HIDE DEF b
    <3>. QED
      BY <3>1 DEF Repeated
  <2>2. ASSUME NEW i \in DOMAIN (r \o L)
        PROVE  /\ i \in 1..(Len(r) + n)
               /\ i <= Len(r) => i \in DOMAIN r /\ (r \o L)[i] = r[i]
               /\ ~(i <= Len(r)) => (r \o L)[i][1] = s /\ (r \o L)[i][2] = m + 1
    <3>1. i \in 1..(Len(r) + n)
      BY <2>1
    <3>2. CASE i <= Len(r)
      BY <2>1, <3>1, <3>2
    <3>3. CASE ~(i <= Len(r))
      <4>1. i - Len(r) \in DOMAIN L /\ (r \o L)[i] = L[i - Len(r)]
        BY <1>1, <2>1, <3>1, <3>3
      <4>. QED
        BY <1>2, <3>1, <3>3, <4>1
    <3>. QED
      BY <3>1, <3>2, <3>3
  <2> DEFINE g == r \o L
  <2> HIDE DEF g
  <2>3. ASSUME NEW i \in DOMAIN g PROVE g[i][1] = s /\ g[i][2] \in 1..(m + 1)
    BY <2>2, SMTT(30) DEF g, Lined
  <2>4. ASSUME NEW i \in DOMAIN g, NEW j \in DOMAIN g, i <= j PROVE g[i][2] <= g[j][2]
    <3>1. g[i][2] \in 1..(m + 1) /\ i \in Nat /\ j \in Nat /\ Len(r) \in Nat
      <4>1. i \in 1..(Len(r) + n) /\ j \in 1..(Len(r) + n)
        BY <2>2 DEF g
      <4>2. Len(r) \in Nat /\ g[i][2] \in 1..(m + 1)
        BY <2>3
      <4>. QED
        BY <4>1, <4>2
    <3>2. CASE ~(j <= Len(r))
      <4>1. g[j][2] = m + 1
        BY <2>2, <3>2 DEF g
      <4>. QED
        BY <3>1, <4>1
    <3>3. CASE j <= Len(r)
      <4>1. i <= Len(r)
        BY <2>4, <3>1, <3>3
      <4>2. g[i] = r[i] /\ g[j] = r[j] /\ i \in DOMAIN r /\ j \in DOMAIN r
        BY <2>2, <3>3, <4>1 DEF g
      <4>3. r[i][2] <= r[j][2]
        BY <2>4, <4>2 DEF Lined
      <4>. QED
        BY <4>2, <4>3
    <3>. QED
      BY <3>2, <3>3
  <2>. QED
    BY <2>3, <2>4 DEF Lined, g
<1>. QED
  BY <1>3, <1>4, <1>5, <1>6

\* It is later than all that is out.
LEMMA NewLineOut ==
  ASSUME NEW s \in Sinks, NEW m \in Nat, NEW n \in Nat, NEW o \in Seq(Byte), Known(o, s, m),
         NEW r \in Seq(Byte), Before(o, r), NEW L, L = Repeated(<<s, m + 1>>, n)
  PROVE  Known(o, s, m + 1) /\ Before(o, L) /\ UpTo(o, L) /\ Before(o, r \o L) /\ UpTo(o, r)
<1>1. /\ DOMAIN L = 1..n /\ \A i \in DOMAIN L : L[i] = <<s, m + 1>>
  BY DEF Repeated
<1>2. ASSUME NEW i \in DOMAIN L PROVE L[i][1] = s /\ L[i][2] = m + 1
  <2>1. L[i] = <<s, m + 1>>
    BY <1>1, Zenon
  <2>. QED
    BY <2>1
<1>3. \A i \in DOMAIN o : o[i][2] \in Nat
  BY DEF Byte
<1>4. \A i \in DOMAIN r : r[i][2] \in Nat
  BY DEF Byte
<1>5. Known(o, s, m + 1)
  BY <1>3 DEF Known
<1>6. ASSUME NEW i \in DOMAIN o, NEW j \in DOMAIN L, o[i][1] = L[j][1] PROVE o[i][2] < L[j][2] /\ o[i][2] <= L[j][2]
  <2>1. o[i][2] <= m /\ L[j][2] = m + 1 /\ o[i][2] \in Nat
    BY <1>2, <1>3, <1>6, Zenon DEF Known
  <2>. QED
    BY <2>1
<1>7. Before(o, L) /\ UpTo(o, L)
  BY <1>6, Zenon DEF Before, UpTo
<1>8. UpTo(o, r)
  BY <1>3, <1>4 DEF Before, UpTo
<1>9. Before(o, r \o L)
  <2>1. L \in Seq(Byte) /\ Len(L) = n
    <3> DEFINE b == <<s, m + 1>>
    <3>1. b \in Byte /\ L = Repeated(b, n)
      BY DEF Byte
    <3> HIDE DEF b
    <3>. QED
      BY <3>1, SMTT(30) DEF Repeated
  <2>2. ASSUME NEW j \in DOMAIN (r \o L)
        PROVE  \/ j \in DOMAIN r /\ (r \o L)[j] = r[j]
               \/ \E k \in DOMAIN L : (r \o L)[j] = L[k]
    <3>1. j \in 1..(Len(r) + n)
      BY <2>1
    <3>2. CASE j <= Len(r)
      BY <2>1, <3>1, <3>2
    <3>3. CASE ~(j <= Len(r))
      <4>1. j - Len(r) \in DOMAIN L /\ (r \o L)[j] = L[j - Len(r)]
        BY <1>1, <2>1, <3>1, <3>3
      <4>. QED
        BY <4>1
    <3>. QED
      BY <3>2, <3>3
  <2> DEFINE g == r \o L
  <2> HIDE DEF g
  <2>3. ASSUME NEW i \in DOMAIN o, NEW j \in DOMAIN g, o[i][1] = g[j][1] PROVE o[i][2] < g[j][2]
    <3>1. CASE j \in DOMAIN r /\ g[j] = r[j]
      BY <2>3, <3>1, Zenon DEF Before
    <3>2. CASE \E k \in DOMAIN L : g[j] = L[k]
      BY <1>6, <2>3, <3>2, Zenon
    <3>. QED
      BY <2>2, <3>1, <3>2 DEF g
  <2>. QED
    BY <2>3, Zenon DEF Before, g
<1>. QED
  BY <1>5, <1>7, <1>8, <1>9

\* Its bytes are those it was given.
LEMMA NewLineAdds ==
  ASSUME NEW s \in Sinks, NEW ls \in Seq(Nat), NEW n \in Nat, NEW o \in Seq(Byte), Known(o, s, Len(ls)),
         NEW r \in Seq(Byte), Lined(r, s, Len(ls)), Adds(o, <<>>, r, s, ls),
         NEW L \in Seq(Byte), L = Repeated(<<s, Len(ls) + 1>>, n)
  PROVE  /\ Adds(o, <<>>, r \o L, s, Append(ls, n)) /\ Adds(o, r, L, s, Append(ls, n))
         /\ r = <<>> => Adds(o, L, <<>>, s, Append(ls, n))
<1> DEFINE m == Len(ls)
           c == <<s, m + 1>>
           ls1 == Append(ls, n)
<1>1. m \in Nat /\ DOMAIN ls = 1..m /\ DOMAIN ls1 = 1..(m + 1) /\ ls1[m + 1] = n /\ \A l \in 1..m : ls1[l] = ls[l]
  OBVIOUS
<1> HIDE DEF m, ls1
<1>2. ASSUME NEW l \in DOMAIN ls1
      PROVE  /\ Count(o, <<s, l>>) \in Nat /\ Count(r, <<s, l>>) \in Nat /\ Count(L, <<s, l>>) \in Nat
             /\ Count(<<>>, <<s, l>>) = 0 /\ Count(r \o L, <<s, l>>) = Count(r, <<s, l>>) + Count(L, <<s, l>>)
             /\ Count(o, <<s, l>>) + Count(r, <<s, l>>) + Count(L, <<s, l>>) = ls1[l]
  <2> DEFINE b == <<s, l>>
  <2>1. Count(o, b) \in Nat /\ Count(r, b) \in Nat /\ Count(L, b) \in Nat /\ Count(<<>>, b) = 0
    BY PlacesFinite, CountNone, Zenon
  <2>2. Count(r \o L, b) = Count(r, b) + Count(L, b)
    BY CountJoined, Zenon
  <2>3. Count(L, b) = IF b = c THEN n ELSE 0
    BY CountRepeated, Zenon DEF m
  <2>4. CASE l = m + 1
    <3>1. ASSUME NEW i \in DOMAIN o PROVE o[i] # b
      <4>1. o[i] \in Byte
        OBVIOUS
      <4>2. o[i][1] = s => o[i][2] <= m /\ o[i][2] \in Nat
        BY <4>1 DEF Known, Byte, m
      <4>. QED
        BY <1>1, <2>4, <4>2
    <3>2. ASSUME NEW i \in DOMAIN r PROVE r[i] # b
      <4>1. r[i][2] \in 1..m
        BY Zenon DEF Lined, m
      <4>. QED
        BY <1>1, <2>4, <4>1
    <3>3. Count(o, b) = 0 /\ Count(r, b) = 0
      BY <3>1, <3>2, CountAbsent, Zenon
    <3>4. Count(L, b) = n
      BY <2>3, <2>4
    <3>5. ls1[l] = n
      BY <1>1, <2>4
    <3> HIDE DEF b
    <3>6. Count(o, b) + Count(r, b) + Count(L, b) = ls1[l]
      BY <3>3, <3>4, <3>5
    <3>. QED
      BY <2>1, <2>2, <3>6 DEF b
  <2>5. CASE l # m + 1
    <3>1. l \in 1..m
      BY <1>1, <2>5
    <3>2. Count(o, b) + Count(<<>>, b) + Count(r, b) = ls[l]
      BY <1>1, <3>1, Zenon DEF Adds
    <3>3. b # c
      BY <2>5
    <3>4. Count(L, b) = 0
      BY <2>3, <3>3, Zenon
    <3>5. ls1[l] = ls[l]
      BY <1>1, <3>1
    <3> HIDE DEF b
    <3>6. Count(o, b) + Count(r, b) + Count(L, b) = ls1[l]
      BY <2>1, <3>2, <3>4, <3>5
    <3>. QED
      BY <2>1, <2>2, <3>6 DEF b
  <2>. QED
    BY <2>4, <2>5
<1>3. ASSUME NEW l \in DOMAIN ls1
      PROVE  /\ Count(o, <<s, l>>) + Count(<<>>, <<s, l>>) + Count(r \o L, <<s, l>>) = ls1[l]
             /\ Count(o, <<s, l>>) + Count(r, <<s, l>>) + Count(L, <<s, l>>) = ls1[l]
             /\ r = <<>> => Count(o, <<s, l>>) + Count(L, <<s, l>>) + Count(<<>>, <<s, l>>) = ls1[l]
  <2> DEFINE b == <<s, l>>
  <2> HIDE DEF b
  <2>1. /\ Count(o, b) \in Nat /\ Count(r, b) \in Nat /\ Count(L, b) \in Nat
        /\ Count(<<>>, b) = 0 /\ Count(r \o L, b) = Count(r, b) + Count(L, b)
        /\ Count(o, b) + Count(r, b) + Count(L, b) = ls1[l]
    BY <1>2, Zenon DEF b
  <2>2. Count(o, b) + Count(<<>>, b) + Count(r \o L, b) = ls1[l]
    BY <2>1
  <2>3. r = <<>> => Count(o, b) + Count(L, b) + Count(<<>>, b) = ls1[l]
    <3>1. r = <<>> => Count(r, b) = 0
      BY <2>1, Zenon
    <3>. QED
      BY <2>1, <3>1
  <2>. QED
    BY <2>1, <2>2, <2>3, Zenon DEF b
<1>. QED
  BY <1>3, Zenon DEF Adds, ls1
-----------------------------------------------------------------------------
(* The moves keep the invariant *)

LEMMA Untouched ==
  ASSUME NEW t \in Sinks, SinkOK(t), Same(t), out' = out, lengths'[t] = lengths[t], Has(t)' <=> Has(t),
         t \notin short' => t \notin short
  PROVE  SinkOK(t)'
BY Zenon DEF SinkOK, Queued, Behind, Unbroken, Conserved, Same

LEMMA ComesKeeps ==
  ASSUME StdoutTypes, Writes, \A t \in Sinks : SinkOK(t), NEW s \in Sinks, NEW n \in Nat, Comes(s, n)
  PROVE  \A t \in Sinks : SinkOK(t)'
<1> DEFINE L == StdoutLine(s, n)
           r == Rest(s)
           ls == lengths[s]
           m == Len(ls)
<1>1. /\ out' = out /\ owner' = owner /\ short' = short /\ ~Has(s) /\ First(s) = <<>>
      /\ lengths' = [lengths EXCEPT ![s] = Append(@, n)]
  BY Zenon DEF Comes
<1>2. \A t \in Sinks : Has(t)' <=> Has(t)
  BY <1>1, Zenon DEF Has
<1>3. ls \in Seq(Nat) /\ m \in Nat /\ out \in Seq(Byte) /\ lengths \in [Sinks -> Seq(Nat)]
  BY DEF StdoutTypes
<1>4. /\ lengths'[s] = Append(ls, n) /\ Len(lengths'[s]) = m + 1
      /\ \A t \in Sinks \ {s} : lengths'[t] = lengths[t]
  BY <1>1, <1>3
<1>5. r \in Seq(Byte) /\ L \in Seq(Byte) /\ L = Repeated(<<s, m + 1>>, n)
  BY InWait, LineFacts, Zenon
<1>6. /\ Lined(r, s, m) /\ Known(out, s, m) /\ Before(out, r)
      /\ s \notin short => Adds(out, <<>>, r, s, ls)
  BY <1>1, Zenon DEF SinkOK, Queued, Behind, Conserved
<1>7. \/ First(s)' = <<>> /\ Rest(s)' = r \o L
      \/ First(s)' = r /\ Rest(s)' = L
      \/ r = <<>> /\ First(s)' = L /\ Rest(s)' = <<>>
  BY Zenon DEF Comes
<1> HIDE DEF L, r, ls, m
<1>8. /\ Lined(r, s, m + 1) /\ Lined(L, s, m + 1) /\ Lined(r \o L, s, m + 1) /\ Before(r, L)
  BY <1>3, <1>5, <1>6, NewLine
<1>9. Known(out, s, m + 1) /\ Before(out, L) /\ UpTo(out, L) /\ Before(out, r \o L) /\ UpTo(out, r)
  BY <1>3, <1>5, <1>6, NewLineOut
<1>10. s \notin short => /\ Adds(out, <<>>, r \o L, s, Append(ls, n)) /\ Adds(out, r, L, s, Append(ls, n))
                         /\ (r = <<>> => Adds(out, L, <<>>, s, Append(ls, n)))
  BY <1>3, <1>5, <1>6, NewLineAdds DEF m
<1>11. Queued(s)'
  BY <1>4, <1>7, <1>8, NoneInWait, Zenon DEF Queued
<1>12. Behind(s)'
  BY <1>1, <1>4, <1>6, <1>7, <1>9, NoneInWait, Zenon DEF Behind
<1>13. Conserved(s)'
  <2> SUFFICES ASSUME s \notin short PROVE Adds(out', First(s)', Rest(s)', s, lengths'[s])
    BY <1>1, Zenon DEF Conserved
  <2>0. /\ Adds(out', <<>>, r \o L, s, lengths'[s]) /\ Adds(out', r, L, s, lengths'[s])
        /\ r = <<>> => Adds(out', L, <<>>, s, lengths'[s])
    <3> DEFINE ls1 == Append(ls, n)
    <3>1. /\ Adds(out, <<>>, r \o L, s, ls1) /\ Adds(out, r, L, s, ls1) /\ (r = <<>> => Adds(out, L, <<>>, s, ls1))
      BY <1>10
    <3>2. out' = out /\ lengths'[s] = ls1
      BY <1>1, <1>4, Zenon
    <3> HIDE DEF ls1
    <3>. QED
      BY <3>1, <3>2, Zenon
  <2>1. CASE First(s)' = <<>> /\ Rest(s)' = r \o L
    BY <2>0, <2>1, Zenon
  <2>2. CASE First(s)' = r /\ Rest(s)' = L
    BY <2>0, <2>2, Zenon
  <2>3. CASE r = <<>> /\ First(s)' = L /\ Rest(s)' = <<>>
    BY <2>0, <2>3, Zenon
  <2>. QED
    BY <1>7, <2>1, <2>2, <2>3, Zenon
<1>14. SinkOK(s)'
  BY <1>1, <1>2, <1>11, <1>12, <1>13, Zenon DEF SinkOK, Unbroken
<1>15. ASSUME NEW t \in Sinks \ {s} PROVE SinkOK(t)'
  <2>1. Same(t)
    BY Zenon DEF Comes
  <2>. QED
    BY <1>1, <1>2, <1>4, <2>1, Untouched, Zenon
<1>. QED
  BY <1>14, <1>15

LEMMA AdvancesKeeps ==
  ASSUME StdoutTypes, Writes, \A t \in Sinks : SinkOK(t), NEW s \in Sinks, Advances(s)
  PROVE  \A t \in Sinks : SinkOK(t)'
<1> DEFINE r == Rest(s)
<1>1. /\ out' = out /\ lengths' = lengths /\ short' = short /\ First(s) = <<>> /\ ~Has(s)'
      /\ \/ First(s)' = r /\ Rest(s)' = <<>>
         \/ First(s)' = <<>> /\ Rest(s)' = r
  BY Zenon DEF Advances
<1>2. /\ Lined(r, s, Len(lengths[s])) /\ Known(out, s, Len(lengths[s])) /\ Before(out, r)
      /\ s \notin short => Adds(out, <<>>, r, s, lengths[s])
  BY <1>1, Zenon DEF SinkOK, Queued, Behind, Conserved
<1>3. r \in Seq(Byte) /\ out \in Seq(Byte)
  BY InWait DEF StdoutTypes
<1> HIDE DEF r
<1>4. UpTo(out, r)
  <2>1. \A i \in DOMAIN out : out[i][2] \in Nat
    BY <1>3 DEF Byte
  <2>2. \A i \in DOMAIN r : r[i][2] \in Nat
    BY <1>3 DEF Byte
  <2>. QED
    BY <1>2, <2>1, <2>2 DEF UpTo, Before
<1>5. Queued(s)'
  BY <1>1, <1>2, NoneInWait, Zenon DEF Queued
<1>6. Behind(s)'
  BY <1>1, <1>2, <1>4, NoneInWait, Zenon DEF Behind
<1>7. s \notin short => Adds(out, r, <<>>, s, lengths[s])
  <2>1. ASSUME NEW b PROVE Count(out, b) + Count(r, b) + Count(<<>>, b) = Count(out, b) + Count(<<>>, b) + Count(r, b)
    <3>1. Count(out, b) \in Nat /\ Count(r, b) \in Nat /\ Count(<<>>, b) = 0
      BY <1>3, PlacesFinite, CountNone, Zenon
    <3>. QED
      BY <3>1
  <2>. QED
    BY <1>2, <2>1, Zenon DEF Adds
<1>8. Conserved(s)'
  BY <1>1, <1>2, <1>7, Zenon DEF Conserved
<1>9. SinkOK(s)'
  BY <1>1, <1>5, <1>6, <1>8, Zenon DEF SinkOK, Unbroken
<1>10. ASSUME NEW t \in Sinks \ {s} PROVE SinkOK(t)'
  <2>1. Same(t) /\ (Has(t)' <=> Has(t))
    BY Zenon DEF Advances
  <2>. QED
    BY <1>1, <2>1, Untouched, Zenon
<1>. QED
  BY <1>9, <1>10

LEMMA CutsKeeps ==
  ASSUME \A t \in Sinks : SinkOK(t), NEW s \in Sinks, Cuts(s)
  PROVE  \A t \in Sinks : SinkOK(t)'
<1>1. /\ out' = out /\ owner' = owner /\ lengths' = lengths /\ short' = short \cup {s}
      /\ First(s)' = <<>> /\ Rest(s)' = Rest(s)
  BY Zenon DEF Cuts
<1>2. \A t \in Sinks : Has(t)' <=> Has(t)
  BY <1>1, Zenon DEF Has
<1>3. SinkOK(s)'
  <2>1. AtEnd(out, <<>>, s)
    BY DEF AtEnd
  <2>2. Queued(s)' /\ Behind(s)'
    BY <1>1, NoneInWait, Zenon DEF SinkOK, Queued, Behind
  <2>3. Unbroken(s)' /\ Conserved(s)'
    BY <1>1, <2>1, Zenon DEF Unbroken, Conserved
  <2>. QED
    BY <2>2, <2>3, Zenon DEF SinkOK
<1>4. ASSUME NEW t \in Sinks \ {s} PROVE SinkOK(t)'
  <2>1. Same(t)
    BY Zenon DEF Cuts
  <2>. QED
    BY <1>1, <1>2, <2>1, Untouched, Zenon
<1>. QED
  BY <1>3, <1>4

LEMMA LocksKeeps ==
  ASSUME \A t \in Sinks : SinkOK(t), NEW s \in Sinks, Locks(s)
  PROVE  \A t \in Sinks : SinkOK(t)'
<1>1. /\ out' = out /\ lengths' = lengths /\ short' = short /\ ~Has(s) /\ Has(s)'
      /\ First(s)' = First(s) /\ Rest(s)' = Rest(s)
  BY Zenon DEF Locks, Same
<1>2. Lined(First(s), s, Len(lengths[s])) /\ Before(out, First(s))
  BY <1>1, Zenon DEF SinkOK, Queued, Behind
<1>3. AtEnd(out, First(s), s)
  <2>1. ASSUME NEW i \in DOMAIN out, NEW j \in DOMAIN First(s), out[i] = First(s)[j] PROVE FALSE
    <3>1. out[i][2] < First(s)[j][2] /\ First(s)[j][2] \in 1..Len(lengths[s])
      BY <1>2, <2>1, Zenon DEF Before, Lined
    <3> DEFINE v == First(s)[j][2]
    <3>2. v < v /\ v \in 1..Len(lengths[s])
      BY <2>1, <3>1, Zenon
    <3> HIDE DEF v
    <3>. QED
      BY <3>2
  <2>. QED
    BY <2>1, Zenon DEF AtEnd
<1>4. SinkOK(s)'
  BY <1>1, <1>3, Zenon DEF SinkOK, Queued, Behind, Unbroken, Conserved
<1>5. ASSUME NEW t \in Sinks \ {s} PROVE SinkOK(t)'
  <2>1. Same(t) /\ (Has(t)' <=> Has(t))
    BY Zenon DEF Locks
  <2>. QED
    BY <1>1, <2>1, Untouched, Zenon
<1>. QED
  BY <1>4, <1>5

LEMMA RestsKeeps ==
  ASSUME \A t \in Sinks : SinkOK(t), Rests
  PROVE  \A t \in Sinks : SinkOK(t)'
<1>1. out' = out /\ lengths' = lengths /\ short' = short /\ owner' = owner
  BY Zenon DEF Rests
<1>2. \A t \in Sinks : Has(t)' <=> Has(t)
  BY <1>1, Zenon DEF Has
<1>. QED
  BY <1>1, <1>2, Untouched, Zenon DEF Rests

LEMMA EmitsKeeps ==
  ASSUME StdoutTypes, Writes, \A t \in Sinks : SinkOK(t), StdoutLinesIntact, NEW s \in Sinks, Emits(s)
  PROVE  (\A t \in Sinks : SinkOK(t)') /\ StdoutLinesIntact'
<1> DEFINE f == First(s)
           r == Rest(s)
           m == Len(lengths[s])
           b == Head(f)
           g == Tail(f)
           N == Len(out)
<1>1. /\ out' = Append(out, b) /\ lengths' = lengths /\ short' = short /\ owner' = owner /\ Has(s)
      /\ f # <<>> /\ First(s)' = g /\ Rest(s)' = r
  BY Zenon DEF Emits
<1>2. \A t \in Sinks : Has(t)' <=> Has(t)
  BY <1>1, Zenon DEF Has
<1>3. f \in Seq(Byte) /\ r \in Seq(Byte) /\ out \in Seq(Byte) /\ m \in Nat /\ N \in Nat
  BY InWait DEF StdoutTypes
<1>4. /\ Lined(f, s, m) /\ Lined(r, s, m) /\ Before(f, r) /\ Known(out, s, m)
      /\ UpTo(out, f) /\ Before(out, r) /\ AtEnd(out, f, s)
      /\ s \notin short => Adds(out, f, r, s, lengths[s])
  BY <1>1, Zenon DEF SinkOK, Queued, Behind, Unbroken, Conserved
<1>5. /\ b = f[1] /\ 1 \in DOMAIN f /\ b \in Byte /\ g \in Seq(Byte)
      /\ \A i \in DOMAIN g : i + 1 \in DOMAIN f /\ 1 <= i + 1 /\ g[i] = f[i + 1]
  BY <1>1, <1>3, TailFacts
<1>6. /\ DOMAIN out = 1..N /\ DOMAIN out' = 1..(N + 1) /\ out'[N + 1] = b /\ \A i \in 1..N : out'[i] = out[i]
  BY <1>1, <1>3, <1>5
<1> HIDE DEF f, r, m, b, g, N
<1>7. b[1] = s /\ b[2] \in 1..m
  BY <1>4, <1>5, Zenon DEF Lined
<1>8. ASSUME NEW i \in DOMAIN out' PROVE (i \in DOMAIN out /\ out'[i] = out[i]) \/ (i = N + 1 /\ out'[i] = b)
  <2>1. i \in 1..N \/ i = N + 1
    BY <1>3, <1>6
  <2>2. CASE i \in 1..N
    BY <1>6, <2>2, Zenon
  <2>3. CASE i = N + 1
    BY <1>6, <2>3
  <2>. QED
    BY <2>1, <2>2, <2>3, Zenon
<1>9. ASSUME NEW i \in DOMAIN g PROVE g[i][1] = s /\ g[i][2] \in 1..m /\ b[2] <= g[i][2]
  <2>1. i + 1 \in DOMAIN f /\ 1 <= i + 1 /\ g[i] = f[i + 1]
    BY <1>5, Zenon
  <2>. QED
    BY <1>4, <1>5, <2>1, Zenon DEF Lined
<1>10. Queued(s)'
  <2>1. ASSUME NEW i \in DOMAIN g, NEW j \in DOMAIN g, i <= j PROVE g[i][2] <= g[j][2]
    <3>1. i + 1 \in DOMAIN f /\ j + 1 \in DOMAIN f /\ i + 1 <= j + 1 /\ g[i] = f[i + 1] /\ g[j] = f[j + 1]
      <4>1. i \in Int /\ j \in Int
        BY <1>5
      <4>2. i + 1 <= j + 1
        BY <2>1, <4>1
      <4>. QED
        BY <1>5, <4>2, Zenon
    <3>. QED
      BY <1>4, <3>1, Zenon DEF Lined
  <2>2. Lined(g, s, m)
    BY <1>9, <2>1, Zenon DEF Lined
  <2>3. Before(g, r)
    BY <1>4, <1>5, Zenon DEF Before
  <2>. QED
    BY <1>1, <1>4, <2>2, <2>3, Zenon DEF Queued, m
<1>11. Behind(s)'
  <2>1. Known(out', s, m)
    <3>1. b[2] <= m
      BY <1>7
    <3>. QED
      BY <1>4, <1>8, <3>1, Zenon DEF Known
  <2>2. UpTo(out', g)
    <3>1. ASSUME NEW i \in DOMAIN out', NEW j \in DOMAIN g, out'[i][1] = g[j][1] PROVE out'[i][2] <= g[j][2]
      <4>1. CASE out'[i] = b
        BY <1>9, <4>1, Zenon
      <4>2. CASE i \in DOMAIN out /\ out'[i] = out[i]
        BY <1>4, <1>5, <3>1, <4>2, Zenon DEF UpTo
      <4>. QED
        BY <1>8, <4>1, <4>2, Zenon
    <3>. QED
      BY <3>1, Zenon DEF UpTo
  <2>3. Before(out', r)
    <3>1. ASSUME NEW i \in DOMAIN out', NEW j \in DOMAIN r, out'[i][1] = r[j][1] PROVE out'[i][2] < r[j][2]
      <4>1. CASE out'[i] = b
        BY <1>4, <1>5, <3>1, <4>1, Zenon DEF Before
      <4>2. CASE i \in DOMAIN out /\ out'[i] = out[i]
        BY <1>4, <3>1, <4>2, Zenon DEF Before
      <4>. QED
        BY <1>8, <4>1, <4>2, Zenon
    <3>. QED
      BY <3>1, Zenon DEF Before
  <2>. QED
    BY <1>1, <1>2, <2>1, <2>2, <2>3, Zenon DEF Behind, m

<1>12. Unbroken(s)'
  <2> SUFFICES ASSUME NEW i \in DOMAIN out', NEW j \in DOMAIN g, out'[i] = g[j],
                      NEW k \in DOMAIN out', i <= k
               PROVE  out'[k] = out'[i] \/ Instantiation(out'[k][1]) # Instantiation(s)
    BY <1>1, Zenon DEF Unbroken, AtEnd
  <2>1. out'[i] # b => i \in DOMAIN out /\ out'[i] = out[i]
    BY <1>8, Zenon
  <2>2. i \in DOMAIN out => out'[i] = out[i] /\ out'[i] = b
    \* what is out is of no later line than b, and b of no later one than g[j]
    <3> SUFFICES ASSUME i \in DOMAIN out PROVE out'[i] = out[i] /\ out'[i] = b
      OBVIOUS
    <3>1. out'[i] = out[i]
      BY <1>6, Zenon
    <3>2. out[i][1] = s /\ out[i][2] = g[j][2] /\ out[i] \in Byte /\ b[2] <= g[j][2] /\ g[j][2] \in 1..m
      <4>1. g[j][1] = s /\ g[j][2] \in 1..m /\ b[2] <= g[j][2] /\ out[i] = g[j]
        BY <1>9, <3>1, Zenon
      <4>2. out[i] \in Byte
        BY <1>3
      <4>. QED
        BY <4>1, <4>2, Zenon
    <3>3. out[i][2] <= b[2]
      BY <1>4, <1>5, <1>7, <3>2, Zenon DEF UpTo
    <3>4. out[i][2] = b[2]
      BY <1>7, <3>2, <3>3
    <3>5. out[i] = <<out[i][1], out[i][2]>> /\ b = <<b[1], b[2]>>
      BY <1>5, <3>2 DEF Byte
    <3>6. out[i] = b
      BY <1>7, <3>2, <3>4, <3>5, Zenon
    <3>. QED
      BY <3>1, <3>6, Zenon
  <2>3. CASE i \in DOMAIN out
    <3>1. CASE k \in DOMAIN out /\ out'[k] = out[k]
      BY <1>4, <1>5, <2>2, <2>3, <3>1, Zenon DEF AtEnd
    <3>2. CASE out'[k] = b
      BY <2>2, <2>3, <3>2, Zenon
    <3>. QED
      BY <1>8, <3>1, <3>2, Zenon
  <2>4. CASE i = N + 1 /\ out'[i] = b
    <3>1. k = N + 1
      BY <1>3, <1>6, <2>4
    <3>. QED
      BY <2>4, <3>1, Zenon
  <2>. QED
    BY <1>8, <2>3, <2>4, Zenon
<1>13. Conserved(s)'
  <2> SUFFICES ASSUME s \notin short, NEW l \in DOMAIN lengths[s]
               PROVE  Count(out', <<s, l>>) + Count(g, <<s, l>>) + Count(r, <<s, l>>) = lengths[s][l]
    BY <1>1, Zenon DEF Conserved, Adds
  <2> DEFINE c == <<s, l>>
  <2>1. Count(out, c) + Count(f, c) + Count(r, c) = lengths[s][l]
    BY <1>4, Zenon DEF Adds
  <2> HIDE DEF c
  <2>2. Count(out', c) = Count(out, c) + (IF c = b THEN 1 ELSE 0)
    BY <1>1, <1>3, <1>5, CountAppended
  <2>3. Count(f, c) = (IF c = b THEN 1 ELSE 0) + Count(g, c)
    BY <1>1, <1>3, CountTail, Zenon DEF b, g
  <2>4. Count(out, c) \in Nat /\ Count(g, c) \in Nat /\ Count(r, c) \in Nat
    BY <1>3, <1>5, PlacesFinite, Zenon
  <2>5. Count(out', c) + Count(g, c) + Count(r, c) = lengths[s][l]
    BY <2>1, <2>2, <2>3, <2>4
  <2>. QED
    BY <2>5, Zenon DEF c
<1>14. ASSUME NEW t \in Sinks, t # s PROVE SinkOK(t)'
  <2>1. First(t)' = First(t) /\ Rest(t)' = Rest(t)
    BY <1>14, Zenon DEF Emits, Same
  <2>2. /\ Lined(First(t), t, Len(lengths[t])) /\ Lined(Rest(t), t, Len(lengths[t]))
    BY Zenon DEF SinkOK, Queued
  <2>3. Queued(t)'
    BY <1>1, <2>1, Zenon DEF SinkOK, Queued
  <2>4. ASSUME NEW i \in DOMAIN out', out'[i][1] = t PROVE i \in DOMAIN out /\ out'[i] = out[i]
    BY <1>7, <1>8, <1>14, <2>4, Zenon
  <2>5. Behind(t)'
    <3>1. Known(out', t, Len(lengths[t]))
      BY <2>4, Zenon DEF SinkOK, Behind, Known
    <3>2. UpTo(out', First(t))
      BY <2>2, <2>4, Zenon DEF SinkOK, Behind, UpTo, Lined
    <3>3. Before(out', Rest(t))
      BY <2>2, <2>4, Zenon DEF SinkOK, Behind, Before, Lined
    <3>4. ~Has(t) => Before(out', First(t))
      BY <2>2, <2>4, Zenon DEF SinkOK, Behind, Before, Lined
    <3>. QED
      BY <1>1, <1>2, <2>1, <3>1, <3>2, <3>3, <3>4, Zenon DEF Behind
  <2>6. Unbroken(t)'
    <3> SUFFICES ASSUME Has(t), NEW i \in DOMAIN out', NEW j \in DOMAIN First(t), out'[i] = First(t)[j],
                        NEW k \in DOMAIN out', i <= k
                 PROVE  out'[k] = out'[i] \/ Instantiation(out'[k][1]) # Instantiation(t)
      BY <1>2, <2>1, Zenon DEF Unbroken, AtEnd
    <3>1. Instantiation(s) # Instantiation(t)
      BY <1>1, <1>14, Zenon DEF Has
    <3>2. i \in DOMAIN out /\ out'[i] = out[i]
      BY <2>2, <2>4, Zenon DEF Lined
    <3>3. CASE k \in DOMAIN out /\ out'[k] = out[k]
      BY <3>2, <3>3, Zenon DEF SinkOK, Unbroken, AtEnd
    <3>4. CASE out'[k] = b
      BY <1>7, <3>1, <3>4, Zenon
    <3>. QED
      BY <1>8, <3>3, <3>4, Zenon
  <2>7. Conserved(t)'
    <3> SUFFICES ASSUME t \notin short, NEW l \in DOMAIN lengths[t]
                 PROVE  Count(out', <<t, l>>) + Count(First(t), <<t, l>>) + Count(Rest(t), <<t, l>>) = lengths[t][l]
      BY <1>1, <2>1, Zenon DEF Conserved, Adds
    <3> DEFINE c == <<t, l>>
    <3>1. Count(out, c) + Count(First(t), c) + Count(Rest(t), c) = lengths[t][l]
      BY Zenon DEF SinkOK, Conserved, Adds
    <3>2. c # b
      <4>1. c[1] = t
        OBVIOUS
      <4>. QED
        BY <1>7, <1>14, <4>1, Zenon
    <3> HIDE DEF c
    <3>3. Count(out', c) = Count(out, c) + (IF c = b THEN 1 ELSE 0)
      BY <1>1, <1>3, <1>5, CountAppended
    <3>4. Count(out, c) \in Nat
      BY <1>3, PlacesFinite, Zenon
    <3>5. Count(out', c) = Count(out, c)
      BY <3>2, <3>3, <3>4
    <3>. QED
      BY <3>1, <3>5, Zenon DEF c
  <2>. QED
    BY <2>3, <2>5, <2>6, <2>7, Zenon DEF SinkOK
<1>15. StdoutLinesIntact'
  <2> SUFFICES ASSUME NEW i \in DOMAIN out', NEW j \in DOMAIN out', i < j
               PROVE  /\ out'[i][1] = out'[j][1] => out'[i][2] <= out'[j][2]
                      /\ out'[i] = out'[j] => \A k \in i..j :
                           out'[k] = out'[i] \/ Instantiation(out'[k][1]) # Instantiation(out'[i][1])
    BY DEF StdoutLinesIntact
  <2>1. i \in 1..N /\ j \in 1..(N + 1) /\ i \in DOMAIN out /\ out'[i] = out[i]
    BY <1>3, <1>6
  <2>2. CASE j \in DOMAIN out
    <3>1. out'[j] = out[j] /\ \A k \in i..j : out'[k] = out[k]
      BY <1>3, <1>6, <2>1, <2>2
    <3>. QED
      BY <2>1, <2>2, <3>1, ZenonT(40) DEF StdoutLinesIntact
  <2>3. CASE j = N + 1
    <3>1. out'[j] = b
      BY <1>6, <2>3, Zenon
    <3>2. out[i][1] = b[1] => out[i][2] <= b[2]
      BY <1>4, <1>5, <2>1, Zenon DEF UpTo
    <3>3. ASSUME out[i] = b, NEW k \in i..j
          PROVE  out'[k] = out'[i] \/ Instantiation(out'[k][1]) # Instantiation(out'[i][1])
      <4>1. k \in DOMAIN out' /\ i <= k
        BY <1>3, <1>6, <2>1, <2>3
      <4>2. CASE out'[k] = b
        BY <2>1, <3>3, <4>2, Zenon
      <4>3. CASE k \in DOMAIN out /\ out'[k] = out[k]
        <5>1. out[k] = out[i] \/ Instantiation(out[k][1]) # Instantiation(s)
          BY <1>4, <1>5, <2>1, <3>3, <4>1, <4>3, Zenon DEF AtEnd
        <5>. QED
          BY <1>7, <2>1, <3>3, <4>3, <5>1, Zenon
      <4>. QED
        BY <1>8, <4>1, <4>2, <4>3, Zenon
    <3>. QED
      BY <2>1, <3>1, <3>2, <3>3, Zenon
  <2>. QED
    BY <1>3, <1>6, <2>1, <2>2, <2>3
<1>. QED
  BY <1>10, <1>11, <1>12, <1>13, <1>14, <1>15, Zenon DEF SinkOK
-----------------------------------------------------------------------------
(* The theorems about StdoutSink *)

LEMMA OutKept ==
  ASSUME StdoutLinesIntact, out' = out
  PROVE  StdoutLinesIntact'
BY DEF StdoutLinesIntact

LEMMA StdoutStep ==
  ASSUME StdoutInvariant, [StdoutNext]_stdoutVars
  PROVE  StdoutInvariant'
<1> USE DEF StdoutInvariant
<1>1. CASE StdoutNext
  <2>1. StdoutTypes' /\ Writes' /\ OverrunAtMostOne'
    BY <1>1, StdoutTypesStep
  <2>2. ASSUME out' = out PROVE StdoutLinesIntact'
    BY <2>2, OutKept, Zenon
  <2>3. ASSUME NEW s \in Sinks, NEW n \in Nat, Comes(s, n)
        PROVE  (\A t \in Sinks : SinkOK(t)') /\ StdoutLinesIntact'
    BY <2>2, <2>3, ComesKeeps, Zenon DEF Comes
  <2>4. ASSUME NEW s \in Sinks, Advances(s)
        PROVE  (\A t \in Sinks : SinkOK(t)') /\ StdoutLinesIntact'
    BY <2>2, <2>4, AdvancesKeeps, Zenon DEF Advances
  <2>5. ASSUME NEW s \in Sinks, Emits(s)
        PROVE  (\A t \in Sinks : SinkOK(t)') /\ StdoutLinesIntact'
    BY <2>5, EmitsKeeps, Zenon
  <2>6. ASSUME NEW s \in Sinks, Cuts(s)
        PROVE  (\A t \in Sinks : SinkOK(t)') /\ StdoutLinesIntact'
    BY <2>2, <2>6, CutsKeeps, Zenon DEF Cuts
  <2>7. ASSUME NEW s \in Sinks, Locks(s)
        PROVE  (\A t \in Sinks : SinkOK(t)') /\ StdoutLinesIntact'
    BY <2>2, <2>7, LocksKeeps, Zenon DEF Locks
  <2>8. ASSUME Rests
        PROVE  (\A t \in Sinks : SinkOK(t)') /\ StdoutLinesIntact'
    BY <2>2, <2>8, RestsKeeps, Zenon DEF Rests
  <2>9. (\A t \in Sinks : SinkOK(t)') /\ StdoutLinesIntact'
    BY <1>1, <2>3, <2>4, <2>5, <2>6, <2>7, <2>8, StdoutMoves, Zenon
  <2>. QED
    BY <2>1, <2>9, Zenon
<1>2. CASE UNCHANGED stdoutVars
  <2>1. \A t \in Sinks : First(t)' = First(t) /\ Rest(t)' = Rest(t) /\ (Has(t)' <=> Has(t))
    BY <1>2, Zenon DEF First, Rest, Has, stdoutVars
  <2>2. StdoutTypes' /\ Writes' /\ OverrunAtMostOne' /\ StdoutLinesIntact'
    BY <1>2, <2>1, OutKept, Zenon DEF StdoutTypes, Writes, OverrunAtMostOne, Cursor, stdoutVars
  <2>3. \A t \in Sinks : SinkOK(t)'
    BY <1>2, <2>1, Zenon DEF SinkOK, Queued, Behind, Unbroken, Conserved, stdoutVars
  <2>. QED
    BY <2>2, <2>3, Zenon
<1>. QED
  BY <1>1, <1>2

LEMMA StdoutBegins == StdoutInit => StdoutInvariant
<1> SUFFICES ASSUME StdoutInit PROVE StdoutInvariant
  OBVIOUS
<1>1. /\ \A s \in Sinks : /\ buffers_[s] = <<>> /\ todo[s] = <<>> /\ lengths[s] = <<>> /\ state[s] = "up"
      /\ out = <<>> /\ short = {}
  BY DEF StdoutInit
<1>2. StdoutTypes
  <2>1. owner \in [BOOLEAN -> Sinks \cup {Nobody}]
    BY Zenon DEF StdoutInit
  <2>2. /\ buffers_ \in [Sinks -> Seq(Byte)] /\ todo \in [Sinks -> Seq(Seq(Byte))] /\ out \in Seq(Byte)
        /\ state \in [Sinks -> {"up", "down"}] /\ lengths \in [Sinks -> Seq(Nat)] /\ short \in SUBSET Sinks
    BY DEF StdoutInit
  <2>. QED
    BY <2>1, <2>2, Zenon DEF StdoutTypes
<1>3. \A s \in Sinks : ~Has(s)
  <2>1. \A s \in Sinks : s # Nobody
    BY StdoutConstants
  <2>2. ASSUME NEW s \in Sinks PROVE owner[Instantiation(s)] = Nobody
    <3>1. Instantiation(s) = TRUE \/ Instantiation(s) = FALSE
      BY DEF Instantiation
    <3>2. owner[TRUE] = Nobody /\ owner[FALSE] = Nobody
      BY Zenon DEF StdoutInit
    <3>. QED
      BY <3>1, <3>2, Zenon
  <2>. QED
    BY <2>1, <2>2, Zenon DEF Has
<1>4. Writes
  <2>1. Len(<<>>) <= 2 /\ Len(<<>>) # 2
    OBVIOUS
  <2>. QED
    BY <1>1, <1>3, <2>1, Zenon DEF Writes
<1>5. ASSUME NEW s \in Sinks PROVE SinkOK(s)
  <2>1. First(s) = <<>> /\ Rest(s) = <<>>
    BY <1>1 DEF First, Rest
  <2>2. Known(<<>>, s, Len(lengths[s])) /\ Adds(<<>>, <<>>, <<>>, s, <<>>)
    BY DEF Known, Adds
  <2>3. Queued(s) /\ Behind(s)
    BY <1>1, <2>1, <2>2, NoneInWait, Zenon DEF Queued, Behind
  <2>4. Unbroken(s) /\ Conserved(s)
    BY <1>1, <1>3, <2>1, <2>2, Zenon DEF Unbroken, Conserved
  <2>. QED
    BY <2>3, <2>4 DEF SinkOK
<1>6. StdoutLinesIntact
  BY <1>1 DEF StdoutLinesIntact
<1>7. OverrunAtMostOne
  BY <1>1, StdoutConstants DEF OverrunAtMostOne, Cursor
<1>. QED
  BY <1>2, <1>4, <1>5, <1>6, <1>7, Zenon DEF StdoutInvariant

\* What StdoutSink's functions keep between them, whatever the sinks of the
\* process: on_log, flush, write_direct, the destructor, the mutex of each
\* instantiation and a kernel that takes bytes as it likes.
THEOREM StdoutInvariance == StdoutSpec => []StdoutInvariant
<1>1. StdoutInit => StdoutInvariant
  BY StdoutBegins
<1>2. StdoutInvariant /\ [StdoutNext]_stdoutVars => StdoutInvariant'
  BY StdoutStep
<1>. QED
  BY <1>1, <1>2, PTL DEF StdoutSpec

\* The lines of a sink come out in the order they were logged in, those that
\* write_direct sends around the buffer included, and no sink of the same
\* instantiation comes between the bytes of one, because each write is made
\* under stdout_mutex_ and holds whole lines only.
THEOREM StdoutLinesStayIntact == StdoutSpec => []StdoutLinesIntact
<1>1. StdoutInvariant => StdoutLinesIntact
  BY DEF StdoutInvariant
<1>. QED
  BY <1>1, StdoutInvariance, PTL

\* buffer_ is filled at most one byte beyond kBufferCapacity, and only by a
\* coloured line: estimate_length is one short of a line, not of the buffer.
THEOREM OverrunIsBounded == StdoutSpec => []OverrunAtMostOne
<1>1. StdoutInvariant => OverrunAtMostOne
  BY DEF StdoutInvariant
<1>. QED
  BY <1>1, StdoutInvariance, PTL

\* When the destructor of a sink has returned, every byte of every line it
\* was given has been written once, unless a write(2) was cut short, the
\* result of which StdoutSink does not look at.
THEOREM DestroyedSinkIsEmpty == StdoutSpec => []DestroyedSinkWroteAll
<1>1. StdoutInvariant => DestroyedSinkWroteAll
  <2> SUFFICES ASSUME StdoutInvariant, NEW s \in Sinks \ short, state[s] = "down", todo[s] = <<>>,
                      NEW l \in DOMAIN lengths[s]
               PROVE  Cardinality({i \in DOMAIN out : out[i] = <<s, l>>}) = lengths[s][l]
    BY DEF DestroyedSinkWroteAll, Quantify
  <2>1. buffers_[s] = <<>>
    BY Zenon DEF StdoutInvariant, Writes
  <2>2. First(s) = <<>> /\ Rest(s) = <<>>
    <3>1. Len(<<>>) # 2
      OBVIOUS
    <3>. QED
      BY <2>1, <3>1, Zenon DEF First, Rest
  <2>3. Count(out, <<s, l>>) + Count(<<>>, <<s, l>>) + Count(<<>>, <<s, l>>) = lengths[s][l]
    BY <2>2, Zenon DEF StdoutInvariant, SinkOK, Conserved, Adds
  <2>4. Count(out, <<s, l>>) \in Nat /\ Count(<<>>, <<s, l>>) = 0
    BY PlacesFinite, CountNone, Zenon DEF StdoutInvariant, StdoutTypes
  <2>5. Count(out, <<s, l>>) = lengths[s][l]
    BY <2>3, <2>4
  <2>. QED
    BY <2>5 DEF Count, Places
<1>. QED
  BY <1>1, StdoutInvariance, PTL
=============================================================================
