-------------------------- MODULE SpscQueueProofs ---------------------------
(***************************************************************************)
(* SpscQueue is correct for every capacity, every width of the index,      *)
(* every mix of operation sizes and any number of bytes: QueueInvariant is *)
(* inductive, and the safety properties model-checked on small rings       *)
(* follow from it.  So is the framing of log entries over the queue, whose *)
(* steps are steps of the queue, in the second part.                       *)
(***************************************************************************)
EXTENDS EntryChannel, RingProofs

\* What the assumptions on the constants give for the capacity in use.
LEMMA CapacityFacts ==
  ASSUME capacity_ \in Capacities \cup {0}
  PROVE  /\ IndexMod \in Nat /\ IndexMod > 0
         /\ capacity_ \in Nat /\ capacity_ < IndexMod
         /\ capacity_ > 0 => \E q \in Nat : q > 0 /\ IndexMod = q * capacity_
<1>1. IndexMod \in Nat /\ IndexMod > 0
  BY SpscConstants
<1>2. CASE capacity_ = 0
  BY <1>1, <1>2
<1>3. CASE capacity_ \in Capacities
  <2>1. PICK q \in 2..IndexMod : IndexMod = q * capacity_
    BY <1>3, CapacityConstants, Zenon
  <2>2. capacity_ \in Nat /\ capacity_ > 0
    BY <1>3, CapacityConstants, Zenon
  <2>3. capacity_ < q * capacity_
    BY <2>2
  <2>. QED
    BY <1>1, <2>1, <2>2, <2>3
<1>4. QED
  BY <1>2, <1>3

\* The two distances the operations compute from the wrapping indices are the
\* true ones.
LEMMA Distances ==
  ASSUME QueueInvariant
  PROVE  /\ Minus(tail_idx_, head_idx_) = InFlight
         /\ Minus(tail_cached_snapshot_, head_idx_) = synced - consumed
         /\ InFlight \in 0..capacity_ /\ synced - consumed \in 0..InFlight
         /\ FreeSpace(tail_idx_, head_idx_) = capacity_ - InFlight
         /\ Minus(tail_idx_, head_cached_snapshot_) \in 0..capacity_
         /\ FreeSpace(tail_idx_, head_cached_snapshot_)
              = capacity_ - Minus(tail_idx_, head_cached_snapshot_)
<1>1. /\ IndexMod \in Nat /\ IndexMod > 0 /\ capacity_ \in Nat /\ capacity_ < IndexMod
  BY CapacityFacts DEF QueueInvariant, TypeOK
<1>2. /\ head_idx_ \in Int /\ tail_idx_ \in Int /\ head_cached_snapshot_ \in Int
      /\ published \in Int /\ consumed \in Int /\ synced \in Int
      /\ consumed <= synced /\ synced <= published /\ InFlight <= capacity_
      /\ tail_idx_ = Plus(head_idx_, InFlight)
      /\ tail_cached_snapshot_ = Plus(head_idx_, synced - consumed)
      /\ InFlight <= Minus(tail_idx_, head_cached_snapshot_)
      /\ Minus(tail_idx_, head_cached_snapshot_) <= capacity_
  BY SpscConstants DEF QueueInvariant, TypeOK, IndicesFollowStream
<1>3. InFlight \in 0..capacity_ /\ synced - consumed \in 0..InFlight
  BY <1>1, <1>2 DEF InFlight
<1>4. InFlight \in 0..(IndexMod - 1) /\ synced - consumed \in 0..(IndexMod - 1)
  BY <1>1, <1>3
<1>5. /\ Minus(tail_idx_, head_idx_) = InFlight
      /\ Minus(tail_cached_snapshot_, head_idx_) = synced - consumed
  BY <1>1, <1>2, <1>4, MinusPlus DEF Plus, Minus
<1>6. tail_idx_ - head_cached_snapshot_ \in Int
  BY <1>2
<1>7. Minus(tail_idx_, head_cached_snapshot_) \in 0..capacity_
  BY <1>1, <1>2, <1>3, <1>6, ModRange DEF Minus
<1>8. ASSUME NEW u \in 0..capacity_ PROVE Minus(capacity_, u) = capacity_ - u
  <2>1. capacity_ - u \in 0..(IndexMod - 1)
    BY <1>1
  <2>. QED
    BY <1>1, <2>1, ModSmall DEF Minus
<1>9. QED
  BY <1>3, <1>5, <1>7, <1>8 DEF FreeSpace
\* Index arithmetic: advancing twice is advancing once, and the slot of an
\* advanced index does not depend on whether the index has wrapped, because
\* the capacity divides the modulus.
LEMMA PlusPlus ==
  ASSUME NEW h \in Int, NEW x \in Int, NEW y \in Int
  PROVE  Plus(Plus(h, x), y) = Plus(h, x + y)
<1>1. IndexMod \in Nat /\ IndexMod > 0 /\ h + x \in Int
  BY SpscConstants
<1>2. (((h + x) % IndexMod) + y) % IndexMod = ((h + x) + y) % IndexMod
  BY <1>1, ModPlus, Zenon
<1>3. (h + x) + y = h + (x + y)
  OBVIOUS
<1>4. QED
  BY <1>2, <1>3, Zenon DEF Plus

LEMMA SlotShift ==
  ASSUME capacity_ \in Capacities \cup {0}, capacity_ > 0,
         NEW h \in Int, NEW x \in Int, NEW y \in Int
  PROVE  (Plus(h, x) + y) % capacity_ = (h + (x + y)) % capacity_
<1>1. IndexMod \in Nat /\ capacity_ \in Nat /\ h + x \in Int
  <2>1. IndexMod \in Nat /\ capacity_ \in Nat
    BY CapacityFacts, Zenon
  <2>2. h + x \in Int
    OBVIOUS
  <2>. QED
    BY <2>1, <2>2
<1>2. \E q \in Nat : q > 0 /\ IndexMod = q * capacity_
  BY CapacityFacts, Zenon
<1>3. (((h + x) % IndexMod) + y) % capacity_ = ((h + x) + y) % capacity_
  BY <1>1, <1>2, ModOfMod, ZenonT(40)
<1>4. (h + x) + y = h + (x + y)
  OBVIOUS
<1>5. QED
  BY <1>3, <1>4, Zenon DEF Plus

\* The types of the numbers, without the sets they are drawn from.
LEMMA Numbers ==
  ASSUME QueueInvariant
  PROVE  /\ IndexMod \in Nat /\ IndexMod > 0 /\ capacity_ \in Nat /\ capacity_ < IndexMod
         /\ head_idx_ \in Int /\ tail_idx_ \in Int /\ head_cached_snapshot_ \in Int
         /\ published \in Nat /\ consumed \in Nat /\ synced \in Nat /\ InFlight \in Nat
         /\ ptotal \in Nat /\ poffset \in 0..ptotal /\ ctotal \in Nat
         /\ cgot \in Seq(Int) /\ Len(cgot) \in 0..ctotal
<1>1. capacity_ \in Capacities \cup {0}
  BY DEF QueueInvariant, TypeOK
<1>2. InFlight \in Nat
  <2>1. capacity_ \in Nat /\ InFlight \in 0..capacity_
    BY <1>1, Distances, CapacityFacts, Zenon
  <2>. QED
    BY <2>1
<1>3. IndexMod \in Nat /\ IndexMod > 0 /\ capacity_ \in Nat /\ capacity_ < IndexMod
  BY <1>1, CapacityFacts, Zenon
<1>4. QED
  BY <1>2, <1>3, SpscConstants DEF QueueInvariant, TypeOK
-----------------------------------------------------------------------------
LEMMA InitInvariant == Init => QueueInvariant
<1> SUFFICES ASSUME Init PROVE QueueInvariant
  OBVIOUS
<1>1. IndexMod \in Nat /\ IndexMod > 0 /\ MaxBytes \in Nat
  BY SpscConstants
<1>2. 0 % IndexMod = 0
  BY <1>1
<1>3. TypeOK
  BY <1>1 DEF Init, TypeOK, Slots
<1>4. ProducerLocals /\ ConsumerLocals
  BY <1>1 DEF Init, ProducerLocals, ConsumerLocals
<1>5. IndicesFollowStream
  BY <1>2 DEF Init, IndicesFollowStream, InFlight, Plus, Minus
<1>6. RingHoldsStream
  BY DEF Init, RingHoldsStream, InFlight
<1>7. QED
  BY <1>3, <1>4, <1>5, <1>6 DEF QueueInvariant
-----------------------------------------------------------------------------
(* One lemma per action: the invariant survives it.  What an action leaves *)
(* alone it cannot disturb, so a lemma only looks at the other conjuncts.  *)

LEMMA ReserveInvariant ==
  ASSUME QueueInvariant, NEW c \in Capacities \cup {0}, Reserve(c)
  PROVE  QueueInvariant'
<1>1. IndexMod \in Nat /\ IndexMod > 0 /\ MaxBytes \in Nat
  BY SpscConstants
<1>2. 0 % IndexMod = 0
  BY <1>1
<1>3. c \in Nat
  <2>1. CASE c \in Capacities
    BY <2>1, CapacityConstants, Zenon
  <2>2. CASE c = 0
    BY <2>2
  <2>. QED
    BY <2>1, <2>2
<1>4. /\ ppc = "idle" /\ ptotal = 0 /\ poffset = 0
      /\ cpc = "idle" /\ ctotal = 0 /\ cgot = <<>>
  BY DEF QueueInvariant, ProducerLocals, ConsumerLocals, Reserve
<1>5. TypeOK'
  <2>1. buffer_' \in [Slots' -> Int]
    BY DEF Reserve, Slots, Garbage
  <2>. QED
    BY <1>1, <1>4, <2>1 DEF QueueInvariant, TypeOK, Reserve
<1>6. ProducerLocals' /\ ConsumerLocals'
  BY <1>1, <1>4 DEF QueueInvariant, ProducerLocals, ConsumerLocals, Reserve, InFlight
<1>7. IndicesFollowStream'
  BY <1>2, <1>3 DEF Reserve, IndicesFollowStream, InFlight, Plus, Minus
<1>8. RingHoldsStream'
  BY <1>4 DEF Reserve, RingHoldsStream, InFlight
<1>9. QED
  BY <1>5, <1>6, <1>7, <1>8 DEF QueueInvariant

LEMMA EnqueueRefuseInvariant ==
  ASSUME QueueInvariant, NEW n \in OpSizes, EnqueueRefuse(n)
  PROVE  QueueInvariant'
<1>1. TypeOK'
  BY DEF QueueInvariant, TypeOK, Slots, EnqueueRefuse, EarlyReturn, memory, consumer
<1>2. QED
  BY <1>1 DEF QueueInvariant, EnqueueRefuse, memory, consumer, ProducerLocals, ConsumerLocals,
              IndicesFollowStream, RingHoldsStream, InFlight

LEMMA EnqueueCallInvariant ==
  ASSUME QueueInvariant, NEW n \in OpSizes, EnqueueCall(n)
  PROVE  QueueInvariant'
<1>1. n \in Nat /\ n > 0 /\ capacity_ \in Nat /\ capacity_ > 0 /\ poffset = 0
  BY SpscConstants, CapacityFacts
     DEF QueueInvariant, TypeOK, ProducerLocals, EnqueueCall, Refused
<1>2. TypeOK'
  BY <1>1 DEF QueueInvariant, TypeOK, Slots, EnqueueCall, memory, consumer
<1>3. ProducerLocals'
  BY <1>1, Distances DEF QueueInvariant, EnqueueCall, memory, consumer, ProducerLocals
<1>4. QED
  BY <1>2, <1>3 DEF QueueInvariant, EnqueueCall, memory, consumer, ConsumerLocals,
                    IndicesFollowStream, RingHoldsStream, InFlight

LEMMA EnqueueReloadInvariant ==
  ASSUME QueueInvariant, EnqueueReload
  PROVE  QueueInvariant'
<1>1. /\ ptotal \in Nat /\ ptotal > 0 /\ capacity_ \in Nat /\ capacity_ > 0 /\ poffset = 0
      /\ ppc = "reload"
  BY SpscConstants, CapacityFacts
     DEF QueueInvariant, TypeOK, ProducerLocals, EnqueueReload
<1>2. TypeOK'
  BY <1>1 DEF QueueInvariant, TypeOK, Slots, EnqueueReload, memory, consumer
<1>3. ProducerLocals'
  <2>1. /\ Minus(tail_idx_, head_idx_) = InFlight
        /\ FreeSpace(tail_idx_, head_idx_) = capacity_ - InFlight
    BY Distances
  <2>2. InFlight \in Nat /\ published \in Nat /\ MaxBytes \in Nat
    BY Numbers, SpscConstants
  <2>3. published + ptotal <= MaxBytes
    BY DEF QueueInvariant, ProducerLocals
  <2>4. /\ poffset' = 0 /\ published' = published /\ capacity_' = capacity_
        /\ Minus(tail_idx_', head_cached_snapshot_') = InFlight
    BY <1>1, <2>1, Zenon DEF EnqueueReload, memory
  <2>5. CASE capacity_ - InFlight < ptotal
    <3>1. ppc' = "idle" /\ ptotal' = 0
      BY <2>1, <2>5, Zenon DEF EnqueueReload
    <3>. QED
      BY <1>1, <2>2, <2>3, <2>4, <3>1 DEF ProducerLocals
  <2>6. CASE ~(capacity_ - InFlight < ptotal)
    <3>1. ppc' = "copy" /\ ptotal' = ptotal
      BY <2>1, <2>6, Zenon DEF EnqueueReload
    <3>2. InFlight + ptotal <= capacity_
      BY <1>1, <2>2, <2>6
    <3>. QED
      BY <1>1, <2>3, <2>4, <3>1, <3>2 DEF ProducerLocals
  <2>. QED
    BY <2>5, <2>6
<1>4. IndicesFollowStream'
  BY <1>1, Distances DEF QueueInvariant, EnqueueReload, memory, consumer, IndicesFollowStream,
                         InFlight
<1>5. QED
  BY <1>2, <1>3, <1>4 DEF QueueInvariant, EnqueueReload, memory, consumer, ConsumerLocals,
                    RingHoldsStream, InFlight

LEMMA DequeueRefuseInvariant ==
  ASSUME QueueInvariant, NEW n \in OpSizes, DequeueRefuse(n)
  PROVE  QueueInvariant'
<1>1. TypeOK'
  BY DEF QueueInvariant, TypeOK, Slots, DequeueRefuse, EarlyReturn, memory, producer
<1>2. QED
  BY <1>1 DEF QueueInvariant, DequeueRefuse, memory, producer, ProducerLocals, ConsumerLocals,
              IndicesFollowStream, RingHoldsStream, InFlight

LEMMA DequeueCallInvariant ==
  ASSUME QueueInvariant, NEW n \in OpSizes, DequeueCall(n)
  PROVE  QueueInvariant'
<1>1. n \in Nat /\ n > 0 /\ capacity_ \in Nat /\ capacity_ > 0 /\ cgot = <<>>
  BY SpscConstants, CapacityFacts
     DEF QueueInvariant, TypeOK, ConsumerLocals, DequeueCall, Refused
<1>2. TypeOK'
  BY <1>1 DEF QueueInvariant, TypeOK, Slots, DequeueCall, memory, producer
<1>3. ConsumerLocals'
  BY <1>1, Distances DEF QueueInvariant, TypeOK, DequeueCall, memory, producer, ConsumerLocals, InFlight
<1>4. QED
  BY <1>2, <1>3 DEF QueueInvariant, DequeueCall, memory, producer, ProducerLocals,
                    IndicesFollowStream, RingHoldsStream, InFlight

LEMMA DequeueReloadInvariant ==
  ASSUME QueueInvariant, DequeueReload
  PROVE  QueueInvariant'
<1>1. /\ ctotal \in Nat /\ ctotal > 0 /\ capacity_ \in Nat /\ capacity_ > 0 /\ cgot = <<>>
      /\ cpc = "reload"
  BY SpscConstants, CapacityFacts
     DEF QueueInvariant, TypeOK, ConsumerLocals, DequeueReload
<1>2. TypeOK'
  BY <1>1, SMTT(30) DEF QueueInvariant, TypeOK, Slots, DequeueReload, memory, producer
<1>3. ConsumerLocals'
  BY <1>1, Distances, SMTT(30) DEF QueueInvariant, TypeOK, DequeueReload, memory, producer, ConsumerLocals,
                         InFlight
<1>4. IndicesFollowStream'
  <2>1. consumed <= published
    BY Distances DEF QueueInvariant, TypeOK, InFlight
  <2>. QED
    BY <1>1, <2>1, Distances DEF QueueInvariant, DequeueReload, memory, producer,
                                 IndicesFollowStream, InFlight
<1>5. QED
  BY <1>2, <1>3, <1>4 DEF QueueInvariant, DequeueReload, memory, producer, ProducerLocals,
                    RingHoldsStream, InFlight

LEMMA DequeueReturnInvariant ==
  ASSUME QueueInvariant, DequeueReturn
  PROVE  QueueInvariant'
<1>1. TypeOK'
  BY DEF QueueInvariant, TypeOK, Slots, DequeueReturn, memory, producer
<1>2. QED
  BY <1>1 DEF QueueInvariant, DequeueReturn, memory, producer, ProducerLocals, ConsumerLocals,
              IndicesFollowStream, RingHoldsStream, InFlight

LEMMA PeekCallInvariant ==
  ASSUME QueueInvariant, NEW n \in OpSizes, PeekCall(n)
  PROVE  QueueInvariant'
<1>1. n \in Nat /\ n > 0 /\ capacity_ \in Nat /\ capacity_ > 0 /\ cgot = <<>>
  BY SpscConstants, CapacityFacts
     DEF QueueInvariant, TypeOK, ConsumerLocals, PeekCall, Refused
<1>2. TypeOK'
  BY <1>1, SMTT(30) DEF QueueInvariant, TypeOK, Slots, PeekCall, memory, producer
<1>3. ConsumerLocals'
  BY <1>1, Distances, SMTT(30) DEF QueueInvariant, TypeOK, PeekCall, memory, producer, ConsumerLocals, InFlight
<1>4. QED
  BY <1>2, <1>3 DEF QueueInvariant, PeekCall, memory, producer, ProducerLocals,
                    IndicesFollowStream, RingHoldsStream, InFlight

\* The bytes go to slots that hold none of the bytes in flight.
LEMMA EnqueueCopyInvariant ==
  ASSUME QueueInvariant, NEW k \in 1..ptotal, EnqueueCopy(k)
  PROVE  QueueInvariant'
<1> DEFINE N == InFlight + poffset
           a == Plus(tail_idx_, poffset)
           first == published + poffset
           b == CopyIn(capacity_, buffer_, a, first, k)
<1>1. /\ ppc = "copy" /\ capacity_ > 0 /\ capacity_ \in Nat /\ k \in Nat /\ N \in Nat
      /\ InFlight \in Nat /\ poffset \in Nat /\ head_idx_ \in Int
      /\ published \in Nat /\ consumed \in Nat /\ poffset + k <= ptotal /\ ptotal \in Nat
  <2>1. ppc = "copy" /\ k <= ptotal - poffset
    BY DEF EnqueueCopy
  <2>2. capacity_ > 0
    BY <2>1 DEF QueueInvariant, ProducerLocals
  <2>. QED
    BY <2>1, <2>2, Numbers, SMTT(30)
<1>2. N + k <= capacity_
  <2>1. InFlight <= Minus(tail_idx_, head_cached_snapshot_)
    BY DEF QueueInvariant, IndicesFollowStream
  <2>2. Minus(tail_idx_, head_cached_snapshot_) + ptotal <= capacity_
    BY <1>1 DEF QueueInvariant, ProducerLocals
  <2>3. Minus(tail_idx_, head_cached_snapshot_) \in Int
    BY <1>1, Distances
  <2>. QED
    BY <1>1, <2>1, <2>2, <2>3
<1>3. a = Plus(head_idx_, N) /\ a \in Int
  <2>1. tail_idx_ = Plus(head_idx_, InFlight)
    BY DEF QueueInvariant, IndicesFollowStream
  <2>2. InFlight \in Int /\ poffset \in Int
    BY <1>1
  <2>3. a = Plus(head_idx_, N)
    BY <1>1, <2>1, <2>2, PlusPlus, Zenon
  <2>. QED
    BY <1>1, <2>3, Numbers, ModRange DEF Plus
<1> HIDE DEF a, N
<1>4. ASSUME NEW j \in Int PROVE (a + j) % capacity_ = (head_idx_ + (N + j)) % capacity_
  <2>1. capacity_ \in Capacities \cup {0} /\ N \in Int
    BY <1>1 DEF QueueInvariant, TypeOK
  <2>. QED
    BY <1>1, <1>3, <2>1, SlotShift, Zenon
<1>5. buffer_ \in [0..(capacity_ - 1) -> Int] /\ k \in 0..capacity_ /\ first \in Int
  BY <1>1, <1>2, SMTT(30) DEF QueueInvariant, TypeOK, Slots
<1> HIDE DEF first
<1>6. /\ b \in [0..(capacity_ - 1) -> Int]
      /\ \A i \in 0..(k - 1) : b[(a + i) % capacity_] = first + i
      /\ \A s \in 0..(capacity_ - 1) :
           (\A i \in 0..(k - 1) : s # (a + i) % capacity_) => b[s] = buffer_[s]
  <2>1. capacity_ \in Nat /\ capacity_ > 0 /\ a \in Int
    BY <1>1, <1>3
  <2>2. b \in [0..(capacity_ - 1) -> Int]
    BY <1>5, <2>1, CopyInSpec, Zenon
  <2>3. \A i \in 0..(k - 1) : b[(a + i) % capacity_] = first + i
    BY <1>5, <2>1, CopyInSpec, Zenon
  <2>4. \A s \in 0..(capacity_ - 1) :
           (\A i \in 0..(k - 1) : s # (a + i) % capacity_) => b[s] = buffer_[s]
    BY <1>5, <2>1, CopyInSpec, Zenon
  <2>. QED
    BY <2>2, <2>3, <2>4
<1> HIDE DEF b
<1>7. buffer_' = b /\ poffset' = poffset + k /\ UNCHANGED <<capacity_, head_idx_, consumed, published>>
  BY DEF EnqueueCopy, a, b, first, consumer
<1>8. ASSUME NEW i \in 0..(N + k - 1)
      PROVE  b[(head_idx_ + i) % capacity_] = consumed + i
  <2>1. CASE i < N
    <3>1. ASSUME NEW j \in 0..(k - 1)
          PROVE  (head_idx_ + i) % capacity_ # (a + j) % capacity_
      <4>1. /\ i \in Int /\ N + j \in Int /\ i < N + j /\ (N + j) - i < capacity_ /\ j \in Int
        BY <1>1, <1>2, <2>1
      <4>2. (head_idx_ + i) % capacity_ # (head_idx_ + (N + j)) % capacity_
        BY <1>1, <4>1, ModApart, Zenon
      <4>. QED
        BY <1>4, <4>1, <4>2, Zenon
    <3>2. (head_idx_ + i) % capacity_ \in 0..(capacity_ - 1)
      <4>1. head_idx_ + i \in Int
        BY <1>1
      <4>. QED
        BY <1>1, <4>1, ModRange, Zenon
    <3>3. b[(head_idx_ + i) % capacity_] = buffer_[(head_idx_ + i) % capacity_]
      BY <1>6, <3>1, <3>2, Zenon
    <3>4. i \in 0..(InFlight + poffset - 1)
      BY <1>1, <2>1 DEF N
    <3>5. buffer_[(head_idx_ + i) % capacity_] = consumed + i
      BY <3>4, Zenon DEF QueueInvariant, RingHoldsStream
    <3>. QED
      BY <3>3, <3>5, Zenon
  <2>2. CASE ~(i < N)
    <3> DEFINE j == i - N
    <3>1. j \in 0..(k - 1) /\ j \in Int /\ N + j = i
      BY <1>1, <2>2
    <3>2. first + j = consumed + i
      BY <1>1, <3>1 DEF N, InFlight, first
    <3> HIDE DEF j
    <3>3. b[(a + j) % capacity_] = first + j
      BY <1>6, <3>1, Zenon
    <3>4. (a + j) % capacity_ = (head_idx_ + i) % capacity_
      BY <1>4, <3>1, Zenon
    <3>. QED
      BY <3>2, <3>3, <3>4, Zenon
  <2>. QED
    BY <2>1, <2>2
<1>9. TypeOK'
  BY <1>1, <1>6, <1>7 DEF QueueInvariant, TypeOK, Slots, EnqueueCopy, consumer
<1>10. ProducerLocals' /\ ConsumerLocals' /\ IndicesFollowStream'
  BY DEF QueueInvariant, EnqueueCopy, consumer, ProducerLocals, ConsumerLocals,
         IndicesFollowStream, InFlight
<1>11. RingHoldsStream'
  <2>1. InFlight' + poffset' - 1 = N + k - 1
    BY <1>1, <1>7 DEF InFlight, N
  <2>. QED
    BY <1>7, <1>8, <2>1 DEF RingHoldsStream
<1>12. QED
  BY <1>9, <1>10, <1>11 DEF QueueInvariant

\* Publishing turns the copied bytes into bytes in flight.
LEMMA EnqueuePublishInvariant ==
  ASSUME QueueInvariant, EnqueuePublish
  PROVE  QueueInvariant'
<1> DEFINE d == Minus(tail_idx_, head_cached_snapshot_)
<1>1. /\ ppc = "copy" /\ capacity_ > 0 /\ poffset = ptotal
      /\ InFlight <= d /\ d + ptotal <= capacity_ /\ d \in Nat
  BY Distances, Numbers
     DEF QueueInvariant, ProducerLocals, IndicesFollowStream, EnqueuePublish
<1>2. /\ published' = published + ptotal /\ tail_idx_' = Plus(tail_idx_, ptotal)
      /\ InFlight' = InFlight + ptotal /\ ptotal' = 0 /\ poffset' = 0
      /\ UNCHANGED <<capacity_, buffer_, head_idx_, consumed, synced, head_cached_snapshot_>>
  BY Numbers DEF EnqueuePublish, memory, consumer, InFlight
<1>3. Minus(tail_idx_', head_cached_snapshot_) = d + ptotal
  <2>1. /\ d + ptotal < IndexMod /\ tail_idx_ \in Int /\ head_cached_snapshot_ \in Int
        /\ IndexMod \in Nat /\ IndexMod > 0 /\ ptotal \in Nat
    BY <1>1, Numbers
  <2>2. ((tail_idx_ - head_cached_snapshot_) % IndexMod) + ptotal < IndexMod
    BY <2>1 DEF Minus
  <2>3. (((tail_idx_ + ptotal) % IndexMod) - head_cached_snapshot_) % IndexMod
          = ((tail_idx_ - head_cached_snapshot_) % IndexMod) + ptotal
    BY <2>1, <2>2, MinusAdvance, Zenon
  <2>. QED
    BY <1>2, <2>3, Zenon DEF Plus, Minus
<1>4. tail_idx_' = Plus(head_idx_, InFlight + ptotal)
  <2>1. tail_idx_ = Plus(head_idx_, InFlight) /\ InFlight \in Int /\ ptotal \in Int
    BY Numbers DEF QueueInvariant, IndicesFollowStream
  <2>. QED
    BY <1>2, <2>1, Numbers, PlusPlus, ZenonT(40)
<1> HIDE DEF d
<1>5. TypeOK'
  <2>1. tail_idx_' \in 0..(IndexMod - 1)
    <3>1. tail_idx_ + ptotal \in Int
      BY Numbers
    <3>. QED
      BY <1>2, <3>1, Numbers, ModRange, Zenon DEF Plus
  <2>2. published' \in 0..MaxBytes
    <3>1. published \in Nat /\ ptotal \in Nat
      BY Numbers
    <3>2. published + ptotal <= MaxBytes /\ MaxBytes \in Nat
      BY SpscConstants DEF QueueInvariant, ProducerLocals
    <3>. QED
      BY <1>2, <3>1, <3>2
  <2>3. consumed' \in Nat /\ synced' \in 0..published'
    <3>1. published \in Nat /\ consumed \in Nat /\ ptotal \in Nat
      BY Numbers
    <3>2. synced \in 0..published
      BY DEF QueueInvariant, TypeOK
    <3>. QED
      BY <1>2, <3>1, <3>2
  <2>4. /\ ppc' = "idle" /\ pstatus' = "kOk"
        /\ ptotal' \in OpSizes \cup {0} /\ poffset' \in 0..ptotal'
    BY <1>2 DEF EnqueuePublish
  <2>5. /\ capacity_' = capacity_ /\ buffer_' = buffer_ /\ head_idx_' = head_idx_
        /\ head_cached_' = head_cached_ /\ head_cached_snapshot_' = head_cached_snapshot_
        /\ tail_cached_snapshot_' = tail_cached_snapshot_ /\ cpc' = cpc /\ ctotal' = ctotal
        /\ cgot' = cgot /\ cdata' = cdata /\ cstatus' = cstatus
    BY DEF EnqueuePublish, memory, consumer
  <2>6. TypeOK
    BY DEF QueueInvariant
  <2>. QED
    BY <2>1, <2>2, <2>3, <2>4, <2>5, <2>6 DEF TypeOK, Slots
<1>6. ProducerLocals'
  BY <1>2, Numbers DEF QueueInvariant, EnqueuePublish, ProducerLocals
<1>7. ConsumerLocals'
  BY <1>2, Numbers, SMTT(30) DEF QueueInvariant, EnqueuePublish, memory, consumer, ConsumerLocals
<1>8. IndicesFollowStream'
  <2>1. /\ consumed <= synced /\ tail_cached_snapshot_ = Plus(head_idx_, synced - consumed)
        /\ cpc # "cache" => head_cached_ = head_idx_
    BY DEF QueueInvariant, IndicesFollowStream
  <2>2. UNCHANGED <<tail_cached_snapshot_, cpc, head_cached_>>
    BY DEF EnqueuePublish, memory, consumer
  <2>3. /\ consumed' <= synced' /\ tail_cached_snapshot_' = Plus(head_idx_', synced' - consumed')
        /\ cpc' # "cache" => head_cached_' = head_idx_'
    BY <1>2, <2>1, <2>2, Zenon
  <2>4. tail_idx_' = Plus(head_idx_', InFlight')
    BY <1>2, <1>4, Zenon
  <2>5. InFlight + ptotal <= d + ptotal /\ InFlight + ptotal <= capacity_
    <3>1. InFlight \in Nat /\ ptotal \in Nat /\ capacity_ \in Nat
      BY Numbers
    <3>. QED
      BY <1>1, <3>1
  <2>6. InFlight' <= Minus(tail_idx_', head_cached_snapshot_') /\ InFlight' <= capacity_'
    BY <1>2, <1>3, <2>5, Zenon
  <2>7. Minus(tail_idx_', head_cached_snapshot_') <= capacity_'
    BY <1>1, <1>2, <1>3, Zenon
  <2>. QED
    BY <2>3, <2>4, <2>6, <2>7, Zenon DEF IndicesFollowStream
<1>9. RingHoldsStream'
  <2>1. InFlight' + poffset' - 1 = InFlight + poffset - 1
    <3>1. InFlight \in Int /\ ptotal \in Int
      BY Numbers
    <3>. QED
      BY <1>1, <1>2, <3>1
  <2>. QED
    BY <1>2, <2>1 DEF QueueInvariant, RingHoldsStream
<1>10. QED
  BY <1>5, <1>6, <1>7, <1>8, <1>9 DEF QueueInvariant

\* The bytes read are the next ones of the stream.
LEMMA DequeueCopyInvariant ==
  ASSUME QueueInvariant, NEW k \in 1..ctotal, DequeueCopy(k)
  PROVE  QueueInvariant'
<1> DEFINE got == Len(cgot)
           from == Plus(head_idx_, got)
<1>1. /\ cpc = "copy" /\ capacity_ > 0 /\ capacity_ \in Nat /\ got \in Nat /\ k \in Nat /\ k > 0
      /\ got + k <= ctotal /\ ctotal <= InFlight /\ InFlight <= capacity_ /\ InFlight \in Nat
      /\ head_idx_ \in Int /\ consumed \in Nat /\ ctotal \in Nat /\ poffset \in Nat
  <2>1. cpc = "copy" /\ k <= ctotal - Len(cgot)
    BY DEF DequeueCopy
  <2>2. capacity_ > 0 /\ ctotal <= synced - consumed
    BY <2>1 DEF QueueInvariant, ConsumerLocals
  <2>3. /\ capacity_ \in Nat /\ Len(cgot) \in 0..ctotal /\ InFlight \in Nat
        /\ head_idx_ \in Int /\ consumed \in Nat /\ ctotal \in Nat /\ poffset \in Nat
        /\ synced \in Nat
    BY Numbers
  <2>4. InFlight \in 0..capacity_ /\ synced - consumed \in 0..InFlight
    BY Distances
  <2>. QED
    BY <2>1, <2>2, <2>3, <2>4
<1>2. capacity_ \in Capacities \cup {0} /\ from \in Int
  BY <1>1, Numbers, ModRange, SMTT(30) DEF QueueInvariant, TypeOK, Plus
<1>3. ASSUME NEW i \in (got + 1)..(got + k)
      PROVE  buffer_[SlotOf(capacity_, from, i - got - 1)] = consumed + i - 1
  <2>1. /\ i - got - 1 \in 0..(capacity_ - 1) /\ i - got - 1 \in Int /\ got \in Int
        /\ got + (i - got - 1) = i - 1 /\ i - 1 \in 0..(InFlight + poffset - 1)
        /\ consumed + (i - 1) = consumed + i - 1
    BY <1>1
  <2>2. SlotOf(capacity_, from, i - got - 1) = (from + (i - got - 1)) % capacity_
    BY <1>1, <1>2, <2>1, SlotOfIsMod, Zenon
  <2>3. (from + (i - got - 1)) % capacity_ = (head_idx_ + (got + (i - got - 1))) % capacity_
    BY <1>1, <1>2, <2>1, SlotShift, Zenon
  <2>4. buffer_[(head_idx_ + (i - 1)) % capacity_] = consumed + (i - 1)
    BY <2>1, Zenon DEF QueueInvariant, RingHoldsStream
  <2>. QED
    BY <2>1, <2>2, <2>3, <2>4, Zenon
<1>4. \A i \in 1..got : cgot[i] = consumed + i - 1
  <2>1. cgot = [i \in 1..got |-> consumed + i - 1]
    BY Zenon DEF QueueInvariant, ConsumerLocals
  <2>. QED
    BY <2>1, Zenon
<1>5. cgot' = [i \in 1..(got + k) |-> consumed + i - 1]
  <2>1. cgot' = [i \in 1..(got + k) |->
                   IF i <= got THEN cgot[i] ELSE buffer_[SlotOf(capacity_, from, i - got - 1)]]
    BY Zenon DEF DequeueCopy
  <2>2. ASSUME NEW i \in 1..(got + k)
        PROVE  (IF i <= got THEN cgot[i] ELSE buffer_[SlotOf(capacity_, from, i - got - 1)])
                 = consumed + i - 1
    <3> HIDE DEF from, got
    <3>1. CASE i <= got
      BY <1>1, <1>4, <3>1
    <3>2. CASE ~(i <= got)
      <4>1. i \in (got + 1)..(got + k)
        BY <1>1, <3>2
      <4>. QED
        BY <1>3, <3>2, <4>1, Zenon
    <3>. QED
      BY <3>1, <3>2, Zenon
  <2>. QED
    BY <2>1, <2>2, Zenon
<1> HIDE DEF from, got
<1>6. cgot' \in Seq(Int) /\ Len(cgot') = got + k
  BY <1>1, <1>5
<1>7. UNCHANGED <<memory, producer, cpc, ctotal, cdata, cstatus, head_idx_, head_cached_,
                  tail_cached_snapshot_, consumed, synced>>
  BY DEF DequeueCopy
<1>8. TypeOK'
  BY <1>1, <1>6, <1>7 DEF QueueInvariant, TypeOK, Slots, memory, producer
<1>9. ConsumerLocals'
  <2>1. cgot' = [i \in 1..Len(cgot') |-> consumed' + i - 1]
    BY <1>5, <1>6, <1>7, Zenon
  <2>. QED
    BY <1>1, <1>7, <2>1 DEF QueueInvariant, ConsumerLocals, memory, producer, InFlight
<1>10. ProducerLocals' /\ IndicesFollowStream' /\ RingHoldsStream'
  BY <1>7 DEF QueueInvariant, ProducerLocals, IndicesFollowStream, RingHoldsStream, InFlight,
              memory, producer
<1>11. QED
  BY <1>8, <1>9, <1>10 DEF QueueInvariant

\* Giving the slots back moves the start of the bytes in flight.
LEMMA DequeueCommitInvariant ==
  ASSUME QueueInvariant, DequeueCommit
  PROVE  QueueInvariant'
<1>1. /\ cpc = "copy" /\ capacity_ > 0 /\ capacity_ \in Nat
      /\ ctotal <= synced - consumed /\ synced <= published
      /\ head_idx_ \in Int /\ consumed \in Nat /\ ctotal \in Nat /\ poffset \in Nat
      /\ synced \in Nat /\ published \in Nat /\ consumed <= synced
  BY Numbers, SMTT(30) DEF QueueInvariant, TypeOK, ConsumerLocals, IndicesFollowStream, DequeueCommit
<1>2. /\ head_idx_' = Plus(head_idx_, ctotal) /\ consumed' = consumed + ctotal
      /\ cgot' = <<>> /\ ctotal' = 0 /\ cpc' = "cache"
      /\ UNCHANGED <<capacity_, buffer_, tail_idx_, tail_cached_snapshot_, head_cached_snapshot_,
                     published, synced, poffset>>
  BY DEF DequeueCommit, memory, producer
<1>3. InFlight' = InFlight - ctotal /\ InFlight' \in Nat
  BY <1>1, <1>2 DEF InFlight
<1>4. ASSUME NEW x \in Int PROVE Plus(head_idx_, x) = Plus(head_idx_', x - ctotal)
  <2>1. x - ctotal \in Int /\ ctotal + (x - ctotal) = x /\ ctotal \in Int
    BY <1>1
  <2>2. Plus(Plus(head_idx_, ctotal), x - ctotal) = Plus(head_idx_, ctotal + (x - ctotal))
    BY <1>1, <2>1, PlusPlus, Zenon
  <2>. QED
    BY <1>2, <2>1, <2>2, Zenon
<1>5. TypeOK'
  <2>1. head_idx_' \in 0..(IndexMod - 1)
    <3>1. head_idx_ + ctotal \in Int
      BY <1>1
    <3>. QED
      BY <1>2, <3>1, Numbers, ModRange, Zenon DEF Plus
  <2>. QED
    BY <1>1, <1>2, <2>1 DEF QueueInvariant, TypeOK, Slots, DequeueCommit, memory, producer
<1>6. ProducerLocals'
  BY DEF QueueInvariant, ProducerLocals, DequeueCommit, memory, producer
<1>7. ConsumerLocals'
  BY <1>2 DEF ConsumerLocals
<1>8. IndicesFollowStream'
  <2>1. tail_idx_' = Plus(head_idx_', InFlight')
    <3>1. InFlight \in Int
      BY Numbers
    <3>. QED
      BY <1>2, <1>3, <1>4, <3>1, Zenon DEF QueueInvariant, IndicesFollowStream
  <2>2. tail_cached_snapshot_' = Plus(head_idx_', synced' - consumed')
    <3>1. synced - consumed \in Int /\ (synced - consumed) - ctotal = synced' - consumed'
      BY <1>1, <1>2
    <3>. QED
      BY <1>2, <1>4, <3>1, Zenon DEF QueueInvariant, IndicesFollowStream
  <2>3. /\ consumed' <= synced' /\ InFlight' <= capacity_'
        /\ InFlight' <= Minus(tail_idx_', head_cached_snapshot_')
        /\ Minus(tail_idx_', head_cached_snapshot_') <= capacity_'
    BY <1>1, <1>2, <1>3, Numbers, Distances, SMTT(30) DEF QueueInvariant, IndicesFollowStream
  <2>. QED
    BY <1>2, <2>1, <2>2, <2>3 DEF IndicesFollowStream
<1>9. RingHoldsStream'
  <2>1. ASSUME NEW i \in 0..(InFlight' + poffset' - 1)
        PROVE  buffer_[(head_idx_' + i) % capacity_] = consumed' + i
    <3>1. /\ i \in Int /\ ctotal \in Int /\ ctotal + i \in 0..(InFlight + poffset - 1)
          /\ consumed' + i = consumed + (ctotal + i) /\ capacity_ \in Capacities \cup {0}
      <4>1. InFlight \in Nat
        BY Numbers
      <4>2. capacity_ \in Capacities \cup {0}
        BY DEF QueueInvariant, TypeOK
      <4>. QED
        BY <1>1, <1>2, <1>3, <4>1, <4>2
    <3>2. (head_idx_' + i) % capacity_ = (head_idx_ + (ctotal + i)) % capacity_
      BY <1>1, <1>2, <3>1, SlotShift, Zenon
    <3>3. buffer_[(head_idx_ + (ctotal + i)) % capacity_] = consumed + (ctotal + i)
      BY <3>1, Zenon DEF QueueInvariant, RingHoldsStream
    <3>. QED
      BY <3>1, <3>2, <3>3, Zenon
  <2>. QED
    BY <1>2, <2>1, Zenon DEF RingHoldsStream
<1>10. QED
  BY <1>5, <1>6, <1>7, <1>8, <1>9 DEF QueueInvariant

LEMMA PeekCopyInvariant ==
  ASSUME QueueInvariant, NEW stale \in SUBSET (1..ctotal), PeekCopy(stale)
  PROVE  QueueInvariant'
<1>1. /\ cpc = "peek" /\ capacity_ > 0 /\ capacity_ \in Nat /\ ctotal \in Nat /\ cgot = <<>>
      /\ ctotal <= InFlight /\ InFlight <= capacity_ /\ InFlight \in Nat
      /\ head_idx_ \in Int
  BY Numbers, Distances DEF QueueInvariant, ConsumerLocals, IndicesFollowStream, PeekCopy
<1>2. ASSUME NEW i \in 1..ctotal
      PROVE  buffer_[SlotOf(capacity_, head_idx_, i - 1)] \in Int
  <2>1. i - 1 \in 0..(capacity_ - 1) /\ head_idx_ + (i - 1) \in Int
    BY <1>1
  <2>2. SlotOf(capacity_, head_idx_, i - 1) = (head_idx_ + (i - 1)) % capacity_
    BY <1>1, <2>1, SlotOfIsMod, Zenon
  <2>3. SlotOf(capacity_, head_idx_, i - 1) \in Slots
    BY <1>1, <2>1, <2>2, ModRange, Zenon DEF Slots
  <2>. QED
    BY <2>3, Zenon DEF QueueInvariant, TypeOK
<1>3. cdata' \in Seq(Int)
  <2> DEFINE b(i) == buffer_[SlotOf(capacity_, head_idx_, i - 1)]
             v(i) == IF i \in stale /\ b(i) >= synced THEN Older(b(i)) ELSE b(i)
  <2>1. cdata' = [i \in 1..ctotal |-> v(i)]
    BY DEF PeekCopy
  <2>2. \A i \in 1..ctotal : v(i) \in Int
    <3>1. \A i \in 1..ctotal : b(i) \in Int
      BY <1>2, Zenon
    <3> HIDE DEF b
    <3>. QED
      BY <1>1, <3>1 DEF Older, Garbage
  <2> HIDE DEF v
  <2>. QED
    BY <1>1, <2>1, <2>2
<1>4. /\ cpc' = "idle" /\ cstatus' = "kOk" /\ ctotal' = 0
      /\ UNCHANGED <<memory, producer, cgot, head_idx_, head_cached_,
                     tail_cached_snapshot_, consumed, synced>>
  BY DEF PeekCopy
<1>5. TypeOK'
  BY <1>1, <1>3, <1>4 DEF QueueInvariant, TypeOK, Slots, memory, producer
<1>6. QED
  BY <1>1, <1>4, <1>5 DEF QueueInvariant, memory, producer, ProducerLocals, ConsumerLocals,
              IndicesFollowStream, RingHoldsStream, InFlight
-----------------------------------------------------------------------------
LEMMA StutterInvariant == QueueInvariant /\ UNCHANGED vars => QueueInvariant'
BY DEF QueueInvariant, TypeOK, Slots, ProducerLocals, ConsumerLocals, IndicesFollowStream,
       RingHoldsStream, InFlight, vars, memory, producer, consumer

LEMMA NextInvariant == QueueInvariant /\ [Next]_vars => QueueInvariant'
<1> SUFFICES ASSUME QueueInvariant, [Next]_vars PROVE QueueInvariant'
  OBVIOUS
<1>1. ASSUME NEW c \in Capacities \cup {0}, Reserve(c) PROVE QueueInvariant'
  BY <1>1, ReserveInvariant
<1>2. ASSUME NEW n \in OpSizes, EnqueueRefuse(n) PROVE QueueInvariant'
  BY <1>2, EnqueueRefuseInvariant
<1>3. ASSUME NEW n \in OpSizes, EnqueueCall(n) PROVE QueueInvariant'
  BY <1>3, EnqueueCallInvariant
<1>4. ASSUME NEW n \in OpSizes, DequeueRefuse(n) PROVE QueueInvariant'
  BY <1>4, DequeueRefuseInvariant
<1>5. ASSUME NEW n \in OpSizes, DequeueCall(n) PROVE QueueInvariant'
  BY <1>5, DequeueCallInvariant
<1>6. ASSUME NEW n \in OpSizes, PeekCall(n) PROVE QueueInvariant'
  BY <1>6, PeekCallInvariant
<1>7. CASE ProducerStep
  <2>1. ASSUME NEW k \in 1..ptotal, EnqueueCopy(k) PROVE QueueInvariant'
    BY <2>1, EnqueueCopyInvariant
  <2>. QED
    BY <1>7, <2>1, EnqueueReloadInvariant, EnqueuePublishInvariant, Zenon DEF ProducerStep
<1>8. CASE ConsumerStep
  <2>1. ASSUME NEW k \in 1..ctotal, DequeueCopy(k) PROVE QueueInvariant'
    BY <2>1, DequeueCopyInvariant
  <2>2. ASSUME NEW stale \in SUBSET (1..ctotal), PeekCopy(stale) PROVE QueueInvariant'
    BY <2>2, PeekCopyInvariant
  <2>. QED
    BY <1>8, <2>1, <2>2, DequeueReloadInvariant, DequeueCommitInvariant,
       DequeueReturnInvariant, Zenon DEF ConsumerStep
<1>9. QED
  BY <1>1, <1>2, <1>3, <1>4, <1>5, <1>6, <1>7, <1>8, StutterInvariant, Zenon DEF Next

\* The inductive invariant holds in every reachable state, for every capacity,
\* index width and mix of operation sizes, on either kind of machine: the
\* snapshots spsc_queue.cc caches never let a thread touch a slot it may not.
THEOREM Invariance == Spec => []QueueInvariant
<1>1. QED
  BY InitInvariant, NextInvariant, PTL DEF Spec

\* Every variable keeps its type; in particular the indices stay in size_t.
THEOREM TypeCorrectness == Spec => []TypeOK
<1>1. QueueInvariant => TypeOK
  BY DEF QueueInvariant
<1>2. QED
  BY <1>1, Invariance, PTL

\* dequeue_bytes copies the oldest bytes in flight, in order.
THEOREM FifoOrder == Spec => []DequeueIsFifo
<1>1. QueueInvariant => DequeueIsFifo
  <2>1. SUFFICES ASSUME QueueInvariant, NEW j \in 1..Len(cgot) PROVE cgot[j] = consumed + j - 1
    BY DEF DequeueIsFifo
  <2>2. cgot = [i \in 1..Len(cgot) |-> consumed + i - 1]
    BY <2>1, Zenon DEF QueueInvariant, ConsumerLocals
  <2>. QED
    BY <2>2, Zenon
<1>2. QED
  BY <1>1, Invariance, PTL

\* The two memcpy's never touch the same slot: the bytes being written lie
\* behind all the bytes in flight, those being read among them, and the two
\* together span no more than the buffer.
THEOREM NoRace == Spec => []NoDataRace
<1>1. ASSUME QueueInvariant, NEW x \in Writing, NEW y \in Reading PROVE x # y
  <2>1. ppc = "copy" /\ \E i \in 0..(ptotal - poffset - 1) :
                            x = SlotOf(capacity_, Plus(tail_idx_, poffset), i)
    BY <1>1 DEF Writing
  <2>2. PICK i \in 0..(ptotal - poffset - 1) : x = SlotOf(capacity_, Plus(tail_idx_, poffset), i)
    BY <2>1
  <2> DEFINE N == InFlight + poffset
  <2>3. /\ capacity_ \in Nat /\ capacity_ > 0 /\ ptotal \in Nat /\ poffset \in 0..ptotal
        /\ N \in Nat /\ InFlight \in Nat /\ head_idx_ \in Int /\ ctotal \in Nat
        /\ capacity_ \in Capacities \cup {0}
    <3>1. capacity_ > 0 /\ capacity_ \in Capacities \cup {0}
      BY <1>1, <2>1 DEF QueueInvariant, ProducerLocals, TypeOK
    <3>. QED
      BY <1>1, <3>1, Numbers, SMTT(30)
  <2>4. InFlight + ptotal <= capacity_
    <3>1. /\ InFlight <= Minus(tail_idx_, head_cached_snapshot_)
          /\ Minus(tail_idx_, head_cached_snapshot_) + ptotal <= capacity_
      BY <1>1, <2>1 DEF QueueInvariant, ProducerLocals, IndicesFollowStream
    <3>2. Minus(tail_idx_, head_cached_snapshot_) \in Int
      BY <1>1, <2>3, Distances
    <3>. QED
      BY <2>3, <3>1, <3>2
  <2>5. x = (head_idx_ + (N + i)) % capacity_
    <3>1. tail_idx_ = Plus(head_idx_, InFlight) /\ InFlight \in Int /\ poffset \in Int
      BY <1>1, <2>3 DEF QueueInvariant, IndicesFollowStream
    <3>2. Plus(tail_idx_, poffset) = Plus(head_idx_, N)
      BY <2>3, <3>1, PlusPlus, Zenon
    <3>3. Plus(head_idx_, N) \in Int /\ i \in 0..(capacity_ - 1) /\ i \in Int /\ N \in Int
      BY <1>1, <2>3, <2>4, Numbers, ModRange DEF Plus
    <3> HIDE DEF N
    <3>4. x = (Plus(head_idx_, N) + i) % capacity_
      BY <2>2, <2>3, <3>2, <3>3, SlotOfIsMod, Zenon
    <3>5. (Plus(head_idx_, N) + i) % capacity_ = (head_idx_ + (N + i)) % capacity_
      BY <2>3, <3>3, SlotShift, Zenon
    <3>. QED
      BY <3>4, <3>5, Zenon
  <2>6. \E j \in 0..(InFlight - 1) : y = (head_idx_ + j) % capacity_
    <3>1. CASE cpc = "copy"
      <4> DEFINE got == Len(cgot)
      <4>1. PICK j \in 0..(ctotal - got - 1) : y = SlotOf(capacity_, Plus(head_idx_, got), j)
        BY <1>1, <3>1 DEF Reading
      <4>2. ctotal <= InFlight /\ InFlight <= capacity_ /\ got \in 0..ctotal
        <5>1. ctotal <= synced - consumed
          BY <1>1, <3>1 DEF QueueInvariant, ConsumerLocals
        <5>. QED
          BY <1>1, <2>3, <5>1, Distances, Numbers, SMTT(30)
      <4> HIDE DEF got
      <4>3. /\ j \in 0..(capacity_ - 1) /\ j \in Int /\ got \in Int
            /\ got + j \in 0..(InFlight - 1)
        BY <2>3, <4>2
      <4>4. Plus(head_idx_, got) \in Int
        BY <1>1, <2>3, <4>3, Numbers, ModRange DEF Plus
      <4>5. y = (Plus(head_idx_, got) + j) % capacity_
        BY <2>3, <4>1, <4>3, <4>4, SlotOfIsMod, Zenon
      <4>6. (Plus(head_idx_, got) + j) % capacity_ = (head_idx_ + (got + j)) % capacity_
        BY <2>3, <4>3, SlotShift, Zenon
      <4>. QED
        BY <4>3, <4>5, <4>6, Zenon
    <3>2. CASE cpc = "peek"
      <4>1. PICK j \in 0..(ctotal - 1) : y = SlotOf(capacity_, head_idx_, j)
        BY <1>1, <3>2 DEF Reading
      <4>2. ctotal <= InFlight /\ InFlight <= capacity_
        BY <1>1, <3>2 DEF QueueInvariant, ConsumerLocals, IndicesFollowStream
      <4>3. j \in 0..(capacity_ - 1) /\ j \in 0..(InFlight - 1)
        BY <2>3, <4>2
      <4>4. y = (head_idx_ + j) % capacity_
        BY <2>3, <4>1, <4>3, SlotOfIsMod, Zenon
      <4>. QED
        BY <4>3, <4>4, Zenon
    <3>. QED
      BY <1>1, <3>1, <3>2 DEF Reading
  <2>7. PICK j \in 0..(InFlight - 1) : y = (head_idx_ + j) % capacity_
    BY <2>6
  <2>8. j \in Int /\ N + i \in Int /\ j < N + i /\ (N + i) - j < capacity_
    BY <2>3, <2>4
  <2> HIDE DEF N
  <2>9. (head_idx_ + j) % capacity_ # (head_idx_ + (N + i)) % capacity_
    BY <2>3, <2>8, ModApart, Zenon
  <2>. QED
    BY <2>5, <2>7, <2>9, Zenon
<1>2. QueueInvariant => NoDataRace
  BY <1>1 DEF NoDataRace
<1>3. QED
  BY <1>2, Invariance, PTL

\* kOverflow and kUnderflow are only returned when the bytes really do not
\* fit, or really are not there.
THEOREM RefusalsJustified == Spec => RefusalsAreJustified
<1>1. QueueInvariant /\ [Next]_vars =>
        [ /\ (ppc = "reload" /\ ppc' = "idle") => capacity_ - (published - consumed) < ptotal
          /\ (cpc = "reload" /\ cpc' = "idle") => published - consumed < ctotal ]_vars
  <2> SUFFICES ASSUME QueueInvariant, Next
               PROVE  /\ (ppc = "reload" /\ ppc' = "idle") => capacity_ - InFlight < ptotal
                      /\ (cpc = "reload" /\ cpc' = "idle") => InFlight < ctotal
    BY DEF InFlight
  <2>1. ASSUME ppc = "reload", ppc' = "idle" PROVE capacity_ - InFlight < ptotal
    <3>1. EnqueueReload
      BY <2>1 DEF Next, ProducerStep, ConsumerStep, Reserve, EnqueueRefuse, EnqueueCall,
         DequeueRefuse, DequeueCall, PeekCall, EnqueueReload, EnqueueCopy, EnqueuePublish,
         DequeueReload, DequeueCopy, DequeueCommit, DequeueReturn, PeekCopy, producer
    <3>. QED
      BY <2>1, <3>1, Distances DEF EnqueueReload
  <2>2. ASSUME cpc = "reload", cpc' = "idle" PROVE InFlight < ctotal
    <3>1. DequeueReload
      BY <2>2 DEF Next, ProducerStep, ConsumerStep, Reserve, EnqueueRefuse, EnqueueCall,
         DequeueRefuse, DequeueCall, PeekCall, EnqueueReload, EnqueueCopy, EnqueuePublish,
         DequeueReload, DequeueCopy, DequeueCommit, DequeueReturn, PeekCopy, consumer
    <3>. QED
      BY <2>2, <3>1, Distances DEF DequeueReload
  <2>. QED
    BY <2>1, <2>2
<1>2. QED
  BY <1>1, Invariance, PTL DEF Spec, RefusalsAreJustified

\* Between the stores of head_idx_ and head_cached_ the latter is behind by
\* the bytes of the dequeue that is about to return.
HeadCachedLags ==
  cpc = "cache" => \E n \in OpSizes : n <= capacity_ /\ head_idx_ = Plus(head_cached_, n)

LEMMA HeadCachedLagsStep == QueueInvariant /\ HeadCachedLags /\ [Next]_vars => HeadCachedLags'
<1> SUFFICES ASSUME QueueInvariant, HeadCachedLags, [Next]_vars, cpc' = "cache"
             PROVE  \E n \in OpSizes : n <= capacity_' /\ head_idx_' = Plus(head_cached_', n)
  BY DEF HeadCachedLags
<1>1. CASE DequeueCommit
  <2>1. /\ cpc = "copy" /\ head_idx_' = Plus(head_idx_, ctotal)
        /\ UNCHANGED <<capacity_, head_cached_>>
    BY <1>1 DEF DequeueCommit, memory
  <2>2. /\ ctotal > 0 /\ ctotal \in OpSizes \cup {0} /\ ctotal <= synced - consumed
        /\ head_cached_ = head_idx_
    BY <2>1 DEF QueueInvariant, TypeOK, ConsumerLocals, IndicesFollowStream
  <2>3. ctotal \in OpSizes /\ ctotal <= capacity_
    BY <2>2, Numbers, Distances, SMTT(30)
  <2>. QED
    BY <2>1, <2>2, <2>3, Zenon
<1>2. CASE ~DequeueCommit
  <2>1. cpc = "cache" /\ UNCHANGED <<capacity_, head_idx_, head_cached_>>
    BY <1>2 DEF Next, ProducerStep, ConsumerStep, Reserve, EnqueueRefuse, EnqueueCall,
       DequeueRefuse, DequeueCall, PeekCall, EnqueueReload, EnqueueCopy, EnqueuePublish,
       DequeueReload, DequeueCopy, DequeueReturn, PeekCopy, vars, memory, consumer
  <2>. QED
    BY <2>1, Zenon DEF HeadCachedLags
<1>. QED
  BY <1>1, <1>2

\* Where the index is wide enough for a full buffer and one operation more,
\* size() never says less than there is, on either thread; between two
\* dequeues size(), empty() and available_space() are exact.
THEOREM SizeIsNeverLow ==
  ASSUME \A c \in Capacities, n \in OpSizes : c + n < IndexMod
  PROVE  Spec => []SizeNeverLow
<1>1. Init => HeadCachedLags
  BY DEF Init, HeadCachedLags
<1>2. ASSUME QueueInvariant, HeadCachedLags PROVE SizeNeverLow
  <2>1. /\ IndexMod \in Nat /\ IndexMod > 0 /\ head_idx_ \in Int /\ head_cached_ \in Int
        /\ tail_idx_ = Plus(head_idx_, InFlight) /\ InFlight \in Nat
        /\ InFlight <= capacity_ /\ capacity_ \in Nat /\ capacity_ < IndexMod
    BY <1>2, Numbers DEF QueueInvariant, TypeOK, IndicesFollowStream
  <2>2. CASE cpc = "cache"
    <3>1. PICK n \in OpSizes : n <= capacity_ /\ head_idx_ = Plus(head_cached_, n)
      BY <1>2, <2>2 DEF HeadCachedLags
    <3>2. n \in Nat /\ capacity_ + n < IndexMod
      <4>1. n \in Nat /\ n < IndexMod
        BY SpscConstants
      <4>2. CASE capacity_ = 0
        BY <2>1, <4>1, <4>2
      <4>3. CASE capacity_ \in Capacities
        BY <4>1, <4>3
      <4>. QED
        BY <1>2, <4>2, <4>3 DEF QueueInvariant, TypeOK
    <3>3. tail_idx_ = Plus(head_cached_, n + InFlight)
      <4>1. n \in Int /\ InFlight \in Int
        BY <2>1, <3>2
      <4>. QED
        BY <2>1, <3>1, <4>1, PlusPlus, Zenon
    <3>4. n + InFlight \in 0..(IndexMod - 1)
      BY <2>1, <3>2
    <3>5. size = n + InFlight
      <4> DEFINE k == n + InFlight
      <4>1. (((head_cached_ + k) % IndexMod) - head_cached_) % IndexMod = k
        <5> HIDE DEF k
        <5>. QED
          BY <2>1, <3>4, MinusPlus, Zenon DEF k
      <4>. QED
        BY <3>3, <4>1, Zenon DEF size, Plus, Minus
    <3>. QED
      BY <2>1, <2>2, <3>2, <3>5 DEF SizeNeverLow, InFlight
  <2>3. CASE cpc # "cache"
    <3>1. head_cached_ = head_idx_
      BY <1>2, <2>3 DEF QueueInvariant, IndicesFollowStream
    <3>2. size = InFlight
      BY <1>2, <3>1, Distances, Zenon DEF size
    <3>3. available_space = capacity_ - InFlight
      <4>1. capacity_ - InFlight \in 0..(IndexMod - 1)
        BY <2>1
      <4>. QED
        BY <2>1, <3>2, <4>1, ModSmall DEF available_space, Minus
    <3>4. empty <=> InFlight = 0
      <4>1. 0 % IndexMod = 0 /\ head_idx_ \in 0..(IndexMod - 1)
        BY <1>2, <2>1 DEF QueueInvariant, TypeOK
      <4>2. InFlight = 0 => tail_idx_ = head_idx_
        BY <2>1, <4>1 DEF Plus
      <4>3. tail_idx_ = head_idx_ => InFlight = 0
        BY <1>2, <2>1, <4>1, Distances DEF Minus
      <4>. QED
        BY <3>1, <4>2, <4>3 DEF empty
    <3>. QED
      BY <2>1, <3>2, <3>3, <3>4, Numbers, <1>2, SMTT(30) DEF SizeNeverLow, InFlight
  <2>. QED
    BY <2>2, <2>3
<1>3. QED
  BY <1>1, <1>2, HeadCachedLagsStep, Invariance, PTL DEF Spec
-----------------------------------------------------------------------------
(* The queue implements ByteStream where loads stay in order: publishing is *)
(* Put, committing is Take, a peek is Look, reserve() is Open, and every    *)
(* other step is invisible.                                                 *)

LEMMA ReserveIsOpen ==
  ASSUME NEW c \in Capacities \cup {0}, Reserve(c)
  PROVE  Stream!Next
BY DEF Reserve, Stream!Next, Stream!Open

LEMMA PublishIsPut ==
  ASSUME QueueInvariant, EnqueuePublish
  PROVE  Stream!Next
<1>1. ppc = "copy" /\ ptotal > 0 /\ ptotal \in OpSizes \cup {0}
  BY DEF QueueInvariant, TypeOK, ProducerLocals, EnqueuePublish
<1>2. ptotal \in OpSizes \ {0} /\ ptotal \in Nat
  BY <1>1, Numbers
<1>3. published + ptotal - consumed <= capacity_
  <2>1. /\ InFlight <= Minus(tail_idx_, head_cached_snapshot_)
        /\ Minus(tail_idx_, head_cached_snapshot_) + ptotal <= capacity_
    BY <1>1 DEF QueueInvariant, ProducerLocals, IndicesFollowStream
  <2>2. Minus(tail_idx_, head_cached_snapshot_) \in 0..capacity_
    BY Distances
  <2>. QED
    BY <1>2, <2>1, <2>2, Numbers, SMTT(30) DEF InFlight
<1>4. Stream!Put(ptotal)
  BY <1>3 DEF EnqueuePublish, Stream!Put, memory, consumer
<1>5. QED
  BY <1>2, <1>4, Zenon DEF Stream!Next

LEMMA CommitIsTake ==
  ASSUME QueueInvariant, DequeueCommit
  PROVE  Stream!Next
<1>1. cpc = "copy" /\ Len(cgot) = ctotal
  BY DEF DequeueCommit
<1>2. ctotal > 0 /\ ctotal \in OpSizes \cup {0} /\ ctotal <= synced - consumed
  BY <1>1 DEF QueueInvariant, TypeOK, ConsumerLocals
<1>3. ctotal \in OpSizes \ {0}
  BY <1>2
<1>4. ctotal <= published - consumed
  BY <1>2, Numbers, Distances, SMTT(30) DEF InFlight
<1>5. cgot = [i \in 1..ctotal |-> consumed + i - 1]
  BY <1>1, Zenon DEF QueueInvariant, ConsumerLocals
<1>6. cdata' = Stream!Front(ctotal)
  BY <1>5, Zenon DEF DequeueCommit, Stream!Front
<1>7. Stream!Take(ctotal)
  BY <1>4, <1>6 DEF DequeueCommit, Stream!Take, memory, producer
<1>8. QED
  BY <1>3, <1>7, Zenon DEF Stream!Next

\* What a peek copies are the oldest bytes in flight.
LEMMA PeekReadsFront ==
  ASSUME WeakMemory = FALSE, QueueInvariant,
         NEW stale \in SUBSET (1..ctotal), PeekCopy(stale)
  PROVE  cdata' = [i \in 1..ctotal |-> consumed + i - 1]
<1>1. cpc = "peek" /\ stale = {}
  BY DEF PeekCopy
<1>2. ctotal > 0 /\ ctotal <= InFlight /\ capacity_ > 0
  BY <1>1 DEF QueueInvariant, ConsumerLocals
<1>3. /\ InFlight <= capacity_ /\ InFlight \in Nat /\ capacity_ \in Nat /\ head_idx_ \in Int
      /\ ctotal \in Nat /\ consumed \in Nat /\ poffset \in Nat
  BY Numbers, Distances
<1>4. ASSUME NEW i \in 1..ctotal
      PROVE  buffer_[SlotOf(capacity_, head_idx_, i - 1)] = consumed + i - 1
  <2>1. /\ i - 1 \in 0..(capacity_ - 1) /\ i - 1 \in 0..(InFlight + poffset - 1)
        /\ consumed + (i - 1) = consumed + i - 1
    BY <1>2, <1>3
  <2>2. SlotOf(capacity_, head_idx_, i - 1) = (head_idx_ + (i - 1)) % capacity_
    BY <1>2, <1>3, <2>1, SlotOfIsMod, Zenon
  <2>3. buffer_[(head_idx_ + (i - 1)) % capacity_] = consumed + (i - 1)
    BY <2>1, Zenon DEF QueueInvariant, RingHoldsStream
  <2>. QED
    BY <2>1, <2>2, <2>3, Zenon
<1>5. cdata' = [i \in 1..ctotal |-> buffer_[SlotOf(capacity_, head_idx_, i - 1)]]
  BY <1>1 DEF PeekCopy
<1>. QED
  BY <1>4, <1>5, Zenon

LEMMA PeekIsLook ==
  ASSUME WeakMemory = FALSE, QueueInvariant,
         NEW stale \in SUBSET (1..ctotal), PeekCopy(stale)
  PROVE  Stream!Next
<1>1. cpc = "peek"
  BY DEF PeekCopy
<1>2. ctotal > 0 /\ ctotal \in OpSizes \cup {0} /\ ctotal <= InFlight
  BY <1>1 DEF QueueInvariant, TypeOK, ConsumerLocals
<1>3. ctotal \in OpSizes \ {0}
  BY <1>2
<1>4. cdata' = Stream!Front(ctotal)
  BY PeekReadsFront, Zenon DEF Stream!Front
<1>5. Stream!Look(ctotal)
  BY <1>2, <1>4 DEF PeekCopy, Stream!Look, InFlight, memory, producer
<1>6. QED
  BY <1>3, <1>5, Zenon DEF Stream!Next

\* For every capacity, index width and mix of sizes: on a machine that keeps
\* loads in order, what dequeue_bytes and peek_bytes hand out is the next
\* piece of the byte stream, each byte once and none overwritten.
THEOREM Refinement ==
  ASSUME WeakMemory = FALSE
  PROVE  Spec => ImplementsByteStream
<1>1. Init => Stream!Init
  BY DEF Init, Stream!Init
<1>2. QueueInvariant /\ [Next]_vars => [Stream!Next]_(Stream!vars)
  <2> SUFFICES ASSUME QueueInvariant, [Next]_vars
               PROVE  Stream!Next \/ UNCHANGED <<capacity_, published, consumed, cdata>>
    BY DEF Stream!vars
  <2>1. ASSUME NEW c \in Capacities \cup {0}, Reserve(c) PROVE Stream!Next
    BY <2>1, ReserveIsOpen
  <2>2. ASSUME EnqueuePublish PROVE Stream!Next
    BY <2>2, PublishIsPut
  <2>3. ASSUME DequeueCommit PROVE Stream!Next
    BY <2>3, CommitIsTake
  <2>4. ASSUME NEW stale \in SUBSET (1..ctotal), PeekCopy(stale) PROVE Stream!Next
    BY <2>4, PeekIsLook
  <2>5. ASSUME NEW n \in OpSizes,
               EnqueueRefuse(n) \/ EnqueueCall(n) \/ DequeueRefuse(n) \/ DequeueCall(n) \/ PeekCall(n)
        PROVE  UNCHANGED <<capacity_, published, consumed, cdata>>
    BY <2>5 DEF EnqueueRefuse, EnqueueCall, DequeueRefuse, DequeueCall, PeekCall, memory,
                producer, consumer
  <2>6. ASSUME NEW k, EnqueueCopy(k) \/ DequeueCopy(k)
        PROVE  UNCHANGED <<capacity_, published, consumed, cdata>>
    BY <2>6 DEF EnqueueCopy, DequeueCopy, memory, producer, consumer
  <2>7. ASSUME EnqueueReload \/ DequeueReload \/ DequeueReturn \/ UNCHANGED vars
        PROVE  UNCHANGED <<capacity_, published, consumed, cdata>>
    BY <2>7 DEF EnqueueReload, DequeueReload, DequeueReturn, vars, memory, producer, consumer
  <2>. QED
    BY <2>1, <2>2, <2>3, <2>4, <2>5, <2>6, <2>7, Zenon DEF Next, ProducerStep, ConsumerStep
<1>3. QED
  BY <1>1, <1>2, Invariance, PTL DEF Spec, ImplementsByteStream, Stream!Spec
-----------------------------------------------------------------------------
(***************************************************************************)
(* The framing of log entries is correct for every capacity, entry size,   *)
(* length field and number of entries, where loads stay in order: the      *)
(* entries in flight tile the bytes in flight, so that a peek at the front *)
(* of the queue is a peek at the start of an entry all of whose bytes are  *)
(* there.                                                                  *)
(***************************************************************************)

Frame == [start : Nat, total : EntrySizes]

\* The entries in flight follow each other without a gap, from the first byte
\* not yet consumed to the last one published.
FramesTile ==
  /\ frames \in Seq(Frame)
  /\ frames = <<>> => published = consumed
  /\ frames # <<>> => /\ frames[1].start = consumed
                      /\ frames[Len(frames)].start + frames[Len(frames)].total = published
  /\ \A i \in 1..Len(frames) : frames[i].start + frames[i].total <= published
  /\ \A i \in 2..Len(frames) : frames[i].start = frames[i - 1].start + frames[i - 1].total

\* Where the worker is, in the queue's terms: what it is to dequeue is the
\* first entry, what it has dequeued are that entry's bytes.
WorkerReads ==
  /\ xpc \in {"idle", "peek", "dequeue", "dequeuing", "process"}
  /\ xpc # "idle" => capacity_ > 0
  /\ xpc = "idle" => cpc = "idle"
  /\ xpc = "peek" => cpc = "peek" /\ ctotal = LenField /\ frames # <<>>
  /\ xpc = "dequeue" => /\ cpc = "idle" /\ frames # <<>> /\ xtotal = frames[1].total
                        /\ Len(cdata) = LenField
  /\ xpc = "dequeuing" =>
       \/ /\ cpc \in {"reload", "copy"} /\ frames # <<>>
          /\ ctotal = frames[1].total /\ Len(cdata) = LenField
       \/ cpc = "cache" /\ xframe \in Frame /\ cdata = BytesOf(xframe)
  /\ xpc = "process" => cpc = "idle" /\ xframe \in Frame /\ cdata = BytesOf(xframe)

ProducerSizes == ppc # "idle" => ptotal \in EntrySizes

ChannelInvariant == QueueInvariant /\ FramesTile /\ WorkerReads /\ ProducerSizes

LEMMA SizeFacts ==
  /\ EntrySizes \subseteq OpSizes /\ LenField \in OpSizes /\ LenField \in Nat /\ LenField > 0
  /\ EntryHeader \in Nat
  /\ \A t \in EntrySizes : t \in Nat /\ t > 0 /\ LenField <= t
BY ChannelConstants DEF EntrySizes

\* The first entry in flight lies wholly among the bytes in flight.
LEMMA FirstEntry ==
  ASSUME ChannelInvariant, frames # <<>>
  PROVE  /\ frames[1] \in Frame /\ Len(frames) \in Nat /\ Len(frames) > 0
         /\ frames[1].start = consumed /\ frames[1].total \in EntrySizes
         /\ frames[1].total \in Nat /\ frames[1].total > 0 /\ LenField <= frames[1].total
         /\ frames[1].total <= InFlight
<1>1. frames \in Seq(Frame) /\ Len(frames) \in Nat /\ Len(frames) > 0
  BY DEF ChannelInvariant, FramesTile
<1>2. 1 \in 1..Len(frames) /\ frames[1] \in Frame
  BY <1>1
<1>3. frames[1].start = consumed /\ frames[1].start + frames[1].total <= published
  BY <1>2 DEF ChannelInvariant, FramesTile
<1>4. consumed \in Nat /\ published \in Nat
  BY Numbers DEF ChannelInvariant
<1>5. frames[1].start \in Nat /\ frames[1].total \in EntrySizes
  BY <1>2 DEF Frame
<1>6. frames[1].total \in Nat /\ frames[1].total > 0 /\ LenField <= frames[1].total
  BY <1>5, SizeFacts
<1>. QED
  BY <1>1, <1>2, <1>3, <1>4, <1>5, <1>6 DEF InFlight
-----------------------------------------------------------------------------
\* The channel calls the queue the way the queue expects to be called: with
\* the sizes it was specified for.
LEMMA ChannelStepIsQueueStep ==
  ASSUME ChannelInvariant, [ChannelNext]_allVars
  PROVE  [Next]_vars
<1>1. CASE InitQueue
  BY <1>1 DEF InitQueue, Next
<1>2. ASSUME NEW p \in Payloads, EnqueueEntry(p) PROVE Next
  <2>1. EntryHeader + p \in OpSizes
    BY SizeFacts DEF EntrySizes
  <2>. QED
    BY <1>2, <2>1 DEF EnqueueEntry, Next
<1>3. CASE EnqueueProceed \/ EntryPublished
  BY <1>3, Zenon DEF EnqueueProceed, EntryPublished, Next, ProducerStep
<1>4. CASE PeekLength
  BY <1>4, SizeFacts DEF PeekLength, Next
<1>5. ASSUME NEW stale \in SUBSET (1..ctotal), ReadLength(stale) PROVE Next
  BY <1>5, Zenon DEF ReadLength, Next, ConsumerStep
<1>6. CASE DequeueEntry
  <2>1. xpc = "dequeue" /\ DequeueCall(xtotal)
    BY <1>6 DEF DequeueEntry
  <2>2. frames # <<>> /\ xtotal = frames[1].total
    BY <2>1 DEF ChannelInvariant, WorkerReads
  <2>3. xtotal \in OpSizes
    BY <2>2, FirstEntry, SizeFacts
  <2>. QED
    BY <2>1, <2>3, Zenon DEF Next
<1>7. CASE DequeueProceed \/ EntryTaken \/ ProcessEntry
  BY <1>7, Zenon DEF DequeueProceed, EntryTaken, ProcessEntry, Next, ConsumerStep
<1>8. CASE EntryProcessed \/ UNCHANGED allVars
  BY <1>8, Zenon DEF EntryProcessed, allVars
<1>. QED
  BY <1>1, <1>2, <1>3, <1>4, <1>5, <1>6, <1>7, <1>8, Zenon DEF ChannelNext
-----------------------------------------------------------------------------
(* The framing survives each action; the queue's invariant does anyway. *)

FramingInvariant == FramesTile /\ WorkerReads /\ ProducerSizes

LEMMA InitQueueFraming == ASSUME ChannelInvariant, InitQueue PROVE FramingInvariant'
<1>1. PICK c \in Capacities : Reserve(c) /\ capacity_ = 0 /\ UNCHANGED channel
  BY DEF InitQueue
<1>2. frames = <<>>
  <2>1. InFlight <= capacity_ /\ InFlight \in Nat
    BY Numbers, Distances DEF ChannelInvariant
  <2>2. SUFFICES ASSUME frames # <<>> PROVE FALSE
    OBVIOUS
  <2>. QED
    BY <1>1, <2>1, <2>2, FirstEntry
<1>3. xpc = "idle"
  BY <1>1 DEF ChannelInvariant, WorkerReads
<1>. QED
  BY <1>1, <1>2, <1>3 DEF ChannelInvariant, FramingInvariant, FramesTile, WorkerReads,
     ProducerSizes, Reserve, channel

LEMMA EnqueueEntryFraming ==
  ASSUME ChannelInvariant, NEW p \in Payloads, EnqueueEntry(p)
  PROVE  FramingInvariant'
BY DEF ChannelInvariant, FramingInvariant, FramesTile, WorkerReads, ProducerSizes, BytesOf,
   EnqueueEntry, EnqueueCall, EntrySizes, memory, consumer, channel

LEMMA EnqueueProceedFraming == ASSUME ChannelInvariant, EnqueueProceed PROVE FramingInvariant'
BY DEF ChannelInvariant, FramingInvariant, FramesTile, WorkerReads, ProducerSizes, BytesOf,
   EnqueueProceed, EnqueueReload, EnqueueCopy, memory, consumer, channel

LEMMA EntryPublishedFraming == ASSUME ChannelInvariant, EntryPublished PROVE FramingInvariant'
<1> DEFINE f == [start |-> published, total |-> ptotal]
           n == Len(frames)
<1>1. /\ published' = published + ptotal /\ frames' = Append(frames, f) /\ ppc = "copy"
      /\ ppc' = "idle"
      /\ UNCHANGED <<capacity_, cpc, ctotal, cdata, consumed, xpc, xtotal, xframe>>
  BY DEF EntryPublished, EnqueuePublish, memory, consumer
<1>2. /\ published \in Nat /\ ptotal \in EntrySizes /\ ptotal \in Nat /\ f \in Frame
  BY <1>1, Numbers, SizeFacts DEF ChannelInvariant, ProducerSizes, Frame
<1>3. frames \in Seq(Frame) /\ n \in Nat
  BY DEF ChannelInvariant, FramesTile
<1>4. /\ frames' \in Seq(Frame) /\ Len(frames') = n + 1 /\ frames'[n + 1] = f
      /\ \A i \in 1..n : frames'[i] = frames[i]
      /\ frames' # <<>>
  BY <1>1, <1>2, <1>3
<1>5. ASSUME NEW i \in 1..n PROVE frames[i].start \in Nat /\ frames[i].total \in Nat
  <2>1. frames[i] \in Frame
    BY <1>3
  <2>2. frames[i].start \in Nat /\ frames[i].total \in EntrySizes
    BY <2>1 DEF Frame
  <2>. QED
    BY <2>2, SizeFacts
<1>6. FramesTile'
  <2>1. \A i \in 1..Len(frames') : frames'[i].start + frames'[i].total <= published'
    BY <1>1, <1>2, <1>3, <1>4, <1>5 DEF ChannelInvariant, FramesTile
  <2>2. frames'[1].start = consumed'
    <3>1. CASE frames = <<>>
      BY <1>1, <1>3, <1>4, <3>1 DEF ChannelInvariant, FramesTile
    <3>2. CASE frames # <<>>
      BY <1>1, <1>3, <1>4, <3>2 DEF ChannelInvariant, FramesTile
    <3>. QED
      BY <3>1, <3>2
  <2>3. ASSUME NEW i \in 2..Len(frames')
        PROVE  frames'[i].start = frames'[i - 1].start + frames'[i - 1].total
    <3>1. CASE i = n + 1
      <4>1. frames # <<>> /\ n \in 1..n
        BY <1>3, <2>3, <3>1
      <4>. QED
        BY <1>3, <1>4, <3>1, <4>1 DEF ChannelInvariant, FramesTile
    <3>2. CASE i # n + 1
      <4>1. i \in 2..n /\ i \in 1..n /\ i - 1 \in 1..n
        BY <1>3, <1>4, <2>3, <3>2
      <4>. QED
        BY <1>4, <4>1 DEF ChannelInvariant, FramesTile
    <3>. QED
      BY <3>1, <3>2
  <2>4. frames'[Len(frames')].start + frames'[Len(frames')].total = published'
    BY <1>1, <1>2, <1>4
  <2>. QED
    BY <1>4, <2>1, <2>2, <2>3, <2>4 DEF FramesTile
<1>7. WorkerReads'
  <2>1. frames # <<>> => frames'[1] = frames[1]
    BY <1>3, <1>4
  <2>. QED
    BY <1>1, <1>4, <2>1 DEF ChannelInvariant, WorkerReads, BytesOf
<1>. QED
  BY <1>1, <1>6, <1>7 DEF FramingInvariant, ProducerSizes

LEMMA PeekLengthFraming == ASSUME ChannelInvariant, PeekLength PROVE FramingInvariant'
<1>1. /\ xpc = "idle" /\ capacity_ > 0
      /\ UNCHANGED <<capacity_, buffer_, ppc, ptotal, published, consumed, cdata, frames, xtotal, xframe>>
  BY Numbers DEF ChannelInvariant, PeekLength, PeekCall, Refused, memory, producer
<1>2. \/ cpc' = "peek" /\ ctotal' = LenField /\ LenField <= Minus(tail_idx_, head_idx_)
         /\ xpc' = "peek"
      \/ cpc' = "idle" /\ xpc' = "idle"
  <2>1. cpc = "idle" /\ PeekCall(LenField) /\ xpc' = IF cpc' = "peek" THEN "peek" ELSE "idle"
    BY DEF PeekLength, PeekCall
  <2>2. CASE LenField > Minus(tail_idx_, head_idx_)
    BY <2>1, <2>2 DEF PeekCall
  <2>3. CASE ~(LenField > Minus(tail_idx_, head_idx_))
    <3>1. LenField <= Minus(tail_idx_, head_idx_)
      BY <2>3, SizeFacts, Distances, Numbers, SMTT(30) DEF ChannelInvariant
    <3>. QED
      BY <2>1, <2>3, <3>1 DEF PeekCall
  <2>. QED
    BY <2>2, <2>3
<1>3. xpc' = "peek" => frames # <<>>
  <2>1. SUFFICES ASSUME xpc' = "peek", frames = <<>> PROVE FALSE
    OBVIOUS
  <2>2. LenField <= InFlight
    BY <1>2, <2>1, Distances DEF ChannelInvariant
  <2>3. published = consumed /\ published \in Nat
    BY <2>1, Numbers DEF ChannelInvariant, FramesTile
  <2>. QED
    BY <2>2, <2>3, SizeFacts DEF InFlight
<1>. QED
  BY <1>1, <1>2, <1>3 DEF ChannelInvariant, FramingInvariant, FramesTile, WorkerReads, ProducerSizes

LEMMA ReadLengthFraming ==
  ASSUME WeakMemory = FALSE, ChannelInvariant,
         NEW stale \in SUBSET (1..ctotal), ReadLength(stale)
  PROVE  FramingInvariant'
<1>1. /\ xpc = "peek" /\ xpc' = "dequeue" /\ cpc' = "idle" /\ PeekCopy(stale)
      /\ UNCHANGED <<capacity_, ppc, ptotal, published, consumed, frames, xframe>>
  BY DEF ReadLength, PeekCopy, memory, producer
<1>2. ctotal = LenField /\ frames # <<>> /\ capacity_ > 0
  BY <1>1 DEF ChannelInvariant, WorkerReads
<1>3. cdata' = [i \in 1..LenField |-> frames[1].start + i - 1]
  <2>1. cdata' = [i \in 1..ctotal |-> consumed + i - 1]
    BY <1>1, PeekReadsFront DEF ChannelInvariant
  <2>2. frames[1].start = consumed
    BY <1>2, FirstEntry
  <2>. QED
    BY <1>2, <2>1, <2>2, Zenon
<1>4. Len(cdata') = LenField
  BY <1>3, SizeFacts
<1>5. xtotal' = frames[1].total
  <2>1. PICK payload_len \in Decode(cdata') : xtotal' = EntryHeader + payload_len
    BY DEF ReadLength
  <2>2. payload_len = frames[1].total - EntryHeader
    BY <1>3, <2>1, Zenon DEF Decode
  <2>3. frames[1].total \in Nat /\ EntryHeader \in Nat
    BY <1>2, FirstEntry, SizeFacts
  <2>. QED
    BY <2>1, <2>2, <2>3
<1>6. FramesTile' /\ ProducerSizes'
  BY <1>1 DEF ChannelInvariant, FramesTile, ProducerSizes
<1>7. WorkerReads'
  BY <1>1, <1>2, <1>4, <1>5 DEF WorkerReads
<1>. QED
  BY <1>6, <1>7 DEF FramingInvariant

LEMMA DequeueEntryFraming == ASSUME ChannelInvariant, DequeueEntry PROVE FramingInvariant'
BY DEF ChannelInvariant, FramingInvariant, FramesTile, WorkerReads, ProducerSizes, BytesOf,
   DequeueEntry, DequeueCall, memory, producer

LEMMA DequeueProceedFraming == ASSUME ChannelInvariant, DequeueProceed PROVE FramingInvariant'
<1>1. /\ xpc = "dequeuing"
      /\ DequeueReload \/ \E k \in 1..ctotal : DequeueCopy(k)
      /\ IF cpc' = "idle" THEN xpc' = "idle" /\ xtotal' = 0 ELSE UNCHANGED <<xpc, xtotal>>
      /\ UNCHANGED <<capacity_, ppc, ptotal, published, consumed, cdata, frames, xframe>>
  BY DEF DequeueProceed, DequeueReload, DequeueCopy, memory, producer
<1>2. cpc \in {"reload", "copy"} /\ frames # <<>> /\ ctotal = frames[1].total /\ Len(cdata) = LenField
  BY <1>1 DEF ChannelInvariant, WorkerReads, DequeueReload, DequeueCopy
<1>3. cpc' = "copy" /\ ctotal' = ctotal
  <2>1. ~(Minus(tail_idx_, head_idx_) < ctotal)
    <3>1. Minus(tail_idx_, head_idx_) = InFlight /\ InFlight \in Nat
      BY Distances, Numbers DEF ChannelInvariant
    <3>2. ctotal <= InFlight /\ ctotal \in Nat
      BY <1>2, FirstEntry, SizeFacts
    <3>. QED
      BY <3>1, <3>2
  <2>. QED
    BY <1>1, <1>2, <2>1 DEF DequeueReload, DequeueCopy
<1>4. xpc' = "dequeuing"
  BY <1>1, <1>3
<1>. QED
  BY <1>1, <1>2, <1>3, <1>4
     DEF ChannelInvariant, FramingInvariant, FramesTile, WorkerReads, ProducerSizes

LEMMA EntryTakenFraming == ASSUME ChannelInvariant, EntryTaken PROVE FramingInvariant'
<1> DEFINE f == frames[1]
           n == Len(frames)
<1>1. /\ cpc = "copy" /\ cpc' = "cache" /\ cdata' = cgot /\ Len(cgot) = ctotal
      /\ consumed' = consumed + ctotal /\ xframe' = Head(frames) /\ frames' = Tail(frames)
      /\ UNCHANGED <<capacity_, ppc, ptotal, published, xpc, xtotal>>
  BY DEF EntryTaken, DequeueCommit, memory, producer
<1>2. xpc = "dequeuing" /\ frames # <<>> /\ ctotal = f.total /\ capacity_ > 0
  BY <1>1 DEF ChannelInvariant, WorkerReads
<1>3. /\ frames \in Seq(Frame) /\ n \in Nat /\ n > 0 /\ f \in Frame /\ f.start = consumed
      /\ f.total \in Nat
  BY <1>2, FirstEntry, SizeFacts DEF ChannelInvariant, FramesTile
<1>4. /\ xframe' = f /\ frames' \in Seq(Frame) /\ Len(frames') = n - 1
      /\ \A i \in 1..(n - 1) : frames'[i] = frames[i + 1]
  BY <1>1, <1>2, <1>3
<1>5. cdata' = BytesOf(f)
  <2>1. cgot = [i \in 1..ctotal |-> consumed + i - 1]
    BY <1>1, Zenon DEF ChannelInvariant, QueueInvariant, ConsumerLocals
  <2>. QED
    BY <1>1, <1>2, <1>3, <2>1 DEF BytesOf
<1>6. FramesTile'
  <2>0. n = 1 \/ n > 1
    <3>1. n \in Nat /\ n > 0
      BY <1>3, Zenon
    <3> HIDE DEF n
    <3>. QED
      BY <3>1
  <2>1. CASE n = 1
    <3>1. f.start + f.total = published
      BY <1>2, <2>1 DEF ChannelInvariant, FramesTile
    <3>. QED
      BY <1>1, <1>2, <1>3, <1>4, <2>1, <3>1 DEF FramesTile
  <2>2. CASE n > 1
    <3>1. /\ frames[2].start = f.start + f.total
          /\ frames[n].start + frames[n].total = published
      BY <1>2, <1>3, <2>2 DEF ChannelInvariant, FramesTile
    <3>2. frames'[1].start = consumed' /\ frames'[n - 1] = frames[n]
      BY <1>1, <1>2, <1>3, <1>4, <2>2, <3>1
    <3>3. ASSUME NEW i \in 1..Len(frames')
          PROVE  frames'[i].start + frames'[i].total <= published'
      <4>1. i + 1 \in 1..n /\ frames'[i] = frames[i + 1]
        BY <1>3, <1>4, <3>3
      <4>. QED
        BY <1>1, <4>1 DEF ChannelInvariant, FramesTile
    <3>4. ASSUME NEW i \in 2..Len(frames')
          PROVE  frames'[i].start = frames'[i - 1].start + frames'[i - 1].total
      <4>1. /\ i + 1 \in 2..n /\ frames'[i] = frames[i + 1]
            /\ (i + 1) - 1 = i /\ frames'[i - 1] = frames[i]
        BY <1>3, <1>4, <3>4, SMTT(30)
      <4>2. frames[i + 1].start = frames[(i + 1) - 1].start + frames[(i + 1) - 1].total
        BY <4>1, Zenon DEF ChannelInvariant, FramesTile
      <4>. QED
        BY <4>1, <4>2, Zenon
    <3>. QED
      <4>1. frames' # <<>> /\ Len(frames') = n - 1 /\ frames' \in Seq(Frame)
        BY <1>3, <1>4, <2>2
      <4>. QED
        BY <1>1, <3>1, <3>2, <3>3, <3>4, <4>1 DEF FramesTile
  <2>. QED
    BY <2>0, <2>1, <2>2
<1>7. WorkerReads'
  <2>1. xframe' \in Frame /\ cdata' = BytesOf(xframe)'
    BY <1>3, <1>4, <1>5 DEF BytesOf
  <2>. QED
    BY <1>1, <1>2, <2>1 DEF WorkerReads
<1>8. ProducerSizes'
  BY <1>1 DEF ChannelInvariant, ProducerSizes
<1>. QED
  BY <1>6, <1>7, <1>8 DEF FramingInvariant

LEMMA ProcessEntryFraming == ASSUME ChannelInvariant, ProcessEntry PROVE FramingInvariant'
<1>1. /\ cpc = "cache" /\ cpc' = "idle" /\ xpc' = "process"
      /\ UNCHANGED <<capacity_, ppc, ptotal, published, consumed, ctotal, cdata, frames, xframe>>
  BY DEF ProcessEntry, DequeueReturn, memory, producer
<1>2. xpc = "dequeuing"
  BY <1>1 DEF ChannelInvariant, WorkerReads
<1>. QED
  BY <1>1, <1>2
     DEF ChannelInvariant, FramingInvariant, FramesTile, WorkerReads, ProducerSizes, BytesOf

LEMMA EntryProcessedFraming == ASSUME ChannelInvariant, EntryProcessed PROVE FramingInvariant'
BY DEF ChannelInvariant, FramingInvariant, FramesTile, WorkerReads, ProducerSizes,
   EntryProcessed, vars, memory, producer, consumer

LEMMA ChannelStutterFraming ==
  ASSUME ChannelInvariant, UNCHANGED allVars PROVE FramingInvariant'
BY DEF ChannelInvariant, FramingInvariant, FramesTile, WorkerReads, ProducerSizes, BytesOf,
   allVars, channel, vars, memory, producer, consumer
-----------------------------------------------------------------------------
\* The inductive invariant of the channel, on a machine that keeps loads in
\* order: the entries in flight tile the stream, and the worker is always at
\* the start of one.
THEOREM ChannelInvariance ==
  ASSUME WeakMemory = FALSE
  PROVE  ChannelSpec => []ChannelInvariant
<1>1. ChannelInit => ChannelInvariant
  <2> SUFFICES ASSUME ChannelInit PROVE ChannelInvariant
    OBVIOUS
  <2>1. QueueInvariant
    BY InitInvariant DEF ChannelInit
  <2>. QED
    BY <2>1 DEF ChannelInit, Init, ChannelInvariant, FramesTile, WorkerReads, ProducerSizes
<1>2. ChannelInvariant /\ [ChannelNext]_allVars => ChannelInvariant'
  <2> SUFFICES ASSUME ChannelInvariant, [ChannelNext]_allVars PROVE ChannelInvariant'
    OBVIOUS
  <2>1. QueueInvariant'
    BY ChannelStepIsQueueStep, NextInvariant DEF ChannelInvariant
  <2>2. ASSUME NEW p \in Payloads, EnqueueEntry(p) PROVE FramingInvariant'
    BY <2>2, EnqueueEntryFraming
  <2>3. ASSUME NEW stale \in SUBSET (1..ctotal), ReadLength(stale) PROVE FramingInvariant'
    BY <2>3, ReadLengthFraming
  <2>4. FramingInvariant'
    BY <2>2, <2>3, InitQueueFraming, EnqueueProceedFraming, EntryPublishedFraming,
       PeekLengthFraming, DequeueEntryFraming, DequeueProceedFraming, EntryTakenFraming,
       ProcessEntryFraming, EntryProcessedFraming, ChannelStutterFraming, Zenon DEF ChannelNext
  <2>. QED
    BY <2>1, <2>4 DEF ChannelInvariant, FramingInvariant
<1>3. QED
  BY <1>1, <1>2, PTL DEF ChannelSpec

\* InternalLogger and BackendWorker together use the queue as SpscQueue
\* specifies it, so that all that is proved of the queue holds of theirs.
THEOREM ChannelUsesQueue ==
  ASSUME WeakMemory = FALSE
  PROVE  ChannelSpec => Spec
<1>1. ChannelInit => Init
  BY DEF ChannelInit
<1>2. ChannelInvariant /\ [ChannelNext]_allVars => [Next]_vars
  BY ChannelStepIsQueueStep
<1>3. QED
  BY <1>1, <1>2, ChannelInvariance, PTL DEF ChannelSpec, Spec

\* What the worker processes are exactly the bytes of the oldest entry, and
\* the next peek is at an entry's start, for every instance.
THEOREM EntriesStayIntact ==
  ASSUME WeakMemory = FALSE
  PROVE  ChannelSpec => []EntriesIntact
<1>1. ASSUME ChannelInvariant PROVE EntriesIntact
  <2>1. xpc = "process" => cdata = BytesOf(xframe)
    BY <1>1 DEF ChannelInvariant, WorkerReads
  <2>2. ASSUME NEW i \in DOMAIN frames
        PROVE  frames[i].start = IF i = 1 THEN consumed
                                 ELSE frames[i - 1].start + frames[i - 1].total
    <3>1. frames \in Seq(Frame) /\ i \in 1..Len(frames) /\ frames # <<>>
      BY <1>1, <2>2 DEF ChannelInvariant, FramesTile
    <3>2. i = 1 \/ i \in 2..Len(frames)
      BY <3>1
    <3>. QED
      BY <1>1, <3>1, <3>2 DEF ChannelInvariant, FramesTile
  <2>. QED
    BY <2>1, <2>2 DEF EntriesIntact
<1>2. QED
  BY <1>1, ChannelInvariance, PTL

\* The assertion in read_and_process_one holds: once the length of an entry
\* can be read, size() covers the whole entry.
THEOREM LengthCoversEntry ==
  ASSUME WeakMemory = FALSE
  PROVE  ChannelSpec => []LengthImpliesEntry
<1>1. ASSUME ChannelInvariant PROVE LengthImpliesEntry
  <2>1. SUFFICES ASSUME xpc = "dequeue" PROVE size >= xtotal
    BY DEF LengthImpliesEntry
  <2>2. cpc = "idle" /\ frames # <<>> /\ xtotal = frames[1].total
    BY <1>1, <2>1 DEF ChannelInvariant, WorkerReads
  <2>3. head_cached_ = head_idx_
    BY <1>1, <2>2 DEF ChannelInvariant, QueueInvariant, IndicesFollowStream
  <2>4. size = InFlight /\ InFlight \in Nat
    BY <1>1, <2>3, Distances, Numbers DEF ChannelInvariant, size
  <2>5. xtotal <= InFlight /\ xtotal \in Nat
    BY <1>1, <2>2, FirstEntry, SizeFacts
  <2>. QED
    BY <2>4, <2>5
<1>2. QED
  BY <1>1, ChannelInvariance, PTL
=============================================================================
