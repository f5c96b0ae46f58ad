-------------------------- MODULE SpmcQueueProofs ---------------------------
(***************************************************************************)
(* SpmcQueue hands out each byte once, for every capacity, index width,    *)
(* mix of sizes and number of consumers, where one consumer at most uses   *)
(* the queue or each asks only for bytes it knows to be its own.           *)
(*                                                                         *)
(* The indices wrap, so the invariant speaks of the positions behind them: *)
(* C bytes committed, H bytes promised to tickets, and pos[c] where the    *)
(* ticket of consumer c begins.                                            *)
(***************************************************************************)
EXTENDS SpmcQueue, RingProofs, FiniteSetTheorems

Disciplined == Credit = TRUE \/ \A t \in Teams : Cardinality(t) <= 1

Holding(c) == cpc[c] \in {"check", "rewind", "copy"}

TypeOK ==
  /\ team \in Teams /\ capacity_ \in Capacities \cup {0}
  /\ buffer_ \in [0..(capacity_ - 1) -> Int]
  /\ published \in Nat /\ granted \in Nat
  /\ ppc \in {"idle", "copy"} /\ ptotal \in Nat /\ poffset \in 0..ptotal
  /\ ppc = "idle" => ptotal = 0
  /\ cpc \in [Consumers -> {"idle", "check", "rewind", "copy", "peekCheck", "peek", "peeked"}]
  /\ ctotal \in [Consumers -> Nat] /\ cticket \in [Consumers -> Int]
  /\ cgot = [c \in Consumers |-> cgot[c]]

\* The three counters are the low bits of positions of the stream, the bytes
\* handed out are those before C, and what is written but not committed fits.
Indices(C, H) ==
  /\ tail_idx_ = published % IndexMod
  /\ head_idx_ = H % IndexMod
  /\ commit_idx_ = C % IndexMod
  /\ delivered = 0..(C - 1)
  /\ C <= H /\ C <= published /\ published + ptotal <= C + capacity_

\* Every byte not yet committed is in its slot.
RingHolds(C) == \A p \in C..(published + poffset - 1) : buffer_[p % capacity_] = p

\* A ticket in use is for bytes not yet committed, and below H.
TicketsHeld(C, H, pos) ==
  \A c \in Consumers : Holding(c) =>
    /\ c \in team /\ ctotal[c] > 0
    /\ cticket[c] = pos[c] % IndexMod
    /\ C <= pos[c] /\ pos[c] + ctotal[c] <= H

\* No two tickets share a byte.
TicketsApart(pos) ==
  \A c, d \in Consumers : Holding(c) /\ Holding(d) /\ c # d =>
    pos[c] + ctotal[c] <= pos[d] \/ pos[d] + ctotal[d] <= pos[c]

\* What a consumer has copied so far are the first bytes of its ticket.
Copied(pos) ==
  \A c \in Consumers :
    /\ cpc[c] = "copy" =>
         /\ pos[c] + ctotal[c] <= published
         /\ Len(cgot[c]) \in 0..ctotal[c]
         /\ cgot[c] = [i \in 1..Len(cgot[c]) |-> pos[c] + i - 1]
    /\ cpc[c] \notin {"copy", "peeked"} => cgot[c] = <<>>

\* With credit no ticket is beyond the bytes published, so none is given back;
\* without it there is one consumer, whose ticket begins at C.
TicketsDrawn(C, H, pos) ==
  IF NeedsCredit
  THEN /\ H = granted /\ granted <= published
       /\ \A c \in Consumers : cpc[c] # "rewind"
  ELSE /\ \A c \in Consumers : Holding(c) => pos[c] = C /\ H = C + ctotal[c]
       /\ (\A c \in Consumers : ~Holding(c)) => H = C

Positions(C, H, pos) ==
  /\ Indices(C, H) /\ RingHolds(C) /\ TicketsHeld(C, H, pos) /\ TicketsApart(pos)
  /\ Copied(pos) /\ TicketsDrawn(C, H, pos)

QueueInvariant ==
  /\ TypeOK
  /\ \E C \in Nat, H \in Nat, pos \in [Consumers -> Nat] : Positions(C, H, pos)
-----------------------------------------------------------------------------
LEMMA CapacityFacts ==
  ASSUME capacity_ \in Capacities \cup {0}
  PROVE  /\ IndexMod \in Nat /\ IndexMod > 0
         /\ capacity_ \in Nat /\ capacity_ < IndexMod
         /\ capacity_ > 0 => \E q \in Nat : q > 0 /\ IndexMod = q * capacity_
<1>1. IndexMod \in Nat /\ IndexMod > 0
  BY SpmcConstants
<1>2. CASE capacity_ = 0
  BY <1>1, <1>2
<1>3. CASE capacity_ \in Capacities
  <2>1. PICK q \in 2..IndexMod : IndexMod = q * capacity_
    BY <1>3, CapacityConstants, Zenon
  <2>2. capacity_ \in Nat /\ capacity_ > 0
    BY <1>3, CapacityConstants, Zenon
  <2>3. capacity_ < q * capacity_
    BY <2>2
  <2>. QED
    BY <1>1, <2>1, <2>2, <2>3
<1>4. QED
  BY <1>2, <1>3

\* The distance two indices show is the true one, short of the modulus.
LEMMA TrueDistance ==
  ASSUME NEW a \in Nat, NEW b \in Nat, NEW m \in Nat, m > 0, a <= b, b - a < m
  PROVE  ((b % m) - (a % m)) % m = b - a
<1>1. PICK q \in Int : a = m * q + (a % m)
  BY ModDivision
<1>2. a % m \in Int /\ b % m \in Int /\ m * q \in Int /\ -(a % m) \in Int
  BY ModRange
<1>3. ((b % m) + (-(a % m))) % m = (b + (-(a % m))) % m
  <2>1. b \in Int
    OBVIOUS
  <2>. QED
    BY <1>2, <2>1, ModPlus, Zenon
<1>4. /\ b + (-(a % m)) = m * q + (b - a) /\ b - a \in 0..(m - 1)
      /\ b + (-(a % m)) \in Int
  BY <1>1, <1>2
<1>5. (b + (-(a % m))) % m = b - a
  BY <1>4, ModUnique, Zenon
<1>6. (b % m) - (a % m) = (b % m) + (-(a % m))
  BY <1>2
<1>7. QED
  BY <1>3, <1>5, <1>6, Zenon

\* Positions less than a modulus apart with the same index are the same.
LEMMA SameIndex ==
  ASSUME NEW a \in Nat, NEW b \in Nat, NEW m \in Nat, m > 0, a <= b, b - a < m,
         a % m = b % m
  PROVE  a = b
<1>1. ((b % m) - (a % m)) % m = b - a
  BY TrueDistance
<1>2. b % m \in Int /\ (b % m) - (b % m) = 0
  BY ModRange
<1>3. 0 % m = 0
  BY ModSmall
<1>4. b - a = 0
  BY <1>1, <1>2, <1>3, Zenon
<1>5. QED
  BY <1>4

\* Advancing an index is advancing the position behind it.
LEMMA Advance ==
  ASSUME NEW a \in Int, NEW n \in Int
  PROVE  Plus(a % IndexMod, n) = (a + n) % IndexMod
<1>1. IndexMod \in Nat /\ IndexMod > 0
  BY SpmcConstants
<1>2. QED
  BY <1>1, ModPlus, Zenon DEF Plus

\* The slot of an index is the slot of the position behind it, because the
\* capacity divides the modulus.
LEMMA SlotOfPosition ==
  ASSUME capacity_ \in Capacities \cup {0}, capacity_ > 0, NEW a \in Int, NEW n \in Int
  PROVE  ((a % IndexMod) + n) % capacity_ = (a + n) % capacity_
<1>1. IndexMod \in Nat /\ capacity_ \in Nat
  BY CapacityFacts, Zenon
<1>2. \E q \in Nat : q > 0 /\ IndexMod = q * capacity_
  BY CapacityFacts, Zenon
<1>3. QED
  BY <1>1, <1>2, ModOfMod, Zenon

\* Where no credit is needed the queue has at most one consumer.
LEMMA OneConsumer ==
  ASSUME Disciplined, team \in Teams, ~NeedsCredit, NEW c \in team, NEW d \in team
  PROVE  c = d
<1>1. team \in SUBSET Consumers /\ IsFiniteSet(Consumers)
  BY SpmcConstants
<1>2. IsFiniteSet(team)
  BY <1>1, FS_Subset, Zenon
<1>3. Cardinality(team) \in Nat
  BY <1>2, FS_CardinalityType, Zenon
<1>4. Cardinality(team) <= 1
  BY <1>3 DEF Disciplined, NeedsCredit
<1>5. team # {}
  OBVIOUS
<1>6. Cardinality(team) # 0
  BY <1>2, <1>5, FS_EmptySet, Zenon
<1>7. Cardinality(team) = 1
  BY <1>3, <1>4, <1>6
<1>8. PICK x : team = {x}
  BY <1>2, <1>7, FS_Singleton, Zenon
<1>9. QED
  BY <1>8

\* The types of the numbers, without the sets they are drawn from.
LEMMA Numbers ==
  ASSUME TypeOK
  PROVE  /\ IndexMod \in Nat /\ IndexMod > 0 /\ capacity_ \in Nat /\ capacity_ < IndexMod
         /\ published \in Nat /\ granted \in Nat /\ ptotal \in Nat /\ poffset \in Nat
         /\ poffset <= ptotal /\ \A c \in team : c \in Consumers
<1>1. capacity_ \in Capacities \cup {0} /\ team \in Teams
  BY DEF TypeOK
<1>2. IndexMod \in Nat /\ IndexMod > 0 /\ capacity_ \in Nat /\ capacity_ < IndexMod
  BY <1>1, CapacityFacts, Zenon
<1>3. \A c \in team : c \in Consumers
  BY <1>1, SpmcConstants
<1>4. QED
  BY <1>2, <1>3 DEF TypeOK
-----------------------------------------------------------------------------
LEMMA InitInvariant == Init => QueueInvariant
<1> SUFFICES ASSUME Init PROVE QueueInvariant
  OBVIOUS
<1>1. TypeOK
  BY DEF Init, TypeOK
<1>2. /\ \A c \in Consumers : cpc[c] = "idle" /\ cgot[c] = <<>>
      /\ tail_idx_ = 0 /\ head_idx_ = 0 /\ commit_idx_ = 0 /\ ptotal = 0 /\ poffset = 0
      /\ published = 0 /\ granted = 0 /\ delivered = {} /\ capacity_ = 0
  BY DEF Init
<1> DEFINE pos == [c \in Consumers |-> 0]
<1>3. pos \in [Consumers -> Nat] /\ 0 \in Nat
  OBVIOUS
<1>4. 0 % IndexMod = 0
  BY SpmcConstants, ModSmall
<1>5. Indices(0, 0)
  BY <1>4, <1>2 DEF Indices
<1>6. RingHolds(0)
  BY <1>2 DEF RingHolds
<1>7. \A c \in Consumers : ~Holding(c)
  BY <1>2 DEF Holding
<1>8. TicketsHeld(0, 0, pos) /\ TicketsApart(pos)
  BY <1>7, Zenon DEF TicketsHeld, TicketsApart
<1>9. Copied(pos)
  <2> HIDE DEF pos
  <2>. QED
    BY <1>2 DEF Copied
<1>10. TicketsDrawn(0, 0, pos)
  <2>1. \A c \in Consumers : cpc[c] # "rewind"
    BY <1>2
  <2>2. 0 = granted /\ granted <= published
    BY <1>2
  <2>. QED
    BY <1>7, <2>1, <2>2, Zenon DEF TicketsDrawn
<1>11. Positions(0, 0, pos)
  BY <1>5, <1>6, <1>8, <1>9, <1>10, Zenon DEF Positions
<1>. QED
  <2> HIDE DEF pos
  <2>. QED
    BY <1>1, <1>11, <1>3, Zenon DEF QueueInvariant

LEMMA ReserveInvariant ==
  ASSUME QueueInvariant, NEW cap \in Capacities \cup {0}, Reserve(cap)
  PROVE  QueueInvariant'
<1>1. TypeOK /\ ppc = "idle" /\ ptotal = 0
  BY DEF QueueInvariant, TypeOK, Reserve
<1>2. cap \in Nat
  <2>1. CASE cap = 0
    BY <2>1
  <2>2. CASE cap \in Capacities
    BY <2>2, CapacityConstants, Zenon
  <2>. QED
    BY <2>1, <2>2
<1>3. TypeOK'
  <2>2. buffer_' \in [0..(capacity_' - 1) -> Int]
    BY <1>2 DEF Reserve, Garbage
  <2>. QED
    BY <1>1, <2>2 DEF TypeOK, Reserve, locals
<1>4. /\ \A c \in Consumers : cpc'[c] = "idle" /\ cgot'[c] = <<>>
      /\ tail_idx_' = 0 /\ head_idx_' = 0 /\ commit_idx_' = 0 /\ ptotal' = 0 /\ poffset' = 0
      /\ published' = 0 /\ granted' = 0 /\ delivered' = {} /\ capacity_' \in Nat
  <2>1. PICK C \in Nat, H \in Nat, p \in [Consumers -> Nat] : Positions(C, H, p)
    BY DEF QueueInvariant
  <2>2. \A c \in Consumers : cpc'[c] = "idle" /\ cgot'[c] = <<>>
    BY <2>1 DEF Positions, Copied, Reserve, locals
  <2>3. poffset = 0
    BY <1>1 DEF TypeOK
  <2>. QED
    BY <1>1, <1>2, <2>2, <2>3 DEF Reserve
<1> DEFINE pos == [c \in Consumers |-> 0]
<1>5. pos \in [Consumers -> Nat] /\ 0 \in Nat
  OBVIOUS
<1>6. 0 % IndexMod = 0
  BY SpmcConstants, ModSmall
<1>7. Indices(0, 0)'
  <2>1. delivered' = 0..(0 - 1)
    BY <1>4
  <2>2. published' + ptotal' <= 0 + capacity_' /\ 0 <= published'
    <3>1. published' = 0 /\ ptotal' = 0 /\ capacity_' \in Nat
      BY <1>4, Zenon
    <3>2. \A x \in Nat : 0 + 0 <= 0 + x /\ 0 <= 0
      OBVIOUS
    <3>. QED
      BY <3>1, <3>2, Zenon
  <2>3. 0 <= 0
    OBVIOUS
  <2>. QED
    BY <1>6, <1>4, <2>1, <2>2, <2>3, Zenon DEF Indices
<1>8. RingHolds(0)'
  BY <1>4 DEF RingHolds
<1>9. \A c \in Consumers : ~Holding(c)'
  BY <1>4 DEF Holding
<1>10. TicketsHeld(0, 0, pos)' /\ TicketsApart(pos)'
  BY <1>9, Zenon DEF TicketsHeld, TicketsApart
<1>11. Copied(pos)'
  <2> HIDE DEF pos
  <2>. QED
    BY <1>4 DEF Copied
<1>12. TicketsDrawn(0, 0, pos)'
  <2>1. \A c \in Consumers : cpc'[c] # "rewind"
    BY <1>4
  <2>2. 0 = granted' /\ granted' <= published'
    BY <1>4
  <2>. QED
    BY <1>9, <2>1, <2>2, Zenon DEF TicketsDrawn
<1>13. Positions(0, 0, pos)'
  BY <1>7, <1>8, <1>10, <1>11, <1>12, Zenon DEF Positions
<1>. QED
  <2> HIDE DEF pos
  <2>. QED
    BY <1>3, <1>13, <1>5, Zenon DEF QueueInvariant
-----------------------------------------------------------------------------
\* The statuses an operation returns are no part of the invariant.
LEMMA SameState ==
  ASSUME QueueInvariant,
         UNCHANGED <<team, capacity_, buffer_, ppc, ptotal, poffset, tail_idx_, published,
                     cpc, ctotal, cticket, cgot, head_idx_, commit_idx_, granted, delivered>>
  PROVE  QueueInvariant'
<1>1. /\ team' = team /\ capacity_' = capacity_ /\ buffer_' = buffer_ /\ ppc' = ppc
      /\ ptotal' = ptotal /\ poffset' = poffset /\ tail_idx_' = tail_idx_
      /\ published' = published /\ cpc' = cpc /\ ctotal' = ctotal /\ cticket' = cticket
      /\ cgot' = cgot /\ head_idx_' = head_idx_ /\ commit_idx_' = commit_idx_
      /\ granted' = granted /\ delivered' = delivered
  OBVIOUS
<1>2. TypeOK'
  BY <1>1, Zenon DEF QueueInvariant, TypeOK
<1>3. PICK C \in Nat, H \in Nat, pos \in [Consumers -> Nat] : Positions(C, H, pos)
  BY DEF QueueInvariant
<1>4. Indices(C, H)' /\ RingHolds(C)'
  BY <1>1, <1>3, Zenon DEF Positions, Indices, RingHolds
<1>5. TicketsHeld(C, H, pos)' /\ TicketsApart(pos)' /\ Copied(pos)'
  BY <1>1, <1>3, Zenon DEF Positions, TicketsHeld, TicketsApart, Copied, Holding
<1>6. TicketsDrawn(C, H, pos)'
  BY <1>1, <1>3, Zenon DEF Positions, TicketsDrawn, NeedsCredit, Holding
<1>7. Positions(C, H, pos)'
  BY <1>4, <1>5, <1>6, Zenon DEF Positions
<1>8. QED
  BY <1>2, <1>7, Zenon DEF QueueInvariant
-----------------------------------------------------------------------------
(* The producer's steps *)

LEMMA EnqueueRefuseInvariant ==
  ASSUME QueueInvariant, NEW n, EnqueueRefuse(n)
  PROVE  QueueInvariant'
BY SameState DEF EnqueueRefuse, memory, consumers, locals

\* The free space the producer computes is the true one.
LEMMA FreeSpace ==
  ASSUME TypeOK, NEW C \in Nat, NEW H \in Nat, Indices(C, H), ptotal = 0
  PROVE  Minus(capacity_, Minus(tail_idx_, commit_idx_)) = capacity_ - (published - C)
<1>1. /\ IndexMod \in Nat /\ IndexMod > 0 /\ capacity_ \in Nat /\ capacity_ < IndexMod
      /\ published \in Nat
  BY Numbers, Zenon
<1>2. C <= published /\ published - C <= capacity_
  BY <1>1 DEF Indices
<1>3. Minus(tail_idx_, commit_idx_) = published - C
  <2>1. published - C < IndexMod
    BY <1>1, <1>2
  <2>2. ((published % IndexMod) - (C % IndexMod)) % IndexMod = published - C
    BY <1>1, <1>2, <2>1, TrueDistance, Zenon
  <2>. QED
    BY <2>2, Zenon DEF Indices, Minus
<1>4. capacity_ - (published - C) \in 0..(IndexMod - 1)
  BY <1>1, <1>2
<1>5. (capacity_ - (published - C)) % IndexMod = capacity_ - (published - C)
  BY <1>1, <1>4, ModSmall, Zenon
<1>6. QED
  BY <1>3, <1>5, Zenon DEF Minus

\* What Positions says of the consumers does not depend on the producer.
LEMMA ConsumersUntouched ==
  ASSUME NEW C \in Nat, NEW H \in Nat, NEW pos \in [Consumers -> Nat], TypeOK,
         Positions(C, H, pos), UNCHANGED <<team, consumers>>,
         published' \in Nat, published <= published'
  PROVE  /\ TicketsHeld(C, H, pos)' /\ TicketsApart(pos)' /\ Copied(pos)'
         /\ TicketsDrawn(C, H, pos)'
<1>1. UNCHANGED <<team, cpc, ctotal, cticket, cgot, granted>>
  BY DEF consumers, locals
<1>2. \A c \in Consumers : Holding(c)' <=> Holding(c)
  BY <1>1, Zenon DEF Holding
<1>3. TicketsHeld(C, H, pos)' /\ TicketsApart(pos)'
  BY <1>1, <1>2, Zenon DEF Positions, TicketsHeld, TicketsApart
<1>4. Copied(pos)'
  <2>1. \A c \in Consumers : pos[c] + ctotal[c] <= published => pos[c] + ctotal[c] <= published'
    <3> SUFFICES ASSUME NEW c \in Consumers, pos[c] + ctotal[c] <= published
                 PROVE  pos[c] + ctotal[c] <= published'
      OBVIOUS
    <3>1. pos[c] \in Nat /\ ctotal[c] \in Nat /\ published \in Nat
      BY DEF TypeOK
    <3>. QED
      BY <3>1
  <2>. QED
    BY <1>1, <2>1, Zenon DEF Positions, Copied
<1>5. TicketsDrawn(C, H, pos)'
  <2>1. NeedsCredit' <=> NeedsCredit
    BY <1>1, Zenon DEF NeedsCredit
  <2>2. granted <= published => granted <= published'
    BY DEF TypeOK
  <2>. QED
    BY <1>1, <1>2, <2>1, <2>2, Zenon DEF Positions, TicketsDrawn
<1>6. QED
  BY <1>3, <1>4, <1>5

LEMMA EnqueueCallInvariant ==
  ASSUME QueueInvariant, NEW n \in OpSizes, EnqueueCall(n)
  PROVE  QueueInvariant'
<1>1. PICK C \in Nat, H \in Nat, pos \in [Consumers -> Nat] : Positions(C, H, pos)
  BY DEF QueueInvariant
<1>2. TypeOK /\ ppc = "idle" /\ ptotal = 0 /\ n \in Nat
  BY SpmcConstants DEF QueueInvariant, TypeOK, EnqueueCall
<1>3. /\ capacity_ \in Nat /\ published \in Nat
      /\ poffset = 0
  <2>1. poffset \in 0..ptotal
    BY <1>2 DEF TypeOK
  <2>. QED
    BY <1>2, <2>1, Numbers
<1>4. UNCHANGED <<team, capacity_, buffer_, poffset, tail_idx_, published, consumers>>
  BY DEF EnqueueCall, memory
<1>5. /\ ppc' \in {"idle", "copy"} /\ ptotal' \in Nat /\ (ppc' = "idle" => ptotal' = 0)
      /\ published + ptotal' <= C + capacity_
  <2>1. Indices(C, H)
    BY <1>1 DEF Positions
  <2>2. CASE Minus(capacity_, Minus(tail_idx_, commit_idx_)) < n
    <3>1. ppc' = ppc /\ ptotal' = ptotal
      BY <2>2 DEF EnqueueCall
    <3>. QED
      BY <1>2, <2>1, <3>1 DEF Indices
  <2>3. CASE ~(Minus(capacity_, Minus(tail_idx_, commit_idx_)) < n)
    <3>1. ppc' = "copy" /\ ptotal' = n
      BY <2>3 DEF EnqueueCall
    <3>2. Minus(capacity_, Minus(tail_idx_, commit_idx_)) = capacity_ - (published - C)
      BY <1>2, <2>1, FreeSpace, Zenon
    <3>3. ~(capacity_ - (published - C) < n)
      BY <2>3, <3>2, Zenon
    <3>4. published + n <= C + capacity_
      BY <1>2, <1>3, <3>3
    <3>. QED
      BY <1>2, <3>1, <3>4
  <2>. QED
    BY <2>2, <2>3
<1>6. TypeOK'
  <2>1. poffset' \in 0..ptotal'
    BY <1>3, <1>4, <1>5
  <2>. QED
    BY <1>2, <1>4, <1>5, <2>1, Zenon DEF TypeOK, consumers, locals
<1>7. Indices(C, H)'
  BY <1>1, <1>4, <1>5, Zenon DEF Positions, Indices, consumers
<1>8. RingHolds(C)'
  BY <1>1, <1>4, Zenon DEF Positions, RingHolds
<1>9. /\ TicketsHeld(C, H, pos)' /\ TicketsApart(pos)' /\ Copied(pos)'
      /\ TicketsDrawn(C, H, pos)'
  <2>1. published' \in Nat /\ published <= published'
    BY <1>3, <1>4
  <2>. QED
    BY <1>1, <1>2, <1>4, <2>1, ConsumersUntouched
<1>10. Positions(C, H, pos)'
  BY <1>7, <1>8, <1>9, Zenon DEF Positions
<1>11. QED
  BY <1>6, <1>10, Zenon DEF QueueInvariant

LEMMA EnqueueCopyInvariant ==
  ASSUME QueueInvariant, NEW k \in 1..ptotal, EnqueueCopy(k)
  PROVE  QueueInvariant'
<1>1. PICK C \in Nat, H \in Nat, pos \in [Consumers -> Nat] : Positions(C, H, pos)
  BY DEF QueueInvariant
<1>2. TypeOK
  BY DEF QueueInvariant
<1>3. /\ IndexMod \in Nat /\ IndexMod > 0 /\ capacity_ \in Nat /\ capacity_ < IndexMod
      /\ published \in Nat /\ ptotal \in Nat /\ poffset \in Nat /\ poffset <= ptotal
  BY <1>2, Numbers, Zenon
<1>4. k \in Nat /\ k > 0 /\ poffset + k <= ptotal
  BY <1>3 DEF EnqueueCopy
<1>5. C <= published /\ published + ptotal <= C + capacity_ /\ tail_idx_ = published % IndexMod
  BY <1>1 DEF Positions, Indices
<1>6. capacity_ > 0 /\ k \in 0..capacity_ /\ capacity_ \in Capacities \cup {0}
  BY <1>2, <1>3, <1>4, <1>5 DEF TypeOK
<1> DEFINE first == published + poffset
           idx == first % IndexMod
           buf == CopyIn(capacity_, buffer_, idx, first, k)
<1>7. first \in Int /\ idx \in Int
  BY <1>3, ModRange
<1>8. buffer_' = buf
  <2>1. Plus(tail_idx_, poffset) = idx
    <3>1. published \in Int /\ poffset \in Int
      BY <1>3
    <3>. QED
      BY <1>5, <3>1, Advance, Zenon
  <2>. QED
    BY <2>1, Zenon DEF EnqueueCopy
<1>9. /\ buf \in [0..(capacity_ - 1) -> Int]
      /\ \A i \in 0..(k - 1) : buf[(idx + i) % capacity_] = first + i
      /\ \A s \in 0..(capacity_ - 1) :
           (\A i \in 0..(k - 1) : s # (idx + i) % capacity_) => buf[s] = buffer_[s]
  <2>1. buffer_ \in [0..(capacity_ - 1) -> Int]
    BY <1>2 DEF TypeOK
  <2> HIDE DEF idx, first
  <2>. QED
    BY <1>3, <1>6, <1>7, <2>1, CopyInSpec, ZenonT(40)
<1>10. \A i \in Int : (idx + i) % capacity_ = (first + i) % capacity_
  BY <1>6, <1>7, SlotOfPosition, Zenon
<1>11. ASSUME NEW p \in C..(first + k - 1) PROVE buf[p % capacity_] = p
  <2>1. p \in Int /\ p % capacity_ \in 0..(capacity_ - 1) /\ 0 \in Int
    BY <1>3, <1>6, <1>7, ModRange
  <2>2. CASE p >= first
    <3> DEFINE i == p - first
    <3>1. i \in 0..(k - 1) /\ first + i = p /\ i \in Int
      BY <1>4, <1>7, <2>1, <2>2
    <3> HIDE DEF i
    <3>2. buf[(idx + i) % capacity_] = first + i
      BY <1>9, <3>1, Zenon
    <3>3. (idx + i) % capacity_ = (first + i) % capacity_
      BY <1>10, <3>1, Zenon
    <3>. QED
      BY <3>1, <3>2, <3>3, Zenon
  <2>3. CASE p < first
    <3>1. buffer_[p % capacity_] = p
      <4>1. p \in C..(published + poffset - 1)
        BY <1>3, <2>1, <2>3
      <4>. QED
        BY <1>1, <4>1, Zenon DEF Positions, RingHolds
    <3>2. ASSUME NEW i \in 0..(k - 1) PROVE p % capacity_ # (idx + i) % capacity_
      <4>1. first + i \in Int /\ p < first + i /\ (first + i) - p < capacity_ /\ i \in Int
        BY <1>3, <1>4, <1>5, <2>1, <2>3
      <4>2. (0 + p) % capacity_ # (0 + (first + i)) % capacity_
        BY <1>3, <1>6, <2>1, <4>1, ModApart, Zenon
      <4>3. 0 + p = p /\ 0 + (first + i) = first + i
        BY <2>1, <4>1
      <4>4. (idx + i) % capacity_ = (first + i) % capacity_
        BY <1>10, <4>1, Zenon
      <4>. QED
        BY <4>2, <4>3, <4>4, Zenon
    <3>3. buf[p % capacity_] = buffer_[p % capacity_]
      BY <1>9, <2>1, <3>2, Zenon
    <3>. QED
      BY <3>1, <3>3, Zenon
  <2>. QED
    BY <1>7, <2>1, <2>2, <2>3
<1>12. UNCHANGED <<team, capacity_, ppc, ptotal, tail_idx_, published, consumers>>
  BY DEF EnqueueCopy
<1>13. TypeOK'
  <2>1. poffset' \in 0..ptotal
    BY <1>3, <1>4 DEF EnqueueCopy
  <2>2. buffer_' \in [0..(capacity_ - 1) -> Int]
    BY <1>8, <1>9, Zenon
  <2>. QED
    BY <1>2, <1>12, <2>1, <2>2, Zenon DEF TypeOK, consumers, locals
<1>14. Indices(C, H)'
  BY <1>1, <1>12, Zenon DEF Positions, Indices, consumers
<1>15. RingHolds(C)'
  <2>1. published' + poffset' - 1 = first + k - 1
    BY <1>3, <1>4, <1>12 DEF EnqueueCopy
  <2> HIDE DEF buf, first
  <2>. QED
    BY <1>8, <1>11, <1>12, <2>1, Zenon DEF RingHolds
<1>16. /\ TicketsHeld(C, H, pos)' /\ TicketsApart(pos)' /\ Copied(pos)'
       /\ TicketsDrawn(C, H, pos)'
  <2>1. published' \in Nat /\ published <= published'
    BY <1>3, <1>12
  <2>. QED
    BY <1>1, <1>2, <1>12, <2>1, ConsumersUntouched
<1>17. Positions(C, H, pos)'
  BY <1>14, <1>15, <1>16, Zenon DEF Positions
<1>18. QED
  BY <1>13, <1>17, Zenon DEF QueueInvariant

LEMMA EnqueuePublishInvariant ==
  ASSUME QueueInvariant, EnqueuePublish
  PROVE  QueueInvariant'
<1>1. PICK C \in Nat, H \in Nat, pos \in [Consumers -> Nat] : Positions(C, H, pos)
  BY DEF QueueInvariant
<1>2. TypeOK
  BY DEF QueueInvariant
<1>3. /\ IndexMod \in Nat /\ IndexMod > 0 /\ capacity_ \in Nat
      /\ published \in Nat /\ ptotal \in Nat /\ poffset = ptotal
  BY <1>2, Numbers, Zenon DEF EnqueuePublish
<1>4. UNCHANGED <<team, capacity_, buffer_, consumers>>
  BY DEF EnqueuePublish, memory
<1>5. published' = published + ptotal /\ ptotal' = 0 /\ poffset' = 0 /\ ppc' = "idle"
  BY DEF EnqueuePublish
<1>6. TypeOK'
  <2>1. published' \in Nat /\ poffset' \in 0..ptotal' /\ ptotal' \in Nat
    BY <1>3, <1>5
  <2>. QED
    BY <1>2, <1>4, <1>5, <2>1, Zenon DEF TypeOK, consumers, locals
<1>7. Indices(C, H)'
  <2>1. tail_idx_' = published' % IndexMod
    <3>1. published \in Int /\ ptotal \in Int /\ tail_idx_ = published % IndexMod
      BY <1>1, <1>3 DEF Positions, Indices
    <3>2. Plus(published % IndexMod, ptotal) = (published + ptotal) % IndexMod
      BY <3>1, Advance, Zenon
    <3>. QED
      BY <1>5, <3>1, <3>2, Zenon DEF EnqueuePublish
  <2>2. C <= H /\ C <= published' /\ published' + ptotal' <= C + capacity_
    BY <1>1, <1>3, <1>5 DEF Positions, Indices
  <2>. QED
    BY <1>1, <1>4, <2>1, <2>2, Zenon DEF Positions, Indices, consumers
<1>8. RingHolds(C)'
  <2>1. published' + poffset' - 1 = published + poffset - 1
    BY <1>3, <1>5
  <2>. QED
    BY <1>1, <1>4, <2>1, Zenon DEF Positions, RingHolds
<1>9. /\ TicketsHeld(C, H, pos)' /\ TicketsApart(pos)' /\ Copied(pos)'
      /\ TicketsDrawn(C, H, pos)'
  <2>1. published' \in Nat /\ published <= published'
    BY <1>3, <1>5
  <2>. QED
    BY <1>1, <1>2, <1>4, <2>1, ConsumersUntouched
<1>10. Positions(C, H, pos)'
  BY <1>7, <1>8, <1>9, Zenon DEF Positions
<1>11. QED
  BY <1>6, <1>10, Zenon DEF QueueInvariant
-----------------------------------------------------------------------------
(* The consumers' steps *)

\* What the step of a consumer leaves alone: the other consumers' calls.
OthersUntouched(c) ==
  \A d \in Consumers : d # c =>
    cpc'[d] = cpc[d] /\ ctotal'[d] = ctotal[d] /\ cticket'[d] = cticket[d] /\ cgot'[d] = cgot[d]

LEMMA ConsumerTypes ==
  ASSUME TypeOK, NEW c \in Consumers, UNCHANGED <<memory, producer>>, granted' \in Nat,
         NEW s \in {"idle", "check", "rewind", "copy", "peekCheck", "peek", "peeked"},
         NEW n \in Nat, NEW t \in Int, NEW g,
         cpc' = [cpc EXCEPT ![c] = s], ctotal' = [ctotal EXCEPT ![c] = n],
         cticket' = [cticket EXCEPT ![c] = t], cgot' = [cgot EXCEPT ![c] = g]
  PROVE  /\ TypeOK' /\ OthersUntouched(c)
         /\ cpc'[c] = s /\ ctotal'[c] = n /\ cticket'[c] = t /\ cgot'[c] = g
<1>1. /\ team' = team /\ capacity_' = capacity_ /\ buffer_' = buffer_ /\ ppc' = ppc
      /\ ptotal' = ptotal /\ poffset' = poffset /\ published' = published
  BY DEF memory, producer
<1>2. cpc' \in [Consumers -> {"idle", "check", "rewind", "copy", "peekCheck", "peek", "peeked"}]
  BY DEF TypeOK
<1>3. ctotal' \in [Consumers -> Nat] /\ cticket' \in [Consumers -> Int]
  BY DEF TypeOK
<1>4. cgot' = [d \in Consumers |-> cgot'[d]]
  BY DEF TypeOK
<1>5. TypeOK'
  BY <1>1, <1>2, <1>3, <1>4, Zenon DEF TypeOK
<1>6. cpc'[c] = s /\ ctotal'[c] = n /\ cticket'[c] = t /\ cgot'[c] = g
  BY DEF TypeOK
<1>7. OthersUntouched(c)
  BY DEF TypeOK, OthersUntouched
<1>8. QED
  BY <1>5, <1>6, <1>7

\* A peek claims nothing.
LEMMA QuietStep ==
  ASSUME NEW C \in Nat, NEW H \in Nat, NEW pos \in [Consumers -> Nat], Positions(C, H, pos),
         NEW c \in Consumers, OthersUntouched(c),
         UNCHANGED <<memory, producer, head_idx_, commit_idx_, granted, delivered>>,
         cpc[c] \notin {"check", "rewind", "copy"}, cpc'[c] \notin {"check", "rewind", "copy"},
         cpc'[c] # "peeked" => cgot'[c] = <<>>
  PROVE  Positions(C, H, pos)'
<1>1. /\ team' = team /\ capacity_' = capacity_ /\ buffer_' = buffer_ /\ ppc' = ppc
      /\ ptotal' = ptotal /\ poffset' = poffset /\ tail_idx_' = tail_idx_
      /\ published' = published /\ head_idx_' = head_idx_ /\ commit_idx_' = commit_idx_
      /\ granted' = granted /\ delivered' = delivered
  BY DEF memory, producer
<1>2. ~Holding(c) /\ ~Holding(c)'
  BY DEF Holding
<1>3. \A d \in Consumers : Holding(d)' => Holding(d) /\ d # c
  BY <1>2, Zenon DEF OthersUntouched, Holding
<1>4. \A d \in Consumers : Holding(d) => Holding(d)' /\ d # c
  BY <1>2, Zenon DEF OthersUntouched, Holding
<1>5. \A d \in Consumers :
        Holding(d) => /\ cpc'[d] = cpc[d] /\ ctotal'[d] = ctotal[d] /\ cticket'[d] = cticket[d]
                      /\ cgot'[d] = cgot[d]
  BY <1>4, Zenon DEF OthersUntouched
<1>6. Indices(C, H)' /\ RingHolds(C)'
  BY <1>1, Zenon DEF Positions, Indices, RingHolds
<1>7. TicketsHeld(C, H, pos)'
  BY <1>1, <1>3, <1>5, Zenon DEF Positions, TicketsHeld
<1>8. TicketsApart(pos)'
  BY <1>3, <1>5, Zenon DEF Positions, TicketsApart
<1>9. Copied(pos)'
  <2>1. cpc'[c] # "copy"
    OBVIOUS
  <2>2. cpc'[c] \notin {"copy", "peeked"} => cgot'[c] = <<>>
    OBVIOUS
  <2>. QED
    BY <1>1, <2>1, <2>2, Zenon DEF Positions, Copied, OthersUntouched
<1>10. TicketsDrawn(C, H, pos)'
  <2>1. NeedsCredit' <=> NeedsCredit
    BY <1>1, Zenon DEF NeedsCredit
  <2>2. cpc'[c] # "rewind"
    OBVIOUS
  <2>3. CASE NeedsCredit
    BY <1>1, <2>1, <2>2, <2>3, Zenon DEF Positions, TicketsDrawn, OthersUntouched
  <2>4. CASE ~NeedsCredit
    BY <1>3, <1>4, <1>5, <2>1, <2>4, Zenon DEF Positions, TicketsDrawn
  <2>. QED
    BY <2>3, <2>4
<1>11. QED
  BY <1>6, <1>7, <1>8, <1>9, <1>10, Zenon DEF Positions

LEMMA DequeueRefuseInvariant ==
  ASSUME QueueInvariant, NEW c, NEW n, DequeueRefuse(c, n)
  PROVE  QueueInvariant'
BY SameState DEF DequeueRefuse, memory, producer

\* An unchanged local is one set to what it is.
LEMMA LocalsOf ==
  ASSUME TypeOK, NEW c \in Consumers
  PROVE  /\ ctotal[c] \in Nat /\ cticket[c] \in Int
         /\ cpc = [cpc EXCEPT ![c] = cpc[c]] /\ ctotal = [ctotal EXCEPT ![c] = ctotal[c]]
         /\ cticket = [cticket EXCEPT ![c] = cticket[c]] /\ cgot = [cgot EXCEPT ![c] = cgot[c]]
<1>1. ctotal[c] \in Nat /\ cticket[c] \in Int
  BY DEF TypeOK
<1>2. ctotal = [ctotal EXCEPT ![c] = ctotal[c]] /\ cticket = [cticket EXCEPT ![c] = cticket[c]]
  BY DEF TypeOK
<1>3. cpc = [cpc EXCEPT ![c] = cpc[c]]
  BY DEF TypeOK
<1>4. cgot = [cgot EXCEPT ![c] = cgot[c]]
  BY DEF TypeOK
<1>5. QED
  BY <1>1, <1>2, <1>3, <1>4

LEMMA PeekInvariant ==
  ASSUME QueueInvariant, NEW c \in team,
         \/ \E n \in OpSizes : PeekCall(c, n)
         \/ PeekCheck(c) \/ PeekCopy(c) \/ PeekReturn(c)
  PROVE  QueueInvariant'
<1>1. PICK C \in Nat, H \in Nat, pos \in [Consumers -> Nat] : Positions(C, H, pos)
  BY DEF QueueInvariant
<1>2. TypeOK /\ c \in Consumers
  <2>1. TypeOK
    BY DEF QueueInvariant
  <2>. QED
    BY <2>1, Numbers, Zenon
<1>3. /\ ctotal[c] \in Nat /\ cticket[c] \in Int
      /\ cpc = [cpc EXCEPT ![c] = cpc[c]] /\ ctotal = [ctotal EXCEPT ![c] = ctotal[c]]
      /\ cticket = [cticket EXCEPT ![c] = cticket[c]] /\ cgot = [cgot EXCEPT ![c] = cgot[c]]
  BY <1>2, LocalsOf, Zenon
<1>4. /\ granted' = granted /\ granted' \in Nat /\ 0 \in Nat /\ 0 \in Int
      /\ UNCHANGED <<memory, producer, head_idx_, commit_idx_, granted, delivered>>
  BY <1>2 DEF PeekCall, PeekCheck, PeekCopy, PeekReturn, TypeOK
<1>5. cpc[c] \notin {"check", "rewind", "copy"}
  BY DEF PeekCall, PeekCheck, PeekCopy, PeekReturn
<1>6. cpc[c] \notin {"copy", "peeked"} => cgot[c] = <<>>
  BY <1>1, <1>2, Zenon DEF Positions, Copied
<1>7. ASSUME NEW s \in {"idle", "peekCheck", "peek", "peeked"},
             NEW m \in Nat, NEW t \in Int, NEW g,
             cpc' = [cpc EXCEPT ![c] = s], ctotal' = [ctotal EXCEPT ![c] = m],
             cticket' = [cticket EXCEPT ![c] = t], cgot' = [cgot EXCEPT ![c] = g],
             s # "peeked" => g = <<>>
      PROVE  QueueInvariant'
  <2>1. s \in {"idle", "check", "rewind", "copy", "peekCheck", "peek", "peeked"}
    OBVIOUS
  <2>2. UNCHANGED <<memory, producer>>
    BY <1>4
  <2>3. TypeOK' /\ OthersUntouched(c) /\ cpc'[c] = s /\ cgot'[c] = g
    BY <1>2, <1>4, <1>7, <2>1, <2>2, ConsumerTypes
  <2>4. cpc'[c] \notin {"check", "rewind", "copy"}
    BY <2>3
  <2>5. Positions(C, H, pos)'
    BY <1>1, <1>2, <1>4, <1>5, <1>7, <2>3, <2>4, QuietStep
  <2>. QED
    BY <2>3, <2>5, Zenon DEF QueueInvariant
<1>8. ASSUME NEW n \in OpSizes, PeekCall(c, n) PROVE QueueInvariant'
  <2>1. commit_idx_ \in Int /\ n \in Nat
    <3>1. commit_idx_ = C % IndexMod /\ IndexMod \in Nat /\ IndexMod > 0
      BY <1>1, SpmcConstants DEF Positions, Indices
    <3>. QED
      BY <3>1, ModRange, SpmcConstants
  <2>2. cgot[c] = <<>>
    BY <1>6, <1>8 DEF PeekCall
  <2>3. /\ cpc' = [cpc EXCEPT ![c] = "peekCheck"] /\ ctotal' = [ctotal EXCEPT ![c] = n]
        /\ cticket' = [cticket EXCEPT ![c] = commit_idx_] /\ cgot' = cgot
    BY <1>8 DEF PeekCall
  <2>4. cgot' = [cgot EXCEPT ![c] = cgot[c]]
    BY <1>3, <2>3, Zenon
  <2>. QED
    BY <1>7, <2>1, <2>2, <2>3, <2>4, Zenon
<1>9. CASE PeekCheck(c)
  <2>1. cgot[c] = <<>>
    BY <1>6, <1>9 DEF PeekCheck
  <2>2. cgot' = [cgot EXCEPT ![c] = cgot[c]]
    BY <1>3, <1>9, Zenon DEF PeekCheck
  <2>3. \/ /\ cpc' = [cpc EXCEPT ![c] = "idle"] /\ ctotal' = [ctotal EXCEPT ![c] = 0]
           /\ cticket' = [cticket EXCEPT ![c] = 0]
        \/ /\ cpc' = [cpc EXCEPT ![c] = "peek"] /\ ctotal' = ctotal /\ cticket' = cticket
    BY <1>9 DEF PeekCheck
  <2>4. \/ /\ cpc' = [cpc EXCEPT ![c] = "idle"] /\ ctotal' = [ctotal EXCEPT ![c] = 0]
           /\ cticket' = [cticket EXCEPT ![c] = 0]
        \/ /\ cpc' = [cpc EXCEPT ![c] = "peek"] /\ ctotal' = [ctotal EXCEPT ![c] = ctotal[c]]
           /\ cticket' = [cticket EXCEPT ![c] = cticket[c]]
    BY <1>3, <2>3, Zenon
  <2>. QED
    BY <1>3, <1>4, <1>7, <2>1, <2>2, <2>4, Zenon
<1>10. CASE PeekCopy(c)
  <2>1. /\ cpc' = [cpc EXCEPT ![c] = "peeked"] /\ ctotal' = ctotal /\ cticket' = cticket
        /\ cgot' = [cgot EXCEPT ![c] = Extended(c, ctotal[c])]
    BY <1>10 DEF PeekCopy
  <2>2. ctotal' = [ctotal EXCEPT ![c] = ctotal[c]] /\ cticket' = [cticket EXCEPT ![c] = cticket[c]]
    BY <1>3, <2>1, Zenon
  <2>. QED
    BY <1>3, <1>7, <2>1, <2>2, Zenon
<1>11. CASE PeekReturn(c)
  <2>1. /\ cpc' = [cpc EXCEPT ![c] = "idle"] /\ ctotal' = [ctotal EXCEPT ![c] = 0]
        /\ cticket' = [cticket EXCEPT ![c] = 0] /\ cgot' = [cgot EXCEPT ![c] = <<>>]
    BY <1>11 DEF PeekReturn
  <2>. QED
    BY <1>4, <1>7, <2>1, Zenon
<1>12. QED
  BY <1>8, <1>9, <1>10, <1>11

\* head_idx_.fetch_add: the ticket begins where the last one ended.
LEMMA DequeueTicketInvariant ==
  ASSUME Disciplined, QueueInvariant, NEW c \in team, NEW n \in OpSizes, DequeueTicket(c, n)
  PROVE  QueueInvariant'
<1>1. PICK C \in Nat, H \in Nat, pos \in [Consumers -> Nat] : Positions(C, H, pos)
  BY DEF QueueInvariant
<1>2. TypeOK /\ c \in Consumers
  <2>1. TypeOK
    BY DEF QueueInvariant
  <2>. QED
    BY <2>1, Numbers, Zenon
<1>3. /\ cgot = [cgot EXCEPT ![c] = cgot[c]] /\ cpc[c] = "idle" /\ n \in Nat /\ n > 0
      /\ published \in Nat /\ granted \in Nat /\ IndexMod \in Nat /\ IndexMod > 0
  <2>1. cgot = [cgot EXCEPT ![c] = cgot[c]]
    BY <1>2, LocalsOf, Zenon
  <2>2. n \in Nat /\ n # 0 /\ cpc[c] = "idle"
    BY SpmcConstants DEF DequeueTicket, Refused
  <2>3. n > 0
    BY <2>2
  <2>. QED
    BY <1>2, <2>1, <2>2, <2>3, Numbers, Zenon
<1> DEFINE pos2 == [pos EXCEPT ![c] = H]
<1>4. /\ pos2 \in [Consumers -> Nat] /\ pos2[c] = H
      /\ \A d \in Consumers : d # c => pos2[d] = pos[d]
  BY <1>2
<1>5. H + n \in Nat /\ head_idx_ = H % IndexMod
  BY <1>1, <1>3 DEF Positions, Indices
<1>6. /\ UNCHANGED <<memory, producer, commit_idx_, delivered>>
      /\ granted' = (IF NeedsCredit THEN granted + n ELSE granted) /\ granted' \in Nat
      /\ (NeedsCredit => granted + n <= published)
  BY <1>3 DEF DequeueTicket
<1>7. /\ TypeOK' /\ OthersUntouched(c) /\ cpc'[c] = "check" /\ ctotal'[c] = n
      /\ cticket'[c] = head_idx_ /\ cgot'[c] = cgot[c]
  <2>1. /\ cticket' = [cticket EXCEPT ![c] = head_idx_] /\ ctotal' = [ctotal EXCEPT ![c] = n]
        /\ cpc' = [cpc EXCEPT ![c] = "check"] /\ cgot' = cgot
    BY DEF DequeueTicket
  <2>2. cgot' = [cgot EXCEPT ![c] = cgot[c]]
    BY <1>3, <2>1, Zenon
  <2>3. head_idx_ \in Int
    BY <1>3, <1>5, ModRange
  <2>4. UNCHANGED <<memory, producer>>
    BY <1>6
  <2>5. "check" \in {"idle", "check", "rewind", "copy", "peekCheck", "peek", "peeked"}
    OBVIOUS
  <2>6. ASSUME NEW s \in {"idle", "check", "rewind", "copy", "peekCheck", "peek", "peeked"},
               NEW m \in Nat, NEW t \in Int, NEW g,
               cpc' = [cpc EXCEPT ![c] = s], ctotal' = [ctotal EXCEPT ![c] = m],
               cticket' = [cticket EXCEPT ![c] = t], cgot' = [cgot EXCEPT ![c] = g]
        PROVE  /\ TypeOK' /\ OthersUntouched(c)
               /\ cpc'[c] = s /\ ctotal'[c] = m /\ cticket'[c] = t /\ cgot'[c] = g
    BY <1>2, <1>6, <2>4, <2>6, ConsumerTypes
  <2>. QED
    BY <1>3, <2>1, <2>2, <2>3, <2>5, <2>6, ZenonT(40)
<1>8. /\ team' = team /\ capacity_' = capacity_ /\ buffer_' = buffer_ /\ ppc' = ppc
      /\ ptotal' = ptotal /\ poffset' = poffset /\ tail_idx_' = tail_idx_
      /\ published' = published /\ commit_idx_' = commit_idx_ /\ delivered' = delivered
  BY <1>6 DEF memory, producer
<1>9. ~Holding(c) /\ Holding(c)'
  BY <1>3, <1>7 DEF Holding
<1>10. \A d \in Consumers : d # c =>
         /\ Holding(d)' <=> Holding(d)
         /\ cpc'[d] = cpc[d] /\ ctotal'[d] = ctotal[d] /\ cticket'[d] = cticket[d]
         /\ cgot'[d] = cgot[d] /\ pos2[d] = pos[d]
  BY <1>4, <1>7, Zenon DEF OthersUntouched, Holding
<1>11. C <= H /\ C <= H + n
  BY <1>1, <1>3 DEF Positions, Indices
<1>12. Indices(C, H + n)'
  <2>1. head_idx_' = (H + n) % IndexMod
    <3>1. H \in Int /\ n \in Int
      BY <1>3
    <3>2. Plus(H % IndexMod, n) = (H + n) % IndexMod
      BY <3>1, Advance, Zenon
    <3>. QED
      BY <1>5, <3>2, Zenon DEF DequeueTicket
  <2>. QED
    BY <1>1, <1>8, <1>11, <2>1, Zenon DEF Positions, Indices
<1>13. RingHolds(C)'
  BY <1>1, <1>8, Zenon DEF Positions, RingHolds
<1>14. \A d \in Consumers : pos[d] \in Nat /\ ctotal[d] \in Nat
  BY <1>2 DEF TypeOK
<1>15. TicketsHeld(C, H + n, pos2)'
  <2> SUFFICES ASSUME NEW d \in Consumers, Holding(d)'
               PROVE  /\ d \in team' /\ ctotal'[d] > 0 /\ cticket'[d] = pos2[d] % IndexMod
                      /\ C <= pos2[d] /\ pos2[d] + ctotal'[d] <= H + n
    BY Zenon DEF TicketsHeld
  <2>1. CASE d = c
    <3>1. H + n <= H + n
      BY <1>3
    <3>. QED
      BY <1>3, <1>4, <1>5, <1>7, <1>8, <1>11, <2>1, <3>1, Zenon
  <2>2. CASE d # c
    <3>1. /\ d \in team /\ ctotal[d] > 0 /\ cticket[d] = pos[d] % IndexMod
          /\ C <= pos[d] /\ pos[d] + ctotal[d] <= H
      BY <1>1, <1>10, <2>2, Zenon DEF Positions, TicketsHeld
    <3>2. pos[d] + ctotal[d] <= H + n
      BY <1>3, <1>14, <3>1
    <3>. QED
      BY <1>8, <1>10, <2>2, <3>1, <3>2, Zenon
  <2>. QED
    BY <2>1, <2>2
<1>16. TicketsApart(pos2)'
  <2>1. ASSUME NEW d \in Consumers, Holding(d)', d # c
        PROVE  pos2[d] + ctotal'[d] <= pos2[c]
    <3>1. pos[d] + ctotal[d] <= H
      BY <1>1, <1>10, <2>1, Zenon DEF Positions, TicketsHeld
    <3>. QED
      BY <1>4, <1>10, <2>1, <3>1, Zenon
  <2>2. ASSUME NEW d \in Consumers, NEW e \in Consumers, Holding(d)', Holding(e)', d # e
        PROVE  pos2[d] + ctotal'[d] <= pos2[e] \/ pos2[e] + ctotal'[e] <= pos2[d]
    <3>1. CASE d = c \/ e = c
      BY <2>1, <2>2, <3>1, Zenon
    <3>2. CASE d # c /\ e # c
      <4>1. pos[d] + ctotal[d] <= pos[e] \/ pos[e] + ctotal[e] <= pos[d]
        BY <1>1, <1>10, <2>2, <3>2, Zenon DEF Positions, TicketsApart
      <4>. QED
        BY <1>10, <3>2, <4>1, Zenon
    <3>. QED
      BY <3>1, <3>2
  <2>. QED
    BY <2>2, Zenon DEF TicketsApart
<1>17. Copied(pos2)'
  <2>1. cgot'[c] = <<>> /\ cpc'[c] # "copy"
    <3>1. cpc[c] \notin {"copy", "peeked"} /\ cpc'[c] # "copy"
      BY <1>3, <1>7
    <3>. QED
      BY <1>1, <1>2, <1>7, <3>1, Zenon DEF Positions, Copied
  <2>2. Copied(pos)
    BY <1>1 DEF Positions
  <2>3. ASSUME NEW d \in Consumers, d # c
        PROVE  /\ cpc'[d] = "copy" =>
                    /\ pos2[d] + ctotal'[d] <= published'
                    /\ Len(cgot'[d]) \in 0..ctotal'[d]
                    /\ cgot'[d] = [i \in 1..Len(cgot'[d]) |-> pos2[d] + i - 1]
               /\ cpc'[d] \notin {"copy", "peeked"} => cgot'[d] = <<>>
    <3>1. cpc'[d] = cpc[d] /\ ctotal'[d] = ctotal[d] /\ cgot'[d] = cgot[d] /\ pos2[d] = pos[d]
      BY <1>10, <2>3, Zenon
    <3> HIDE DEF pos2
    <3>. QED
      BY <1>8, <2>2, <3>1, Zenon DEF Copied
  <2> HIDE DEF pos2
  <2>. QED
    BY <2>1, <2>3, Zenon DEF Copied
<1>18. TicketsDrawn(C, H + n, pos2)'
  <2>1. NeedsCredit' <=> NeedsCredit
    BY <1>8, Zenon DEF NeedsCredit
  <2>2. CASE NeedsCredit
    <3>1. H = granted /\ \A d \in Consumers : cpc[d] # "rewind"
      BY <1>1, <2>2, Zenon DEF Positions, TicketsDrawn
    <3>2. cpc'[c] # "rewind"
      BY <1>7
    <3>3. \A d \in Consumers : cpc'[d] # "rewind"
      BY <1>10, <3>1, <3>2, Zenon
    <3>4. granted' = granted + n
      BY <1>6, <2>2, Zenon
    <3>. QED
      BY <1>6, <1>8, <2>1, <2>2, <3>1, <3>3, <3>4, Zenon DEF TicketsDrawn
  <2>3. CASE ~NeedsCredit
    <3>1. \A d \in Consumers : Holding(d) => FALSE
      <4> SUFFICES ASSUME NEW d \in Consumers, Holding(d) PROVE FALSE
        OBVIOUS
      <4>1. d \in team
        BY <1>1, Zenon DEF Positions, TicketsHeld
      <4>2. team \in Teams
        BY <1>2 DEF TypeOK
      <4>3. d = c
        BY <2>3, <4>1, <4>2, OneConsumer, Zenon
      <4>. QED
        BY <1>9, <4>3
    <3>2. H = C
      BY <1>1, <2>3, <3>1, Zenon DEF Positions, TicketsDrawn
    <3>3. \A d \in Consumers : Holding(d)' => d = c
      BY <1>10, <3>1, Zenon
    <3>. QED
      BY <1>2, <1>4, <1>7, <1>9, <2>1, <2>3, <3>2, <3>3, Zenon DEF TicketsDrawn
  <2>. QED
    BY <2>2, <2>3
<1>19. Positions(C, H + n, pos2)'
  BY <1>12, <1>13, <1>15, <1>16, <1>17, <1>18, Zenon DEF Positions
<1>20. QED
  <2> HIDE DEF pos2
  <2>. QED
    BY <1>4, <1>5, <1>7, <1>19, Zenon DEF QueueInvariant

\* The distance the ticket shows from the tail is the true one.
LEMMA AvailableIsTrue ==
  ASSUME Disciplined, TypeOK, NEW C \in Nat, NEW H \in Nat, NEW pos \in [Consumers -> Nat],
         Positions(C, H, pos), NEW c \in Consumers, Holding(c)
  PROVE  /\ pos[c] <= published /\ Minus(tail_idx_, cticket[c]) = published - pos[c]
         /\ NeedsCredit => pos[c] + ctotal[c] <= published
<1>1. /\ IndexMod \in Nat /\ IndexMod > 0 /\ capacity_ \in Nat /\ capacity_ < IndexMod
      /\ published \in Nat /\ ptotal \in Nat
  BY Numbers, Zenon
<1>2. ctotal[c] \in Nat /\ pos[c] \in Nat
  BY DEF TypeOK
<1>3. /\ C <= published /\ published + ptotal <= C + capacity_
      /\ tail_idx_ = published % IndexMod
  BY Zenon DEF Positions, Indices
<1>4. /\ cticket[c] = pos[c] % IndexMod /\ C <= pos[c] /\ pos[c] + ctotal[c] <= H
  BY Zenon DEF Positions, TicketsHeld
<1>5. NeedsCredit => pos[c] + ctotal[c] <= published
  <2> SUFFICES ASSUME NeedsCredit PROVE pos[c] + ctotal[c] <= published
    OBVIOUS
  <2>1. H <= published
    BY Zenon DEF Positions, TicketsDrawn
  <2>. QED
    BY <1>1, <1>2, <1>4, <2>1
<1>6. pos[c] <= published
  <2>1. CASE NeedsCredit
    BY <1>1, <1>2, <1>5, <2>1
  <2>2. CASE ~NeedsCredit
    <3>1. pos[c] = C
      BY <2>2, Zenon DEF Positions, TicketsDrawn
    <3>. QED
      BY <1>3, <3>1, Zenon
  <2>. QED
    BY <2>1, <2>2
<1>7. published - pos[c] < IndexMod
  BY <1>1, <1>2, <1>3, <1>4
<1>8. ((published % IndexMod) - (pos[c] % IndexMod)) % IndexMod = published - pos[c]
  BY <1>1, <1>2, <1>6, <1>7, TrueDistance, Zenon
<1>9. QED
  BY <1>3, <1>4, <1>5, <1>6, <1>8, Zenon DEF Minus

LEMMA DequeueCheckInvariant ==
  ASSUME Disciplined, QueueInvariant, NEW c \in team, DequeueCheck(c)
  PROVE  QueueInvariant'
<1>1. PICK C \in Nat, H \in Nat, pos \in [Consumers -> Nat] : Positions(C, H, pos)
  BY DEF QueueInvariant
<1>2. TypeOK /\ c \in Consumers
  <2>1. TypeOK
    BY DEF QueueInvariant
  <2>. QED
    BY <2>1, Numbers, Zenon
<1>3. /\ IndexMod \in Nat /\ IndexMod > 0 /\ capacity_ \in Nat /\ capacity_ < IndexMod
      /\ published \in Nat /\ ptotal \in Nat /\ granted \in Nat
  BY <1>2, Numbers, Zenon
<1>4. /\ ctotal[c] \in Nat /\ cticket[c] \in Int /\ pos[c] \in Nat
      /\ cpc = [cpc EXCEPT ![c] = cpc[c]] /\ ctotal = [ctotal EXCEPT ![c] = ctotal[c]]
      /\ cticket = [cticket EXCEPT ![c] = cticket[c]] /\ cgot = [cgot EXCEPT ![c] = cgot[c]]
  BY <1>2, LocalsOf
<1> DEFINE s == IF Minus(tail_idx_, cticket[c]) < ctotal[c] THEN "rewind" ELSE "copy"
<1>5. /\ UNCHANGED <<memory, producer>>
      /\ head_idx_' = head_idx_ /\ commit_idx_' = commit_idx_ /\ granted' = granted
      /\ delivered' = delivered /\ cpc[c] = "check" /\ cpc' = [cpc EXCEPT ![c] = s]
      /\ ctotal' = ctotal /\ cticket' = cticket /\ cgot' = cgot
  BY DEF DequeueCheck
<1>6. /\ team' = team /\ capacity_' = capacity_ /\ buffer_' = buffer_ /\ ppc' = ppc
      /\ ptotal' = ptotal /\ poffset' = poffset /\ tail_idx_' = tail_idx_
      /\ published' = published
  BY <1>5 DEF memory, producer
<1>7. s \in {"rewind", "copy"}
  OBVIOUS
<1>8. TypeOK' /\ cpc'[c] = s /\ \A d \in Consumers : d # c => cpc'[d] = cpc[d]
  <2> HIDE DEF s
  <2>1. cpc' \in [Consumers -> {"idle", "check", "rewind", "copy", "peekCheck", "peek", "peeked"}]
    BY <1>2, <1>5, <1>7 DEF TypeOK
  <2>2. cpc'[c] = s /\ \A d \in Consumers : d # c => cpc'[d] = cpc[d]
    BY <1>2, <1>5 DEF TypeOK
  <2>. QED
    BY <1>2, <1>5, <1>6, <2>1, <2>2, Zenon DEF TypeOK
<1>9. Holding(c)
  BY <1>5 DEF Holding
<1>10. \A d \in Consumers : Holding(d)' <=> Holding(d)
  <2> HIDE DEF s
  <2>1. Holding(c)'
    BY <1>7, <1>8 DEF Holding
  <2>. QED
    BY <1>8, <1>9, <2>1, Zenon DEF Holding
<1>11. Indices(C, H)' /\ RingHolds(C)'
  BY <1>1, <1>5, <1>6, Zenon DEF Positions, Indices, RingHolds
<1>12. TicketsHeld(C, H, pos)' /\ TicketsApart(pos)'
  BY <1>1, <1>5, <1>6, <1>10, Zenon DEF Positions, TicketsHeld, TicketsApart
<1>13. /\ pos[c] <= published /\ Minus(tail_idx_, cticket[c]) = published - pos[c]
       /\ NeedsCredit => pos[c] + ctotal[c] <= published
  BY <1>1, <1>2, <1>9, AvailableIsTrue, Zenon
<1>14. s = "copy" => pos[c] + ctotal[c] <= published
  <2> SUFFICES ASSUME ~(Minus(tail_idx_, cticket[c]) < ctotal[c])
               PROVE  pos[c] + ctotal[c] <= published
    OBVIOUS
  <2>1. ~(published - pos[c] < ctotal[c])
    BY <1>13, Zenon
  <2>. QED
    BY <1>3, <1>4, <2>1
<1>15. NeedsCredit => s = "copy"
  <2> SUFFICES ASSUME NeedsCredit PROVE ~(Minus(tail_idx_, cticket[c]) < ctotal[c])
    OBVIOUS
  <2>1. pos[c] + ctotal[c] <= published
    BY <1>13
  <2>2. ~(published - pos[c] < ctotal[c])
    BY <1>3, <1>4, <2>1
  <2>. QED
    BY <1>13, <2>2, Zenon
<1> HIDE DEF s
<1>16. Copied(pos)'
  <2>1. Copied(pos)
    BY <1>1 DEF Positions
  <2>2. cgot[c] = <<>>
    <3>1. cpc[c] \notin {"copy", "peeked"}
      BY <1>5
    <3>. QED
      BY <1>2, <2>1, <3>1, Zenon DEF Copied
  <2>3. Len(cgot[c]) \in 0..ctotal[c] /\ cgot[c] = [i \in 1..Len(cgot[c]) |-> pos[c] + i - 1]
    BY <1>4, <2>2
  <2>. QED
    BY <1>5, <1>6, <1>8, <1>14, <2>1, <2>2, <2>3, Zenon DEF Copied
<1>17. TicketsDrawn(C, H, pos)'
  <2>1. NeedsCredit' <=> NeedsCredit
    BY <1>6, Zenon DEF NeedsCredit
  <2>2. CASE NeedsCredit
    <3>1. s # "rewind"
      BY <1>15, <2>2
    <3>. QED
      BY <1>1, <1>5, <1>6, <1>8, <2>1, <2>2, <3>1, Zenon DEF Positions, TicketsDrawn
  <2>3. CASE ~NeedsCredit
    BY <1>1, <1>5, <1>6, <1>10, <2>1, <2>3, Zenon DEF Positions, TicketsDrawn
  <2>. QED
    BY <2>2, <2>3
<1>18. Positions(C, H, pos)'
  BY <1>11, <1>12, <1>16, <1>17, Zenon DEF Positions
<1>19. QED
  BY <1>8, <1>18, Zenon DEF QueueInvariant

\* head_idx_.fetch_sub: the only ticket is given back.
LEMMA DequeueRewindInvariant ==
  ASSUME Disciplined, QueueInvariant, NEW c \in team, DequeueRewind(c)
  PROVE  QueueInvariant'
<1>1. PICK C \in Nat, H \in Nat, pos \in [Consumers -> Nat] : Positions(C, H, pos)
  BY DEF QueueInvariant
<1>2. TypeOK /\ c \in Consumers
  <2>1. TypeOK
    BY DEF QueueInvariant
  <2>. QED
    BY <2>1, Numbers, Zenon
<1>3. /\ IndexMod \in Nat /\ IndexMod > 0 /\ capacity_ \in Nat /\ capacity_ < IndexMod
      /\ published \in Nat /\ ptotal \in Nat /\ granted \in Nat
  BY <1>2, Numbers, Zenon
<1>4. /\ ctotal[c] \in Nat /\ cticket[c] \in Int /\ pos[c] \in Nat
      /\ cpc = [cpc EXCEPT ![c] = cpc[c]] /\ ctotal = [ctotal EXCEPT ![c] = ctotal[c]]
      /\ cticket = [cticket EXCEPT ![c] = cticket[c]] /\ cgot = [cgot EXCEPT ![c] = cgot[c]]
  BY <1>2, LocalsOf
<1>5. /\ UNCHANGED <<memory, producer>> /\ cpc[c] = "rewind" /\ cgot' = cgot
      /\ commit_idx_' = commit_idx_ /\ granted' = granted /\ delivered' = delivered
      /\ head_idx_' = Minus(head_idx_, ctotal[c]) /\ cpc' = [cpc EXCEPT ![c] = "idle"]
      /\ ctotal' = [ctotal EXCEPT ![c] = 0] /\ cticket' = [cticket EXCEPT ![c] = 0]
  BY DEF DequeueRewind
<1>6. /\ team' = team /\ capacity_' = capacity_ /\ buffer_' = buffer_ /\ ppc' = ppc
      /\ ptotal' = ptotal /\ poffset' = poffset /\ tail_idx_' = tail_idx_
      /\ published' = published
  BY <1>5 DEF memory, producer
<1>7. ~NeedsCredit /\ Holding(c)
  BY <1>1, <1>2, <1>5 DEF Positions, TicketsDrawn, Holding
<1>8. TypeOK' /\ OthersUntouched(c) /\ cpc'[c] = "idle" /\ cgot'[c] = cgot[c]
  <2>1. UNCHANGED <<memory, producer>> /\ granted' \in Nat /\ 0 \in Nat /\ 0 \in Int
    BY <1>3, <1>5
  <2>2. ASSUME NEW s \in {"idle", "check", "rewind", "copy", "peekCheck", "peek", "peeked"},
               NEW m \in Nat, NEW t \in Int, NEW g,
               cpc' = [cpc EXCEPT ![c] = s], ctotal' = [ctotal EXCEPT ![c] = m],
               cticket' = [cticket EXCEPT ![c] = t], cgot' = [cgot EXCEPT ![c] = g]
        PROVE  TypeOK' /\ OthersUntouched(c) /\ cpc'[c] = s /\ cgot'[c] = g
    BY <1>2, <2>1, <2>2, ConsumerTypes
  <2>3. cgot' = [cgot EXCEPT ![c] = cgot[c]]
    BY <1>4, <1>5, Zenon
  <2>4. "idle" \in {"idle", "check", "rewind", "copy", "peekCheck", "peek", "peeked"}
    OBVIOUS
  <2>. QED
    BY <1>5, <2>1, <2>2, <2>3, <2>4, Zenon
<1>9. \A d \in Consumers : ~Holding(d)'
  <2> SUFFICES ASSUME NEW d \in Consumers, Holding(d)' PROVE FALSE
    OBVIOUS
  <2>1. CASE d = c
    BY <1>8, <2>1 DEF Holding
  <2>2. CASE d # c
    <3>1. Holding(d)
      BY <1>8, <2>2, Zenon DEF Holding, OthersUntouched
    <3>2. d \in team
      BY <1>1, <3>1, Zenon DEF Positions, TicketsHeld
    <3>3. team \in Teams
      BY <1>2 DEF TypeOK
    <3>4. d = c
      BY <1>7, <3>2, <3>3, OneConsumer, Zenon
    <3>. QED
      BY <2>2, <3>4
  <2>. QED
    BY <2>1, <2>2
<1>10. Indices(C, C)'
  <2>1. head_idx_ = (C + ctotal[c]) % IndexMod
    BY <1>1, <1>2, <1>7, Zenon DEF Positions, Indices, TicketsDrawn
  <2>2. Minus(head_idx_, ctotal[c]) = C % IndexMod
    <3>1. C + ctotal[c] \in Int /\ -ctotal[c] \in Int /\ (C + ctotal[c]) % IndexMod \in Int
      BY <1>3, <1>4, ModRange, SMTT(30)
    <3>2. (((C + ctotal[c]) % IndexMod) + (-ctotal[c])) % IndexMod
            = ((C + ctotal[c]) + (-ctotal[c])) % IndexMod
      BY <1>3, <3>1, ModPlus, Zenon
    <3>3. /\ ((C + ctotal[c]) % IndexMod) + (-ctotal[c]) = ((C + ctotal[c]) % IndexMod) - ctotal[c]
          /\ (C + ctotal[c]) + (-ctotal[c]) = C
      BY <1>4, <3>1
    <3>. QED
      BY <2>1, <3>2, <3>3, Zenon DEF Minus
  <2>3. C <= C
    OBVIOUS
  <2>. QED
    BY <1>1, <1>5, <1>6, <2>2, <2>3, Zenon DEF Positions, Indices
<1>11. RingHolds(C)'
  BY <1>1, <1>6, Zenon DEF Positions, RingHolds
<1>12. TicketsHeld(C, C, pos)' /\ TicketsApart(pos)'
  BY <1>9, Zenon DEF TicketsHeld, TicketsApart
<1>13. Copied(pos)'
  <2>1. cpc[c] \notin {"copy", "peeked"} /\ cpc'[c] # "copy"
    BY <1>5, <1>8
  <2>2. cgot'[c] = <<>>
    BY <1>1, <1>2, <1>8, <2>1, Zenon DEF Positions, Copied
  <2>. QED
    BY <1>1, <1>6, <1>8, <2>1, <2>2, Zenon DEF Positions, Copied, OthersUntouched
<1>14. TicketsDrawn(C, C, pos)'
  <2>1. ~NeedsCredit'
    BY <1>6, <1>7, Zenon DEF NeedsCredit
  <2>. QED
    BY <1>9, <2>1, Zenon DEF TicketsDrawn
<1>15. Positions(C, C, pos)'
  BY <1>10, <1>11, <1>12, <1>13, <1>14, Zenon DEF Positions
<1>16. QED
  BY <1>8, <1>15, Zenon DEF QueueInvariant

\* A byte of a ticket whose bytes are all published is within a capacity of C.
LEMMA WithinRing ==
  ASSUME NEW C \in Nat, NEW x \in Nat, NEW total \in Nat, NEW n \in Nat, NEW k \in Nat,
         NEW j \in Nat, NEW pub \in Nat, NEW off \in Nat, NEW more \in Nat, NEW cap \in Nat,
         C <= x, x + total <= pub, pub + more <= C + cap, k <= total - n, j < k
  PROVE  j < cap /\ C <= x + n + j /\ x + n + j <= pub + off - 1
OBVIOUS

\* The bytes of a ticket up to the next k after those a consumer has.
NextBytes(pos, c, k) == [i \in 1..(Len(cgot[c]) + k) |-> pos[c] + i - 1]

\* What a memcpy out of the ring appends are the next bytes of the ticket.
LEMMA ExtendedIsNext ==
  ASSUME TypeOK, NEW C \in Nat, NEW H \in Nat, NEW pos \in [Consumers -> Nat],
         Positions(C, H, pos), NEW c \in Consumers, cpc[c] = "copy",
         NEW k \in Nat, k <= ctotal[c] - Len(cgot[c])
  PROVE  Extended(c, k) = NextBytes(pos, c, k)
<1> DEFINE n == Len(cgot[c])
           t == pos[c] + n
<1>1. /\ IndexMod \in Nat /\ IndexMod > 0 /\ capacity_ \in Nat /\ capacity_ < IndexMod
      /\ published \in Nat /\ ptotal \in Nat /\ poffset \in Nat
  BY Numbers, Zenon
<1>2. ctotal[c] \in Nat /\ pos[c] \in Nat
  BY DEF TypeOK
<1>3. /\ pos[c] + ctotal[c] <= published /\ n \in 0..ctotal[c]
      /\ cgot[c] = [i \in 1..n |-> pos[c] + i - 1]
  BY Zenon DEF Positions, Copied
<1>4. cticket[c] = pos[c] % IndexMod /\ C <= pos[c] /\ ctotal[c] > 0
  <2>1. Holding(c)
    BY DEF Holding
  <2>. QED
    BY <2>1, Zenon DEF Positions, TicketsHeld
<1>5. published + ptotal <= C + capacity_
  BY Zenon DEF Positions, Indices
<1>6. capacity_ > 0 /\ capacity_ \in Capacities \cup {0}
  <2>1. capacity_ > 0
    BY <1>1, <1>2, <1>3, <1>4, <1>5
  <2>. QED
    BY <2>1 DEF TypeOK
<1>7. t \in Nat /\ n \in Nat /\ Plus(cticket[c], n) = t % IndexMod
  <2>1. pos[c] \in Int /\ n \in Int /\ t \in Nat /\ n \in Nat
    BY <1>2, <1>3
  <2>2. Plus(pos[c] % IndexMod, n) = t % IndexMod
    BY <2>1, Advance, Zenon
  <2>. QED
    BY <1>4, <2>1, <2>2, Zenon
<1> DEFINE slot(i) == SlotOf(capacity_, Plus(cticket[c], n), i - n - 1)
<1>8. ASSUME NEW i \in 1..(n + k), ~(i <= n) PROVE buffer_[slot(i)] = pos[c] + i - 1
  <2> DEFINE j == i - n - 1
             p == t + j
  <2>1. /\ j \in 0..(capacity_ - 1) /\ j \in Int /\ p = pos[c] + i - 1
        /\ p \in C..(published + poffset - 1)
    <3>1. /\ pos[c] + ctotal[c] <= published /\ k <= ctotal[c] - n /\ n \in Nat
          /\ i \in 1..(n + k) /\ ~(i <= n) /\ t = pos[c] + n
      BY <1>3, <1>7, <1>8
    <3> HIDE DEF n, t
    <3>2. j = i - n - 1 /\ i \in Nat /\ j \in Nat /\ j < k /\ p = pos[c] + i - 1
      BY <1>2, <3>1, SMTT(30)
    <3> HIDE DEF j, p
    <3>3. j < capacity_ /\ C <= p /\ p <= published + poffset - 1
      <4>1. C <= pos[c]
        BY <1>4
      <4>2. j \in Nat /\ k \in Nat /\ p = pos[c] + n + j
        BY <1>2, <3>1, <3>2
      <4>3. j < k /\ k <= ctotal[c] - n /\ n \in Nat /\ pos[c] + ctotal[c] <= published
        BY <3>1, <3>2
      <4>4. /\ j < capacity_ /\ C <= pos[c] + n + j
            /\ pos[c] + n + j <= published + poffset - 1
        BY <1>1, <1>2, <1>5, <4>1, <4>2, <4>3, WithinRing, SMTT(30)
      <4>. QED
        BY <4>2, <4>4
    <3>. QED
      BY <1>1, <1>2, <3>2, <3>3
  <2>2. t % IndexMod \in Int /\ t \in Int
    BY <1>1, <1>7, ModRange
  <2> HIDE DEF j, t
  <2>3. SlotOf(capacity_, t % IndexMod, j) = ((t % IndexMod) + j) % capacity_
    BY <1>1, <1>6, <2>1, <2>2, SlotOfIsMod, Zenon
  <2>4. ((t % IndexMod) + j) % capacity_ = p % capacity_
    BY <1>6, <2>1, <2>2, SlotOfPosition, Zenon
  <2>5. buffer_[p % capacity_] = p
    BY <2>1, Zenon DEF Positions, RingHolds
  <2>6. slot(i) = SlotOf(capacity_, t % IndexMod, j)
    BY <1>7, Zenon DEF j
  <2>. QED
    BY <2>1, <2>3, <2>4, <2>5, <2>6, Zenon
<1>9. ASSUME NEW i \in 1..(n + k), i <= n PROVE cgot[c][i] = pos[c] + i - 1
  <2>1. i \in 1..n
    BY <1>7, <1>9
  <2>. QED
    BY <1>3, <2>1, Zenon
<1>10. Extended(c, k) = [i \in 1..(n + k) |-> IF i <= n THEN cgot[c][i] ELSE buffer_[slot(i)]]
  BY DEF Extended
<1> HIDE DEF slot, n, t
<1>11. [i \in 1..(n + k) |-> IF i <= n THEN cgot[c][i] ELSE buffer_[slot(i)]]
         = [i \in 1..(n + k) |-> pos[c] + i - 1]
  BY <1>8, <1>9, Zenon
<1>12. QED
  BY <1>10, <1>11, Zenon DEF n, NextBytes

LEMMA DequeueCopyInvariant ==
  ASSUME QueueInvariant, NEW c \in team, NEW k \in 1..ctotal[c], DequeueCopy(c, k)
  PROVE  QueueInvariant'
<1>1. PICK C \in Nat, H \in Nat, pos \in [Consumers -> Nat] : Positions(C, H, pos)
  BY DEF QueueInvariant
<1>2. TypeOK /\ c \in Consumers
  <2>1. TypeOK
    BY DEF QueueInvariant
  <2>. QED
    BY <2>1, Numbers, Zenon
<1>3. /\ IndexMod \in Nat /\ IndexMod > 0 /\ capacity_ \in Nat /\ capacity_ < IndexMod
      /\ published \in Nat /\ ptotal \in Nat /\ granted \in Nat
  BY <1>2, Numbers, Zenon
<1>4. /\ ctotal[c] \in Nat /\ cticket[c] \in Int /\ pos[c] \in Nat
      /\ cpc = [cpc EXCEPT ![c] = cpc[c]] /\ ctotal = [ctotal EXCEPT ![c] = ctotal[c]]
      /\ cticket = [cticket EXCEPT ![c] = cticket[c]] /\ cgot = [cgot EXCEPT ![c] = cgot[c]]
  BY <1>2, LocalsOf
<1> DEFINE n == Len(cgot[c])
           got == [i \in 1..(n + k) |-> pos[c] + i - 1]
<1>5. /\ UNCHANGED <<memory, producer>> /\ cpc[c] = "copy" /\ cpc' = cpc
      /\ head_idx_' = head_idx_ /\ commit_idx_' = commit_idx_ /\ granted' = granted
      /\ delivered' = delivered /\ ctotal' = ctotal /\ cticket' = cticket
      /\ k \in Nat /\ k <= ctotal[c] - n /\ cgot' = [cgot EXCEPT ![c] = Extended(c, k)]
  BY <1>4 DEF DequeueCopy
<1>6. /\ team' = team /\ capacity_' = capacity_ /\ buffer_' = buffer_ /\ ppc' = ppc
      /\ ptotal' = ptotal /\ poffset' = poffset /\ tail_idx_' = tail_idx_
      /\ published' = published
  BY <1>5 DEF memory, producer
<1>7. Extended(c, k) = got
  <2>1. Positions(C, H, pos) /\ cpc[c] = "copy" /\ k \in Nat /\ k <= ctotal[c] - Len(cgot[c])
    BY <1>1, <1>5
  <2>2. Extended(c, k) = NextBytes(pos, c, k)
    <3> HIDE DEF n, got
    <3>. QED
      BY <1>2, <2>1, ExtendedIsNext
  <2>. QED
    BY <2>2, Zenon DEF NextBytes
<1>8. n \in 0..ctotal[c] /\ pos[c] + ctotal[c] <= published
  BY <1>1, <1>2, <1>5, Zenon DEF Positions, Copied
<1>9. n \in Nat /\ n + k \in 0..ctotal[c]
  BY <1>4, <1>5, <1>8
<1>10. Len(got) = n + k
  <2> DEFINE m == n + k
  <2>1. m \in Nat
    BY <1>9
  <2> HIDE DEF m
  <2>2. Len([i \in 1..m |-> pos[c] + i - 1]) = m
    BY <2>1
  <2>. QED
    BY <2>2 DEF m
<1> HIDE DEF got
<1>11. cgot' = [cgot EXCEPT ![c] = got]
  BY <1>5, <1>7, Zenon
<1>12. cgot'[c] = got /\ \A d \in Consumers : d # c => cgot'[d] = cgot[d]
  BY <1>2, <1>11 DEF TypeOK
<1>13. TypeOK'
  <2>1. cgot' = [d \in Consumers |-> cgot'[d]]
    BY <1>2, <1>11 DEF TypeOK
  <2>. QED
    BY <1>2, <1>5, <1>6, <2>1, Zenon DEF TypeOK
<1>14. Indices(C, H)' /\ RingHolds(C)'
  BY <1>1, <1>5, <1>6, Zenon DEF Positions, Indices, RingHolds
<1>15. TicketsHeld(C, H, pos)' /\ TicketsApart(pos)' /\ TicketsDrawn(C, H, pos)'
  BY <1>1, <1>5, <1>6, Zenon DEF Positions, TicketsHeld, TicketsApart, TicketsDrawn, Holding,
                                 NeedsCredit
<1>16. Copied(pos)'
  <2>1. Copied(pos)
    BY <1>1 DEF Positions
  <2>2. /\ Len(cgot'[c]) \in 0..ctotal[c]
        /\ cgot'[c] = [i \in 1..Len(cgot'[c]) |-> pos[c] + i - 1]
    BY <1>9, <1>10, <1>12, Zenon DEF got
  <2>3. cpc[c] \in {"copy", "peeked"}
    BY <1>5
  <2>. QED
    BY <1>5, <1>6, <1>8, <1>12, <2>1, <2>2, <2>3, Zenon DEF Copied
<1>17. Positions(C, H, pos)'
  BY <1>14, <1>15, <1>16, Zenon DEF Positions
<1>18. QED
  BY <1>13, <1>17, Zenon DEF QueueInvariant

\* The ticket of c is the oldest, and what has been copied are its bytes.
OldestTicket(c, C, H, pos) ==
  /\ pos[c] = C /\ ctotal[c] \in Nat /\ ctotal[c] > 0 /\ C + ctotal[c] <= published
  /\ C + ctotal[c] <= H /\ cticket[c] = C % IndexMod
  /\ cgot[c] = [i \in 1..ctotal[c] |-> C + i - 1]
  /\ Range(cgot[c]) = C..(C + ctotal[c] - 1)

\* A consumer whose compare-exchange succeeds holds the oldest ticket.
LEMMA CommitIsNext ==
  ASSUME TypeOK, NEW C \in Nat, NEW H \in Nat, NEW pos \in [Consumers -> Nat],
         Positions(C, H, pos), NEW c \in Consumers, MayCommit(c)
  PROVE  OldestTicket(c, C, H, pos)
<1>1. /\ IndexMod \in Nat /\ IndexMod > 0 /\ capacity_ \in Nat /\ capacity_ < IndexMod
      /\ published \in Nat /\ ptotal \in Nat
  BY Numbers, Zenon
<1>2. ctotal[c] \in Nat /\ pos[c] \in Nat
  BY DEF TypeOK
<1>3. cpc[c] = "copy" /\ Len(cgot[c]) = ctotal[c] /\ commit_idx_ = cticket[c]
  BY DEF MayCommit
<1>4. pos[c] + ctotal[c] <= published /\ cgot[c] = [i \in 1..ctotal[c] |-> pos[c] + i - 1]
  BY <1>3, Zenon DEF Positions, Copied
<1>5. /\ cticket[c] = pos[c] % IndexMod /\ C <= pos[c] /\ ctotal[c] > 0
      /\ pos[c] + ctotal[c] <= H
  <2>1. Holding(c)
    BY <1>3 DEF Holding
  <2>. QED
    BY <2>1, Zenon DEF Positions, TicketsHeld
<1>6. published + ptotal <= C + capacity_ /\ commit_idx_ = C % IndexMod
  BY Zenon DEF Positions, Indices
<1>7. pos[c] - C < IndexMod
  BY <1>1, <1>2, <1>4, <1>5, <1>6
<1>8. C % IndexMod = pos[c] % IndexMod
  BY <1>3, <1>5, <1>6
<1>9. C = pos[c]
  BY <1>1, <1>2, <1>5, <1>7, <1>8, SameIndex, Zenon
<1> DEFINE n == ctotal[c]
           got == [i \in 1..n |-> C + i - 1]
<1>10. cgot[c] = got
  BY <1>4, <1>9, Zenon
<1>11. Range(got) = C..(C + n - 1)
  <2>0. n \in Nat
    BY <1>2
  <2> HIDE DEF n
  <2>1. Range(got) = {got[i] : i \in 1..n}
    BY DEF Range
  <2>2. \A i \in 1..n : got[i] = C + i - 1 /\ C + i - 1 \in C..(C + n - 1)
    BY <2>0
  <2>3. \A p \in C..(C + n - 1) : p - C + 1 \in 1..n /\ p = C + (p - C + 1) - 1
    BY <2>0
  <2> HIDE DEF got
  <2>. QED
    BY <2>1, <2>2, <2>3
<1>12. QED
  BY <1>2, <1>4, <1>5, <1>9, <1>10, <1>11, Zenon DEF OldestTicket

LEMMA DequeueCommitInvariant ==
  ASSUME QueueInvariant, NEW c \in team, DequeueCommit(c)
  PROVE  QueueInvariant'
<1>1. PICK C \in Nat, H \in Nat, pos \in [Consumers -> Nat] : Positions(C, H, pos)
  BY DEF QueueInvariant
<1>2. TypeOK /\ c \in Consumers
  <2>1. TypeOK
    BY DEF QueueInvariant
  <2>. QED
    BY <2>1, Numbers, Zenon
<1>3. /\ IndexMod \in Nat /\ IndexMod > 0 /\ capacity_ \in Nat /\ capacity_ < IndexMod
      /\ published \in Nat /\ ptotal \in Nat /\ granted \in Nat
  BY <1>2, Numbers, Zenon
<1>4. /\ ctotal[c] \in Nat /\ cticket[c] \in Int /\ pos[c] \in Nat
      /\ cpc = [cpc EXCEPT ![c] = cpc[c]] /\ ctotal = [ctotal EXCEPT ![c] = ctotal[c]]
      /\ cticket = [cticket EXCEPT ![c] = cticket[c]] /\ cgot = [cgot EXCEPT ![c] = cgot[c]]
  BY <1>2, LocalsOf
<1>5. PICK D \in Nat : D = C + ctotal[c]
  BY <1>4
<1>6. /\ UNCHANGED <<memory, producer>> /\ MayCommit(c) /\ commit_idx_' = Committed(c)
      /\ delivered' = delivered \cup Range(cgot[c]) /\ head_idx_' = head_idx_
      /\ granted' = granted /\ cpc' = [cpc EXCEPT ![c] = "idle"]
      /\ ctotal' = [ctotal EXCEPT ![c] = 0] /\ cticket' = [cticket EXCEPT ![c] = 0]
      /\ cgot' = [cgot EXCEPT ![c] = <<>>]
  BY DEF DequeueCommit
<1>7. /\ team' = team /\ capacity_' = capacity_ /\ buffer_' = buffer_ /\ ppc' = ppc
      /\ ptotal' = ptotal /\ poffset' = poffset /\ tail_idx_' = tail_idx_
      /\ published' = published
  BY <1>6 DEF memory, producer
<1>8. /\ pos[c] = C /\ ctotal[c] > 0 /\ D <= published /\ D <= H /\ cticket[c] = C % IndexMod
      /\ Range(cgot[c]) = C..(D - 1)
  <2>1. MayCommit(c)
    BY <1>6
  <2>2. OldestTicket(c, C, H, pos)
    BY <1>1, <1>2, <2>1, CommitIsNext, Zenon
  <2>3. pos[c] = C /\ ctotal[c] > 0 /\ cticket[c] = C % IndexMod
    BY <2>2 DEF OldestTicket
  <2>4. D <= published /\ D <= H
    BY <1>5, <2>2 DEF OldestTicket
  <2>5. Range(cgot[c]) = C..(D - 1)
    <3>1. C + ctotal[c] - 1 = D - 1
      BY <1>5, <1>4
    <3>2. Range(cgot[c]) = C..(C + ctotal[c] - 1)
      BY <2>2, Zenon DEF OldestTicket
    <3>. QED
      BY <3>1, <3>2
  <2>. QED
    BY <2>3, <2>4, <2>5, Zenon
<1>9. D \in Nat /\ C < D
  BY <1>5, <1>4, <1>8
<1>10. TypeOK' /\ OthersUntouched(c) /\ cpc'[c] = "idle" /\ cgot'[c] = <<>>
  <2>1. UNCHANGED <<memory, producer>> /\ granted' \in Nat /\ 0 \in Nat /\ 0 \in Int
    BY <1>3, <1>6
  <2>2. ASSUME NEW s \in {"idle", "check", "rewind", "copy", "peekCheck", "peek", "peeked"},
               NEW m \in Nat, NEW t \in Int, NEW g,
               cpc' = [cpc EXCEPT ![c] = s], ctotal' = [ctotal EXCEPT ![c] = m],
               cticket' = [cticket EXCEPT ![c] = t], cgot' = [cgot EXCEPT ![c] = g]
        PROVE  TypeOK' /\ OthersUntouched(c) /\ cpc'[c] = s /\ cgot'[c] = g
    BY <1>2, <2>1, <2>2, ConsumerTypes
  <2>3. "idle" \in {"idle", "check", "rewind", "copy", "peekCheck", "peek", "peeked"}
    OBVIOUS
  <2>. QED
    BY <1>6, <2>1, <2>2, <2>3, Zenon
<1>11. Holding(c) /\ \A d \in Consumers : Holding(d)' => Holding(d) /\ d # c
  <2>1. Holding(c) /\ ~Holding(c)'
    BY <1>6, <1>10 DEF Holding, MayCommit
  <2>. QED
    BY <1>10, <2>1, Zenon DEF Holding, OthersUntouched
<1>12. Indices(D, H)'
  <2>1. commit_idx_' = D % IndexMod
    <3>1. C \in Int /\ ctotal[c] \in Int
      BY <1>4
    <3>2. Plus(C % IndexMod, ctotal[c]) = (C + ctotal[c]) % IndexMod
      BY <3>1, Advance, Zenon
    <3>. QED
      BY <1>5, <1>6, <1>8, <3>2, Zenon DEF Committed
  <2>2. delivered' = 0..(D - 1)
    <3>1. delivered = 0..(C - 1)
      BY <1>1 DEF Positions, Indices
    <3>2. (0..(C - 1)) \cup (C..(D - 1)) = 0..(D - 1)
      BY <1>9
    <3>. QED
      BY <1>6, <1>8, <3>1, <3>2, Zenon
  <2>3. published + ptotal <= D + capacity_
    <3>1. published + ptotal <= C + capacity_
      BY <1>1 DEF Positions, Indices
    <3>. QED
      BY <1>3, <1>9, <3>1
  <2>. QED
    BY <1>1, <1>6, <1>7, <1>8, <2>1, <2>2, <2>3, Zenon DEF Positions, Indices
<1>13. RingHolds(D)'
  <2>1. RingHolds(C)
    BY <1>1 DEF Positions
  <2>2. \A p : p \in D..(published + poffset - 1) => p \in C..(published + poffset - 1)
    BY <1>9
  <2>. QED
    BY <1>7, <2>1, <2>2, Zenon DEF RingHolds
<1>14. ASSUME NEW d \in Consumers, Holding(d)'
       PROVE  /\ d \in team /\ ctotal'[d] = ctotal[d] /\ cticket'[d] = cticket[d]
              /\ ctotal[d] > 0 /\ cticket[d] = pos[d] % IndexMod /\ pos[d] + ctotal[d] <= H
              /\ D <= pos[d]
  <2>1. Holding(d) /\ d # c
    BY <1>11, <1>14, Zenon
  <2>2. /\ d \in team /\ ctotal[d] > 0 /\ cticket[d] = pos[d] % IndexMod
        /\ pos[d] + ctotal[d] <= H /\ C <= pos[d]
    BY <1>1, <2>1, Zenon DEF Positions, TicketsHeld
  <2>3. C + ctotal[c] <= pos[d] \/ pos[d] + ctotal[d] <= C
    <3>1. pos[c] + ctotal[c] <= pos[d] \/ pos[d] + ctotal[d] <= pos[c]
      BY <1>1, <1>2, <1>11, <2>1, Zenon DEF Positions, TicketsApart
    <3>. QED
      BY <1>8, <3>1, Zenon
  <2>4. pos[d] \in Nat /\ ctotal[d] \in Nat
    BY <1>2 DEF TypeOK
  <2>5. D <= pos[d]
    BY <1>5, <1>4, <2>2, <2>3, <2>4
  <2>6. ctotal'[d] = ctotal[d] /\ cticket'[d] = cticket[d]
    BY <1>10, <2>1, Zenon DEF OthersUntouched
  <2>. QED
    BY <2>2, <2>5, <2>6
<1>15. TicketsHeld(D, H, pos)'
  BY <1>7, <1>14, Zenon DEF TicketsHeld
<1>16. TicketsApart(pos)'
  <2>1. TicketsApart(pos)
    BY <1>1 DEF Positions
  <2>2. \A d \in Consumers : Holding(d)' => Holding(d) /\ ctotal'[d] = ctotal[d]
    BY <1>11, <1>14, Zenon
  <2>. QED
    BY <2>1, <2>2, Zenon DEF TicketsApart
<1>17. Copied(pos)'
  <2>1. cpc'[c] # "copy"
    BY <1>10
  <2>. QED
    BY <1>1, <1>7, <1>10, <2>1, Zenon DEF Positions, Copied, OthersUntouched
<1>18. TicketsDrawn(D, H, pos)'
  <2>1. NeedsCredit' <=> NeedsCredit
    BY <1>7, Zenon DEF NeedsCredit
  <2>2. CASE NeedsCredit
    <3>1. cpc'[c] # "rewind"
      BY <1>10
    <3>. QED
      BY <1>1, <1>6, <1>7, <1>10, <2>1, <2>2, <3>1, Zenon
         DEF Positions, TicketsDrawn, OthersUntouched
  <2>3. CASE ~NeedsCredit
    <3>1. H = D
      BY <1>5, <1>1, <1>2, <1>11, <2>3, Zenon DEF Positions, TicketsDrawn
    <3>2. ASSUME NEW d \in Consumers, Holding(d)' PROVE FALSE
      <4>1. pos[d] = C /\ D <= pos[d]
        BY <1>1, <1>11, <1>14, <2>3, <3>2, Zenon DEF Positions, TicketsDrawn
      <4>. QED
        BY <1>9, <4>1
    <3>. QED
      BY <2>1, <2>3, <3>1, <3>2, Zenon DEF TicketsDrawn
  <2>. QED
    BY <2>2, <2>3
<1>19. Positions(D, H, pos)'
  BY <1>12, <1>13, <1>15, <1>16, <1>17, <1>18, Zenon DEF Positions
<1>20. QED
  BY <1>9, <1>10, <1>19, Zenon DEF QueueInvariant
-----------------------------------------------------------------------------
LEMMA NextInvariant ==
  ASSUME Disciplined
  PROVE  QueueInvariant /\ [Next]_vars => QueueInvariant'
<1> SUFFICES ASSUME QueueInvariant, [Next]_vars PROVE QueueInvariant'
  OBVIOUS
<1>1. CASE UNCHANGED vars
  BY <1>1, SameState DEF vars, memory, producer, consumers, locals
<1>2. ASSUME NEW cap \in Capacities \cup {0}, Reserve(cap) PROVE QueueInvariant'
  BY <1>2, ReserveInvariant
<1>3. ASSUME NEW n \in OpSizes, EnqueueRefuse(n) \/ EnqueueCall(n) PROVE QueueInvariant'
  BY <1>3, EnqueueRefuseInvariant, EnqueueCallInvariant, Zenon
<1>4. ASSUME NEW n \in OpSizes, NEW c \in team,
             DequeueRefuse(c, n) \/ DequeueTicket(c, n) \/ PeekCall(c, n)
      PROVE  QueueInvariant'
  BY <1>4, DequeueRefuseInvariant, DequeueTicketInvariant, PeekInvariant, Zenon
<1>5. ASSUME ProducerStep PROVE QueueInvariant'
  BY <1>5, EnqueueCopyInvariant, EnqueuePublishInvariant, Zenon DEF ProducerStep
<1>6. ASSUME NEW c \in team, PeekCheck(c) \/ PeekCopy(c) \/ PeekReturn(c) PROVE QueueInvariant'
  BY <1>6, PeekInvariant, Zenon
<1>7. ASSUME NEW c \in team, NEW k \in 1..ctotal[c], DequeueCopy(c, k) PROVE QueueInvariant'
  BY <1>7, DequeueCopyInvariant
<1>8. ASSUME NEW c \in team, DequeueCheck(c) \/ DequeueRewind(c) \/ DequeueCommit(c)
      PROVE  QueueInvariant'
  BY <1>8, DequeueCheckInvariant, DequeueRewindInvariant, DequeueCommitInvariant, Zenon
<1>9. QED
  BY <1>1, <1>2, <1>3, <1>4, <1>5, <1>6, <1>7, <1>8, Zenon DEF Next, ConsumerStep

\* QueueInvariant is inductive.
THEOREM Invariance ==
  ASSUME Disciplined
  PROVE  Spec => []QueueInvariant
<1>1. Spec => Init /\ [][Next]_vars
  BY PTL DEF Spec
<1>2. QED
  BY <1>1, InitInvariant, NextInvariant, PTL

\* The only step that ends a copy is the compare-exchange on commit_idx_.
LEMMA CopyEndsInCommit ==
  ASSUME TypeOK, [Next]_vars, NEW c \in Consumers, cpc[c] = "copy", cpc'[c] = "idle"
  PROVE  DequeueCommit(c)
<1>1. cpc' # cpc
  OBVIOUS
<1>2. PICK d \in team : \/ \E n \in OpSizes : DequeueTicket(d, n) \/ PeekCall(d, n)
                        \/ DequeueCheck(d) \/ DequeueRewind(d) \/ DequeueCommit(d)
                        \/ PeekCheck(d) \/ PeekCopy(d) \/ PeekReturn(d)
  BY <1>1, Zenon DEF Next, ConsumerStep, ProducerStep, Reserve, EnqueueRefuse, EnqueueCall,
     EnqueueCopy, EnqueuePublish, DequeueRefuse, DequeueCopy, vars, consumers, locals
<1>3. d \in Consumers /\ (d # c => cpc'[c] = cpc[c])
  BY <1>2, Numbers DEF TypeOK, DequeueTicket, PeekCall, DequeueCheck, DequeueRewind,
     DequeueCommit, PeekCheck, PeekCopy, PeekReturn
<1>4. d = c
  BY <1>3
<1>5. QED
  BY <1>2, <1>4 DEF DequeueTicket, PeekCall, DequeueCheck, DequeueRewind, PeekCheck, PeekCopy,
     PeekReturn

\* What a dequeue of SpmcQueue returns are consecutive bytes of the stream,
\* published, and returned by no dequeue before: for any capacity, any width
\* of the index, any sizes and any number of consumers, if one consumer at
\* most uses the queue or each draws tickets only for bytes it knows of.
THEOREM BytesOnce ==
  ASSUME Disciplined
  PROVE  Spec => EachByteOnce
<1> DEFINE Once(c) == /\ Range(cgot[c]) \subseteq 0..(published - 1)
                      /\ Range(cgot[c]) \cap delivered = {}
                      /\ \A i \in 2..ctotal[c] : cgot[c][i] = cgot[c][i - 1] + 1
<1>1. ASSUME QueueInvariant, [Next]_vars, NEW c \in Consumers,
             cpc[c] = "copy", cpc'[c] = "idle"
      PROVE  Once(c)
  <2>1. PICK C \in Nat, H \in Nat, pos \in [Consumers -> Nat] : Positions(C, H, pos)
    BY <1>1 DEF QueueInvariant
  <2>2. TypeOK /\ MayCommit(c) /\ published \in Nat
    BY <1>1, CopyEndsInCommit DEF QueueInvariant, DequeueCommit, TypeOK
  <2>3. OldestTicket(c, C, H, pos)
    BY <2>1, <2>2, CommitIsNext, Zenon
  <2> DEFINE n == ctotal[c]
  <2>4. /\ n \in Nat /\ C + n <= published /\ cgot[c] = [i \in 1..n |-> C + i - 1]
        /\ Range(cgot[c]) = C..(C + n - 1)
    BY <2>3, Zenon DEF OldestTicket
  <2>5. delivered = 0..(C - 1)
    BY <2>1 DEF Positions, Indices
  <2> HIDE DEF n
  <2>6. C..(C + n - 1) \subseteq 0..(published - 1) /\ (C..(C + n - 1)) \cap (0..(C - 1)) = {}
    BY <2>2, <2>4
  <2>7. ASSUME NEW i \in 2..n PROVE cgot[c][i] = cgot[c][i - 1] + 1
    <3>1. i \in 1..n /\ i - 1 \in 1..n /\ C + i - 1 = (C + (i - 1) - 1) + 1
      BY <2>4
    <3>. QED
      BY <2>4, <3>1, Zenon
  <2>. QED
    BY <2>4, <2>5, <2>6, <2>7, Zenon DEF n
<1>2. QueueInvariant /\ [Next]_vars =>
        [\A c \in Consumers : cpc[c] = "copy" /\ cpc'[c] = "idle" => Once(c)]_vars
  BY <1>1, Zenon
<1>3. Spec => [][Next]_vars
  BY PTL DEF Spec
<1>4. QED
  BY <1>2, <1>3, Invariance, PTL DEF EachByteOnce

\* No byte is lost or skipped: what the consumers have been handed are, at any
\* moment, the first bytes of the stream, and the ring still holds the rest.
NoByteSkipped ==
  \E n \in 0..published :
    delivered = 0..(n - 1) /\ \A p \in n..(published - 1) : buffer_[p % capacity_] = p

\* Behind commit_idx_ everything has been returned, between it and tail_idx_
\* everything is still in its slot: the producer never overwrites a byte that
\* a ticket holder has yet to copy, under the same conditions.
THEOREM NothingSkipped ==
  ASSUME Disciplined
  PROVE  Spec => []NoByteSkipped
<1>1. ASSUME QueueInvariant PROVE NoByteSkipped
  <2>1. PICK C \in Nat, H \in Nat, pos \in [Consumers -> Nat] : Positions(C, H, pos)
    BY <1>1 DEF QueueInvariant
  <2>2. TypeOK
    BY <1>1 DEF QueueInvariant
  <2>3. published \in Nat /\ poffset \in Nat
    BY <2>2, Numbers, Zenon
  <2>4. C <= published /\ delivered = 0..(C - 1)
    BY <2>1 DEF Positions, Indices
  <2>5. C \in 0..published
    BY <2>3, <2>4
  <2>6. \A p : p \in C..(published - 1) => p \in C..(published + poffset - 1)
    BY <2>3
  <2>7. \A p \in C..(published - 1) : buffer_[p % capacity_] = p
    BY <2>1, <2>6, Zenon DEF Positions, RingHolds
  <2>. QED
    BY <2>4, <2>5, <2>7, Zenon DEF NoByteSkipped
<1>2. QED
  BY <1>1, Invariance, PTL
=============================================================================
