----------------------------- MODULE SpscQueue ------------------------------
(***************************************************************************)
(* femtolog::logging::SpscQueue: the lock-free ring of bytes between the   *)
(* logging thread (producer) and the backend worker (consumer).            *)
(*                                                                         *)
(* Each operation is cut at every access to state the other thread writes; *)
(* the copies are cut into arbitrary pieces, which covers the loop of the  *)
(* bulk operations and memcpy itself.                                      *)
(***************************************************************************)
EXTENDS Ring, Sequences

CONSTANTS Requests,    \* the sizes reserve() is called with
          OpSizes,     \* the sizes the operations are called with (0 included)
          MaxBytes,    \* bound: bytes enqueued between two reserve() calls
          WeakMemory   \* FALSE: loads stay in order (x86-64); TRUE: arm64

VARIABLES capacity_,             \* 0 iff buffer_ is null
          buffer_,               \* slot -> stream position of the byte in it
          tail_idx_, head_idx_,  \* atomics, one writer each
          head_cached_snapshot_, \* the producer's last view of head_idx_
          tail_cached_snapshot_, \* the consumer's last view of tail_idx_
          head_cached_,          \* plain copy of head_idx_, read by size()
          ppc, ptotal, poffset, pstatus,      \* the producer's call
          cpc, ctotal, cgot, cdata, cstatus,  \* the consumer's call
          published, consumed,   \* ghosts: bytes enqueued and dequeued
          synced                 \* ghost: bytes covered by the last acquire

memory    == <<capacity_, buffer_>>
producer  == <<ppc, ptotal, poffset, pstatus, tail_idx_, head_cached_snapshot_, published>>
consumer  == <<cpc, ctotal, cgot, cdata, cstatus, head_idx_, head_cached_,
               tail_cached_snapshot_, consumed, synced>>
vars      == <<memory, producer, consumer>>

Capacities == {NextPowerOf2(r) : r \in Requests}

ASSUME SpscConstants ==
  /\ IndexMod \in Nat \ {0} /\ MaxBytes \in Nat
  /\ OpSizes \subseteq Nat /\ \A n \in OpSizes : n < IndexMod

\* The capacity is a power of two below the range of size_t, so it divides it.
ASSUME CapacityConstants ==
  \A c \in Capacities : /\ c \in Nat /\ c > 0
                        /\ \E q \in 2..IndexMod : IndexMod = q * c
ASSUME MemoryModel == WeakMemory \in BOOLEAN

Slots == 0..(capacity_ - 1)

FreeSpaceOffByOne(tail, head) == Minus(capacity_ + 1, Minus(tail, head))

\* capacity_ - (tail - head), as the producer computes it
FreeSpace(tail, head) == Minus(capacity_, Minus(tail, head))

size      == Minus(tail_idx_, head_cached_)
empty     == head_cached_ = tail_idx_
available_space == Minus(capacity_, size)
-----------------------------------------------------------------------------
Init == /\ capacity_ = 0 /\ buffer_ = <<>>
        /\ tail_idx_ = 0 /\ head_idx_ = 0 /\ head_cached_ = 0
        /\ head_cached_snapshot_ = 0 /\ tail_cached_snapshot_ = 0
        /\ ppc = "idle" /\ ptotal = 0 /\ poffset = 0 /\ pstatus = "none"
        /\ cpc = "idle" /\ ctotal = 0 /\ cgot = <<>> /\ cdata = <<>> /\ cstatus = "none"
        /\ published = 0 /\ consumed = 0 /\ synced = 0

\* A slip: reserve() forgets the consumer's snapshot.
ReserveKeepsSnapshot(c) ==
  /\ ppc = "idle" /\ cpc = "idle"
  /\ capacity_' = c
  /\ buffer_' = [s \in 0..(c - 1) |-> Garbage]
  /\ tail_idx_' = 0 /\ head_idx_' = 0 /\ head_cached_' = 0 /\ head_cached_snapshot_' = 0
  /\ published' = 0 /\ consumed' = 0 /\ synced' = 0 /\ cdata' = <<>>
  /\ UNCHANGED <<tail_cached_snapshot_, ppc, ptotal, poffset, pstatus,
                 cpc, ctotal, cgot, cstatus>>

\* reserve(): its caller, InternalLogger::init, runs while no operation is in
\* progress.  A failed allocation leaves the queue uninitialized.
Reserve(c) ==
  /\ ppc = "idle" /\ cpc = "idle"
  /\ capacity_' = c
  /\ buffer_' = [s \in 0..(c - 1) |-> Garbage]
  /\ tail_idx_' = 0 /\ head_idx_' = 0 /\ head_cached_' = 0
  /\ head_cached_snapshot_' = 0 /\ tail_cached_snapshot_' = 0
  /\ published' = 0 /\ consumed' = 0 /\ synced' = 0 /\ cdata' = <<>>
  /\ UNCHANGED <<ppc, ptotal, poffset, pstatus, cpc, ctotal, cgot, cstatus>>

\* The early returns shared by the operations.
EarlyReturn == IF capacity_ = 0 THEN "kUninitialized" ELSE "kSizeIsZero"
Refused(n)     == capacity_ = 0 \/ n = 0
-----------------------------------------------------------------------------
(* The producer: enqueue_bytes, enqueue_bulk *)

EnqueueRefuse(n) ==
  /\ ppc = "idle" /\ Refused(n)
  /\ pstatus' = EarlyReturn
  /\ UNCHANGED <<memory, ppc, ptotal, poffset, tail_idx_, head_cached_snapshot_,
                 published, consumer>>

\* Up to the first test, which uses the cached view of the consumer's index.
EnqueueCall(n) ==
  /\ ppc = "idle" /\ ~Refused(n)
  /\ published + n <= MaxBytes
  /\ ptotal' = n
  /\ ppc' = IF FreeSpace(tail_idx_, head_cached_snapshot_) < n THEN "reload" ELSE "copy"
  /\ UNCHANGED <<memory, poffset, pstatus, tail_idx_, head_cached_snapshot_, published,
                 consumer>>

\* Slips: the second test repeats the first; the producer waits for room.
EnqueueNoReload ==
  /\ ppc = "reload" /\ ppc' = "idle" /\ pstatus' = "kOverflow" /\ ptotal' = 0
  /\ UNCHANGED <<memory, poffset, tail_idx_, head_cached_snapshot_, published, consumer>>
EnqueueBlocking ==
  /\ ppc = "reload" /\ ppc' = "copy"
  /\ FreeSpace(tail_idx_, head_idx_) >= ptotal
  /\ head_cached_snapshot_' = head_idx_
  /\ UNCHANGED <<memory, ptotal, poffset, pstatus, tail_idx_, published, consumer>>

\* The acquire load of head_idx_ and the second test.
EnqueueReload ==
  /\ ppc = "reload"
  /\ head_cached_snapshot_' = head_idx_
  /\ IF FreeSpace(tail_idx_, head_idx_) < ptotal
     THEN ppc' = "idle" /\ pstatus' = "kOverflow" /\ ptotal' = 0
     ELSE ppc' = "copy" /\ UNCHANGED <<pstatus, ptotal>>
  /\ UNCHANGED <<memory, poffset, tail_idx_, published, consumer>>

\* The next k bytes are copied to the ring, behind tail_idx_.
EnqueueCopy(k) ==
  /\ ppc = "copy" /\ k <= ptotal - poffset
  /\ buffer_' = CopyIn(capacity_, buffer_, Plus(tail_idx_, poffset), published + poffset, k)
  /\ poffset' = poffset + k
  /\ UNCHANGED <<capacity_, ppc, ptotal, pstatus, tail_idx_, head_cached_snapshot_,
                 published, consumer>>

\* The release fence and the store of tail_idx_ (tail_cached_ is never read).
EnqueuePublish ==
  /\ ppc = "copy" /\ poffset = ptotal
  /\ tail_idx_' = Plus(tail_idx_, ptotal)
  /\ published' = published + ptotal
  /\ ppc' = "idle" /\ pstatus' = "kOk" /\ ptotal' = 0 /\ poffset' = 0
  /\ UNCHANGED <<memory, head_cached_snapshot_, consumer>>
-----------------------------------------------------------------------------
(* The consumer: dequeue_bytes, dequeue_bulk, peek_bytes *)

DequeueRefuse(n) ==
  /\ cpc = "idle" /\ Refused(n)
  /\ cstatus' = EarlyReturn
  /\ UNCHANGED <<memory, producer, cpc, ctotal, cgot, cdata, head_idx_, head_cached_,
                 tail_cached_snapshot_, consumed, synced>>

DequeueCall(n) ==
  /\ cpc = "idle" /\ ~Refused(n)
  /\ ctotal' = n
  /\ cpc' = IF Minus(tail_cached_snapshot_, head_idx_) < n THEN "reload" ELSE "copy"
  /\ UNCHANGED <<memory, producer, cgot, cdata, cstatus, head_idx_, head_cached_,
                 tail_cached_snapshot_, consumed, synced>>

\* The acquire load of tail_idx_ and the second test.
DequeueReload ==
  /\ cpc = "reload"
  /\ tail_cached_snapshot_' = tail_idx_
  /\ synced' = published
  /\ IF Minus(tail_idx_, head_idx_) < ctotal
     THEN cpc' = "idle" /\ cstatus' = "kUnderflow" /\ ctotal' = 0
     ELSE cpc' = "copy" /\ UNCHANGED <<cstatus, ctotal>>
  /\ UNCHANGED <<memory, producer, cgot, cdata, head_idx_, head_cached_, consumed>>

DequeueCopy(k) ==
  /\ cpc = "copy" /\ k <= ctotal - Len(cgot)
  /\ LET from == Plus(head_idx_, Len(cgot))
     IN cgot' = [i \in 1..(Len(cgot) + k) |->
                   IF i <= Len(cgot) THEN cgot[i]
                   ELSE buffer_[SlotOf(capacity_, from, i - Len(cgot) - 1)]]
  /\ UNCHANGED <<memory, producer, cpc, ctotal, cdata, cstatus, head_idx_, head_cached_,
                 tail_cached_snapshot_, consumed, synced>>

\* The release fence and the store of head_idx_ ...
DequeueCommit ==
  /\ cpc = "copy" /\ Len(cgot) = ctotal
  /\ head_idx_' = Plus(head_idx_, ctotal)
  /\ consumed' = consumed + ctotal
  /\ cdata' = cgot /\ cgot' = <<>> /\ ctotal' = 0
  /\ cpc' = "cache"
  /\ UNCHANGED <<memory, producer, cstatus, head_cached_,
                 tail_cached_snapshot_, synced>>

\* A slip: head_cached_ is left behind.
DequeueReturnUncached ==
  /\ cpc = "cache" /\ cpc' = "idle" /\ cstatus' = "kOk"
  /\ UNCHANGED <<memory, producer, ctotal, cgot, cdata, head_idx_, head_cached_,
                 tail_cached_snapshot_, consumed, synced>>

\* ... and then of head_cached_, a plain variable.
DequeueReturn ==
  /\ cpc = "cache"
  /\ head_cached_' = head_idx_
  /\ cpc' = "idle" /\ cstatus' = "kOk"
  /\ UNCHANGED <<memory, producer, ctotal, cgot, cdata, head_idx_,
                 tail_cached_snapshot_, consumed, synced>>

\* peek_bytes loads both indices relaxed: nothing is acquired.
PeekCall(n) ==
  /\ cpc = "idle" /\ ~Refused(n)
  /\ IF n > Minus(tail_idx_, head_idx_)
     THEN cstatus' = "kUnderflow" /\ UNCHANGED <<cpc, ctotal>>
     ELSE cpc' = "peek" /\ ctotal' = n /\ UNCHANGED cstatus
  /\ UNCHANGED <<memory, producer, cgot, cdata, head_idx_, head_cached_,
                 tail_cached_snapshot_, consumed, synced>>

\* What a slot held before the byte now in it was written.
Older(b) == IF b >= capacity_ THEN b - capacity_ ELSE Garbage

\* Without an acquire a weakly ordered machine may satisfy the read of a byte
\* published since the last one from what the slot held before.
PeekCopy(stale) ==
  /\ cpc = "peek"
  /\ WeakMemory \/ stale = {}
  /\ cdata' = [i \in 1..ctotal |->
                 LET b == buffer_[SlotOf(capacity_, head_idx_, i - 1)]
                 IN IF i \in stale /\ b >= synced THEN Older(b) ELSE b]
  /\ cpc' = "idle" /\ cstatus' = "kOk" /\ ctotal' = 0
  /\ UNCHANGED <<memory, producer, cgot, head_idx_, head_cached_,
                 tail_cached_snapshot_, consumed, synced>>
-----------------------------------------------------------------------------
ProducerStep == \/ EnqueueReload
                \/ \E k \in 1..ptotal : EnqueueCopy(k)
                \/ EnqueuePublish

ConsumerStep == \/ DequeueReload
                \/ \E k \in 1..ctotal : DequeueCopy(k)
                \/ DequeueCommit
                \/ DequeueReturn
                \/ \E stale \in SUBSET (1..ctotal) : PeekCopy(stale)

Next == \/ \E c \in Capacities \cup {0} : Reserve(c)
        \/ \E n \in OpSizes : \/ EnqueueRefuse(n) \/ EnqueueCall(n)
                              \/ DequeueRefuse(n) \/ DequeueCall(n) \/ PeekCall(n)
        \/ ProducerStep
        \/ ConsumerStep

Spec == Init /\ [][Next]_vars

\* Each thread keeps executing an operation it has begun; nothing obliges it
\* to begin one, and neither relies on the other.
FairSpec == Spec /\ WF_vars(ProducerStep) /\ WF_vars(ConsumerStep)
-----------------------------------------------------------------------------
TypeOK ==
  /\ capacity_ \in Capacities \cup {0}
  /\ buffer_ \in [Slots -> Int]
  /\ tail_idx_ \in 0..(IndexMod - 1) /\ head_idx_ \in 0..(IndexMod - 1)
  /\ head_cached_ \in 0..(IndexMod - 1)
  /\ head_cached_snapshot_ \in 0..(IndexMod - 1)
  /\ tail_cached_snapshot_ \in 0..(IndexMod - 1)
  /\ ppc \in {"idle", "reload", "copy"}
  /\ ptotal \in OpSizes \cup {0} /\ poffset \in 0..ptotal
  /\ pstatus \in {"none", "kOk", "kUninitialized", "kOverflow", "kSizeIsZero"}
  /\ cpc \in {"idle", "reload", "copy", "cache", "peek"}
  /\ ctotal \in OpSizes \cup {0}
  /\ cgot \in Seq(Int) /\ Len(cgot) <= ctotal
  /\ cdata \in Seq(Int)
  /\ cstatus \in {"none", "kOk", "kUninitialized", "kUnderflow", "kSizeIsZero"}
  /\ published \in 0..MaxBytes /\ consumed \in Nat /\ synced \in 0..published

\* The slots the two threads are about to touch.
Writing == IF ppc = "copy"
           THEN {SlotOf(capacity_, Plus(tail_idx_, poffset), i) : i \in 0..(ptotal - poffset - 1)}
           ELSE {}
Reading == CASE cpc = "copy" -> {SlotOf(capacity_, Plus(head_idx_, Len(cgot)), i) :
                                   i \in 0..(ctotal - Len(cgot) - 1)}
             [] cpc = "peek" -> {SlotOf(capacity_, head_idx_, i) : i \in 0..(ctotal - 1)}
             [] OTHER -> {}

\* The plain memory of the ring is never read by one thread while the other
\* writes it: the tests of enqueue and dequeue on (possibly stale) indices
\* keep the two memcpy's apart, also where they wrap.
NoDataRace == Writing \cap Reading = {}

\* A dequeue copies exactly the oldest bytes in flight, in order, whatever the
\* producer does meanwhile and however stale the snapshot it trusted.
DequeueIsFifo == cpc = "copy" => \A i \in 1..Len(cgot) : cgot[i] = consumed + i - 1

\* Refusals are exact although both sides decide on a cached index first:
\* kOverflow only when the bytes really do not fit, kUnderflow only when they
\* really are not there, at the moment the index is loaded.
RefusalsAreJustified ==
  [][ /\ (ppc = "reload" /\ ppc' = "idle") => capacity_ - (published - consumed) < ptotal
      /\ (cpc = "reload" /\ cpc' = "idle") => published - consumed < ctotal ]_vars

\* size(), empty() and available_space() are exact on the consumer's thread,
\* which calls them between operations; on the other one, the head_cached_
\* it may find stale makes size() too large, never too small.
SizeNeverLow == /\ size >= published - consumed
                /\ cpc # "cache" => /\ size = published - consumed
                                    /\ empty <=> (published = consumed)
                                    /\ available_space = capacity_ - (published - consumed)

InFlight == published - consumed

\* The calls in progress: their locals, and the tests they have passed.
ProducerLocals ==
  /\ ppc = "idle" => ptotal = 0
  /\ ppc # "idle" => capacity_ > 0 /\ ptotal > 0
  /\ published + ptotal <= MaxBytes
  /\ ppc # "copy" => poffset = 0
  /\ ppc = "copy" => Minus(tail_idx_, head_cached_snapshot_) + ptotal <= capacity_
ConsumerLocals ==
  /\ cpc \in {"idle", "cache"} => ctotal = 0
  /\ cpc \in {"reload", "copy", "peek"} => capacity_ > 0 /\ ctotal > 0
  /\ cpc # "copy" => cgot = <<>>
  /\ cpc = "copy" => ctotal <= synced - consumed
  /\ cpc = "peek" => ctotal <= InFlight
  /\ cgot = [i \in 1..Len(cgot) |-> consumed + i - 1]

\* How the wrapping indices and the two cached snapshots stand to the stream:
\* the snapshots lag behind what they are copies of, by a bounded distance.
IndicesFollowStream ==
  /\ consumed <= synced /\ InFlight <= capacity_
  /\ tail_idx_ = Plus(head_idx_, InFlight)
  /\ tail_cached_snapshot_ = Plus(head_idx_, synced - consumed)
  /\ InFlight <= Minus(tail_idx_, head_cached_snapshot_)
  /\ Minus(tail_idx_, head_cached_snapshot_) <= capacity_
  /\ cpc # "cache" => head_cached_ = head_idx_

\* From head_idx_ on, the ring holds the bytes in flight and, after them, what
\* the producer has copied but not published.
RingHoldsStream ==
  \A i \in 0..(InFlight + poffset - 1) : buffer_[(head_idx_ + i) % capacity_] = consumed + i

\* The inductive invariant from which the other safety properties follow: a
\* cached snapshot, however old, errs on the side of refusing.
QueueInvariant == /\ TypeOK /\ ProducerLocals /\ ConsumerLocals
                  /\ IndicesFollowStream /\ RingHoldsStream

\* Every operation returns on its own: neither thread ever waits for the
\* other (wait-freedom of both sides).
OperationsReturn == /\ (ppc # "idle") ~> (ppc = "idle")
                    /\ (cpc # "idle") ~> (cpc = "idle")

\* The queue implements the byte stream: what dequeue_bytes and peek_bytes
\* hand out are the next bytes of the stream, and no byte is overwritten,
\* lost or delivered twice.
Stream == INSTANCE ByteStream WITH
            Limits <- Capacities, Sizes <- OpSizes \ {0},
            limit <- capacity_, written <- published, taken <- consumed,
            delivered <- cdata
ImplementsByteStream == Stream!Spec
=============================================================================
