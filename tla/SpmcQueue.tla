----------------------------- MODULE SpmcQueue ------------------------------
(***************************************************************************)
(* femtolog::logging::SpmcQueue: the ring of bytes with one producer and   *)
(* several consumers.  A consumer draws a ticket (fetch_add on head_idx_), *)
(* gives it back if the bytes are not there (fetch_sub), copies, and waits *)
(* for the holders of earlier tickets before it advances commit_idx_,      *)
(* which is what the producer takes free space from.                       *)
(***************************************************************************)
EXTENDS Ring, Sequences, FiniteSets, Functions

CONSTANTS Consumers,
          Teams,      \* the sets of them that may use the queue
          Requests,   \* the sizes reserve() is called with
          OpSizes,    \* the sizes the operations are called with (0 included)
          MaxBytes,   \* bound: bytes enqueued after reserve()
          Credit      \* TRUE: where there are several, a consumer only asks for
                      \* bytes it knows to be its own (a semaphore of the client's)

VARIABLES capacity_, buffer_, tail_idx_, head_idx_, commit_idx_,
          ppc, ptotal, poffset, pstatus,    \* the producer's call
          cpc, ctotal, cticket, cgot, cstatus,  \* each consumer's call
          team,                             \* the consumers of this queue
          published,                        \* ghost: bytes enqueued
          granted,                          \* ghost: bytes asked for with credit
          delivered                         \* ghost: positions handed out

memory    == <<team, capacity_, buffer_>>
producer  == <<ppc, ptotal, poffset, pstatus, tail_idx_, published>>
locals    == <<cpc, ctotal, cticket, cgot, cstatus>>
consumers == <<locals, head_idx_, commit_idx_, granted, delivered>>
vars      == <<memory, producer, consumers>>

Capacities == {NextPowerOf2(r) : r \in Requests}

ASSUME SpmcConstants ==
  /\ IndexMod \in Nat \ {0} /\ MaxBytes \in Nat /\ Credit \in BOOLEAN
  /\ IsFiniteSet(Consumers) /\ Teams \subseteq SUBSET Consumers /\ OpSizes \subseteq Nat

\* The capacity is a power of two below the range of size_t, so it divides it.
ASSUME CapacityConstants ==
  \A c \in Capacities : /\ c \in Nat /\ c > 0
                        /\ \E q \in 2..IndexMod : IndexMod = q * c

Refused(n)  == capacity_ = 0 \/ n = 0
EarlyReturn == IF capacity_ = 0 THEN "kUninitialized" ELSE "kSizeIsZero"
-----------------------------------------------------------------------------
Init == /\ team \in Teams /\ capacity_ = 0 /\ buffer_ = <<>>
        /\ tail_idx_ = 0 /\ head_idx_ = 0 /\ commit_idx_ = 0
        /\ ppc = "idle" /\ ptotal = 0 /\ poffset = 0 /\ pstatus = "none"
        /\ cpc = [c \in Consumers |-> "idle"]
        /\ ctotal = [c \in Consumers |-> 0]
        /\ cticket = [c \in Consumers |-> 0]
        /\ cgot = [c \in Consumers |-> <<>>]
        /\ cstatus = [c \in Consumers |-> "none"]
        /\ published = 0 /\ granted = 0 /\ delivered = {}

\* reserve(), while no operation is in progress.
Reserve(cap) ==
  /\ ppc = "idle" /\ \A c \in Consumers : cpc[c] = "idle"
  /\ capacity_' = cap
  /\ buffer_' = [s \in 0..(cap - 1) |-> Garbage]
  /\ tail_idx_' = 0 /\ head_idx_' = 0 /\ commit_idx_' = 0
  /\ published' = 0 /\ granted' = 0 /\ delivered' = {}
  /\ UNCHANGED <<team, ppc, ptotal, poffset, pstatus, locals>>
-----------------------------------------------------------------------------
(* The producer: enqueue_bytes, enqueue_bulk *)

EnqueueRefuse(n) ==
  /\ ppc = "idle" /\ Refused(n)
  /\ pstatus' = EarlyReturn
  /\ UNCHANGED <<memory, ppc, ptotal, poffset, tail_idx_, published, consumers>>

\* A slip: free space is taken from the tickets drawn, not from the commits.
EnqueueCallByTickets(n) ==
  /\ ppc = "idle" /\ ~Refused(n) /\ published + n <= MaxBytes
  /\ IF Minus(capacity_, Minus(tail_idx_, head_idx_)) < n
     THEN pstatus' = "kOverflow" /\ UNCHANGED <<ppc, ptotal>>
     ELSE ppc' = "copy" /\ ptotal' = n /\ UNCHANGED pstatus
  /\ UNCHANGED <<memory, poffset, tail_idx_, published, consumers>>

\* The acquire load of commit_idx_ and the test for room.
EnqueueCall(n) ==
  /\ ppc = "idle" /\ ~Refused(n) /\ published + n <= MaxBytes
  /\ IF Minus(capacity_, Minus(tail_idx_, commit_idx_)) < n
     THEN pstatus' = "kOverflow" /\ UNCHANGED <<ppc, ptotal>>
     ELSE ppc' = "copy" /\ ptotal' = n /\ UNCHANGED pstatus
  /\ UNCHANGED <<memory, poffset, tail_idx_, published, consumers>>

EnqueueCopy(k) ==
  /\ ppc = "copy" /\ k <= ptotal - poffset
  /\ buffer_' = CopyIn(capacity_, buffer_, Plus(tail_idx_, poffset), published + poffset, k)
  /\ poffset' = poffset + k
  /\ UNCHANGED <<team, capacity_, ppc, ptotal, pstatus, tail_idx_, published, consumers>>

EnqueuePublish ==
  /\ ppc = "copy" /\ poffset = ptotal
  /\ tail_idx_' = Plus(tail_idx_, ptotal)
  /\ published' = published + ptotal
  /\ ppc' = "idle" /\ pstatus' = "kOk" /\ ptotal' = 0 /\ poffset' = 0
  /\ UNCHANGED <<memory, consumers>>
-----------------------------------------------------------------------------
(* A consumer: dequeue_bytes, dequeue_bulk, peek_bytes *)

DequeueRefuse(c, n) ==
  /\ cpc[c] = "idle" /\ Refused(n)
  /\ cstatus' = [cstatus EXCEPT ![c] = EarlyReturn]
  /\ UNCHANGED <<memory, producer, cpc, ctotal, cticket, cgot, head_idx_, commit_idx_,
                 granted, delivered>>

NeedsCredit == Credit /\ Cardinality(team) > 1

\* ticket = head_idx_.fetch_add(data_size)
DequeueTicket(c, n) ==
  /\ cpc[c] = "idle" /\ ~Refused(n)
  /\ NeedsCredit => granted + n <= published
  /\ granted' = IF NeedsCredit THEN granted + n ELSE granted
  /\ cticket' = [cticket EXCEPT ![c] = head_idx_]
  /\ ctotal' = [ctotal EXCEPT ![c] = n]
  /\ head_idx_' = Plus(head_idx_, n)
  /\ cpc' = [cpc EXCEPT ![c] = "check"]
  /\ UNCHANGED <<memory, producer, cgot, cstatus, commit_idx_, delivered>>

\* The acquire load of tail_idx_ and the test, unsigned.
DequeueCheck(c) ==
  /\ cpc[c] = "check"
  /\ cpc' = [cpc EXCEPT ![c] =
               IF Minus(tail_idx_, cticket[c]) < ctotal[c] THEN "rewind" ELSE "copy"]
  /\ UNCHANGED <<memory, producer, ctotal, cticket, cgot, cstatus, head_idx_, commit_idx_,
                 granted, delivered>>

\* head_idx_.fetch_sub(data_size)
DequeueRewind(c) ==
  /\ cpc[c] = "rewind"
  /\ head_idx_' = Minus(head_idx_, ctotal[c])
  /\ cpc' = [cpc EXCEPT ![c] = "idle"]
  /\ cstatus' = [cstatus EXCEPT ![c] = "kUnderflow"]
  /\ ctotal' = [ctotal EXCEPT ![c] = 0]
  /\ cticket' = [cticket EXCEPT ![c] = 0]
  /\ UNCHANGED <<memory, producer, cgot, commit_idx_, granted, delivered>>

\* The k bytes after those already copied.
Extended(c, k) ==
  LET n == Len(cgot[c])
  IN [i \in 1..(n + k) |->
        IF i <= n THEN cgot[c][i]
        ELSE buffer_[SlotOf(capacity_, Plus(cticket[c], n), i - n - 1)]]

DequeueCopy(c, k) ==
  /\ cpc[c] = "copy" /\ k <= ctotal[c] - Len(cgot[c])
  /\ cgot' = [cgot EXCEPT ![c] = Extended(c, k)]
  /\ UNCHANGED <<memory, producer, cpc, ctotal, cticket, cstatus, head_idx_, commit_idx_,
                 granted, delivered>>

\* The compare-exchange succeeds when all earlier tickets are committed.
MayCommit(c) == cpc[c] = "copy" /\ Len(cgot[c]) = ctotal[c] /\ commit_idx_ = cticket[c]

\* A slip: commit_idx_ stays where the ticket began.
NotAdvanced(c) == cticket[c]

Committed(c) == Plus(cticket[c], ctotal[c])

DequeueCommit(c) ==
  /\ MayCommit(c)
  /\ commit_idx_' = Committed(c)
  /\ delivered' = delivered \cup Range(cgot[c])
  /\ cpc' = [cpc EXCEPT ![c] = "idle"]
  /\ cstatus' = [cstatus EXCEPT ![c] = "kOk"]
  /\ ctotal' = [ctotal EXCEPT ![c] = 0]
  /\ cticket' = [cticket EXCEPT ![c] = 0]
  /\ cgot' = [cgot EXCEPT ![c] = <<>>]
  /\ UNCHANGED <<memory, producer, head_idx_, granted>>

\* peek_bytes: commit_idx_, then tail_idx_, then the bytes; nothing is claimed.
PeekCall(c, n) ==
  /\ cpc[c] = "idle" /\ ~Refused(n)
  /\ cticket' = [cticket EXCEPT ![c] = commit_idx_]
  /\ ctotal' = [ctotal EXCEPT ![c] = n]
  /\ cpc' = [cpc EXCEPT ![c] = "peekCheck"]
  /\ UNCHANGED <<memory, producer, cgot, cstatus, head_idx_, commit_idx_, granted, delivered>>

PeekCheck(c) ==
  /\ cpc[c] = "peekCheck"
  /\ IF Minus(tail_idx_, cticket[c]) < ctotal[c]
     THEN /\ cpc' = [cpc EXCEPT ![c] = "idle"]
          /\ cstatus' = [cstatus EXCEPT ![c] = "kUnderflow"]
          /\ ctotal' = [ctotal EXCEPT ![c] = 0]
          /\ cticket' = [cticket EXCEPT ![c] = 0]
     ELSE /\ cpc' = [cpc EXCEPT ![c] = "peek"]
          /\ UNCHANGED <<cstatus, ctotal, cticket>>
  /\ UNCHANGED <<memory, producer, cgot, head_idx_, commit_idx_, granted, delivered>>

PeekCopy(c) ==
  /\ cpc[c] = "peek"
  /\ cgot' = [cgot EXCEPT ![c] = Extended(c, ctotal[c])]
  /\ cpc' = [cpc EXCEPT ![c] = "peeked"]
  /\ UNCHANGED <<memory, producer, ctotal, cticket, cstatus, head_idx_, commit_idx_,
                 granted, delivered>>

PeekReturn(c) ==
  /\ cpc[c] = "peeked"
  /\ cpc' = [cpc EXCEPT ![c] = "idle"]
  /\ cstatus' = [cstatus EXCEPT ![c] = "kOk"]
  /\ ctotal' = [ctotal EXCEPT ![c] = 0]
  /\ cticket' = [cticket EXCEPT ![c] = 0]
  /\ cgot' = [cgot EXCEPT ![c] = <<>>]
  /\ UNCHANGED <<memory, producer, head_idx_, commit_idx_, granted, delivered>>
-----------------------------------------------------------------------------
ProducerStep == (\E k \in 1..ptotal : EnqueueCopy(k)) \/ EnqueuePublish

ConsumerStep(c) == \/ DequeueCheck(c) \/ DequeueRewind(c)
                   \/ \E k \in 1..ctotal[c] : DequeueCopy(c, k)
                   \/ DequeueCommit(c)
                   \/ PeekCheck(c) \/ PeekCopy(c) \/ PeekReturn(c)

Next == \/ \E cap \in Capacities \cup {0} : Reserve(cap)
        \/ \E n \in OpSizes :
             \/ EnqueueRefuse(n) \/ EnqueueCall(n)
             \/ \E c \in team : DequeueRefuse(c, n) \/ DequeueTicket(c, n) \/ PeekCall(c, n)
        \/ ProducerStep
        \/ \E c \in team : ConsumerStep(c)

\* Each thread keeps executing the operation it has begun.
Spec == /\ Init /\ [][Next]_vars
        /\ WF_vars(ProducerStep)
        /\ \A c \in Consumers : WF_vars(ConsumerStep(c))
-----------------------------------------------------------------------------
\* What a dequeue returns are consecutive bytes of the stream, published, and
\* given to no other dequeue before.
EachByteOnce ==
  [][ \A c \in Consumers :
        cpc[c] = "copy" /\ cpc'[c] = "idle" =>
          /\ Range(cgot[c]) \subseteq 0..(published - 1)
          /\ Range(cgot[c]) \cap delivered = {}
          /\ \A i \in 2..ctotal[c] : cgot[c][i] = cgot[c][i - 1] + 1 ]_vars

\* Every operation returns; a consumer waits only for earlier tickets.
OperationsReturn ==
  /\ (ppc # "idle") ~> (ppc = "idle")
  /\ \A c \in Consumers : (cpc[c] # "idle") ~> (cpc[c] = "idle")

\* A dequeue from a queue nothing was put into gets kUnderflow, as the test
\* DequeueFromEmpty expects: it never goes on to copy.
EmptyGivesUnderflow == published = 0 => \A c \in Consumers : cpc[c] # "copy"
=============================================================================
