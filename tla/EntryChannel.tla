---------------------------- MODULE EntryChannel ----------------------------
(***************************************************************************)
(* Log entries over the byte queue.  InternalLogger::enqueue_log_entry     *)
(* enqueues each entry, header and payload, with one enqueue_bytes;        *)
(* BackendWorker::read_and_process_one peeks at payload_len, the first     *)
(* field of the header, and dequeues as many bytes as it announces.        *)
(* Nothing else marks where an entry ends: one wrong length and every      *)
(* later entry is misread.                                                 *)
(*                                                                         *)
(* The steps are those of SpscQueue; this module adds who calls it when.   *)
(***************************************************************************)
EXTENDS SpscQueue

CONSTANTS LenField,     \* sizeof(payload_len)
          EntryHeader,  \* sizeof(LogEntry)
          Payloads,     \* the payload sizes that are logged
          AnyLen        \* what a payload_len that was never written may read as

EntrySizes == {EntryHeader + p : p \in Payloads}

ASSUME ChannelConstants ==
  /\ LenField \in Nat \ {0} /\ EntryHeader \in Nat /\ LenField <= EntryHeader
  /\ Payloads \subseteq Nat /\ AnyLen \subseteq Nat
  /\ EntrySizes \cup {LenField} \subseteq OpSizes

VARIABLES frames,   \* ghost: [start, total] of the entries in flight
          xpc,      \* the worker inside read_and_process_one
          xtotal,   \* its total_size
          xframe    \* ghost: the entry it is to process

channel == <<frames, xpc, xtotal, xframe>>
allVars == <<vars, channel>>

NoFrame == [start |-> 0, total |-> 0]

ChannelInit == /\ Init
               /\ frames = <<>> /\ xpc = "idle" /\ xtotal = 0 /\ xframe = NoFrame

BytesOf(f) == [i \in 1..f.total |-> f.start + i - 1]

\* InternalLogger::init, once: the worker is not running yet.
InitQueue == /\ capacity_ = 0
             /\ \E c \in Capacities : Reserve(c)
             /\ UNCHANGED channel

\* enqueue_log_entry: all the bytes of the entry or none.
EnqueueEntry(p) == EnqueueCall(EntryHeader + p) /\ UNCHANGED channel

EnqueueProceed == /\ EnqueueReload \/ \E k \in 1..ptotal : EnqueueCopy(k)
                  /\ UNCHANGED channel

EntryPublished == /\ EnqueuePublish
                  /\ frames' = Append(frames, [start |-> published, total |-> ptotal])
                  /\ UNCHANGED <<xpc, xtotal, xframe>>

\* peek_bytes(&payload_len): nothing there means there is no entry.
PeekLength == /\ xpc = "idle"
              /\ PeekCall(LenField)
              /\ xpc' = IF cpc' = "peek" THEN "peek" ELSE "idle"
              /\ UNCHANGED <<frames, xtotal, xframe>>

\* A slip: payload_len counts the header too.
DecodeTotal(data) == IF data = [i \in 1..LenField |-> frames[1].start + i - 1]
                     THEN {frames[1].total}
                     ELSE AnyLen

\* The lengths the bytes that were read may stand for.
Decode(data) == IF data = [i \in 1..LenField |-> frames[1].start + i - 1]
                THEN {frames[1].total - EntryHeader}
                ELSE AnyLen

ReadLength(stale) ==
  /\ xpc = "peek"
  /\ PeekCopy(stale)
  /\ \E payload_len \in Decode(cdata') : xtotal' = EntryHeader + payload_len
  /\ xpc' = "dequeue"
  /\ UNCHANGED <<frames, xframe>>

\* The assertion on size(), then dequeue_bytes(total_size).
DequeueEntry == /\ xpc = "dequeue"
                /\ DequeueCall(xtotal)
                /\ xpc' = "dequeuing"
                /\ UNCHANGED <<frames, xtotal, xframe>>

\* An underflow here makes read_and_process_one report that nothing was read.
DequeueProceed == /\ xpc = "dequeuing"
                  /\ DequeueReload \/ \E k \in 1..ctotal : DequeueCopy(k)
                  /\ IF cpc' = "idle" THEN xpc' = "idle" /\ xtotal' = 0
                                      ELSE UNCHANGED <<xpc, xtotal>>
                  /\ UNCHANGED <<frames, xframe>>

EntryTaken == /\ DequeueCommit
              /\ xframe' = Head(frames) /\ frames' = Tail(frames)
              /\ UNCHANGED <<xpc, xtotal>>

ProcessEntry == /\ DequeueReturn
                /\ xpc' = "process"
                /\ UNCHANGED <<frames, xtotal, xframe>>

\* process_log_entry is done with the dequeue buffer.
EntryProcessed == /\ xpc = "process"
                  /\ xpc' = "idle" /\ xtotal' = 0 /\ xframe' = NoFrame
                  /\ UNCHANGED <<vars, frames>>

ChannelNext ==
  \/ InitQueue
  \/ \E p \in Payloads : EnqueueEntry(p)
  \/ EnqueueProceed \/ EntryPublished
  \/ PeekLength
  \/ \E stale \in SUBSET (1..ctotal) : ReadLength(stale)
  \/ DequeueEntry \/ DequeueProceed \/ EntryTaken \/ ProcessEntry \/ EntryProcessed

ChannelSpec == ChannelInit /\ [][ChannelNext]_allVars
-----------------------------------------------------------------------------
\* Header and payload stay together: what the worker processes are exactly
\* the bytes of the oldest entry, so the next peek is at an entry's start.
EntriesIntact ==
  /\ xpc = "process" => cdata = BytesOf(xframe)
  /\ \A i \in DOMAIN frames :
       frames[i].start = IF i = 1 THEN consumed
                         ELSE frames[i - 1].start + frames[i - 1].total

\* FEMTOLOG_DCHECK_GE(queue_->size(), total_size) in read_and_process_one:
\* once its length can be read, the whole entry is in the queue.
LengthImpliesEntry == xpc = "dequeue" => size >= xtotal
=============================================================================
