---------------------------- MODULE LogPipeline -----------------------------
(***************************************************************************)
(* One logger: InternalLogger on the thread that logs (the frontend) and   *)
(* BackendWorker's thread, which drains the queue into the sinks.          *)
(*                                                                         *)
(* The queue is the FIFO of entries the byte queue implements (SpscQueue,  *)
(* EntryChannel): an enqueue takes effect at the store of tail_idx_, a     *)
(* dequeue at the store of head_idx_, and an entry is refused when its     *)
(* bytes do not fit.  An entry is [id, size, level]; ids number the calls  *)
(* of log() in program order.                                              *)
(***************************************************************************)
EXTENDS Integers, Sequences, SequencesExt

CONSTANTS QueueBytes,       \* the capacity of the queue
          HeaderSize,       \* sizeof(LogEntry)
          kMaxPayloadSize,  \* a payload must be shorter than this
          Payloads,         \* the payload sizes log() is called with
          LogLevels,        \* the levels log() is called with
          Thresholds,       \* the values level_ is set to
          MaxSinks,         \* bound: sinks ever registered
          MaxLogs,          \* bound: calls of log()
          MaxFlushes,       \* bound: calls of flush()
          MaxStarts         \* bound: calls of start_worker()

ASSUME PipelineConstants ==
  /\ QueueBytes \in Nat /\ HeaderSize \in Nat \ {0} /\ kMaxPayloadSize \in Nat \ {0}
  /\ Payloads \subseteq Nat /\ LogLevels \subseteq Nat /\ Thresholds \subseteq Nat
  /\ MaxSinks \in Nat /\ MaxLogs \in Nat /\ MaxFlushes \in Nat /\ MaxStarts \in Nat

kFatal == 1
kInfo  == 4

VARIABLES
  status_, level_, terminate_on_fatal_,       \* the frontend's plain state
  enqueued_count_, dropped_count_,
  queue_,                                     \* entries in flight, oldest first
  shutdown_required_, flush_requested_seq_, flush_completed_seq_,  \* atomics
  sinks_,                                     \* <<first, log>> of each sink
  fpc, fseq,                                  \* the frontend: pc, local seq
  wpc, wmode, wreq, wentry, wsink,            \* the worker: pc and locals
  logs, starts, attempts, base, accepted, processed \* ghosts

config   == <<status_, level_, terminate_on_fatal_>>
counters == <<enqueued_count_, dropped_count_>>
atomics  == <<shutdown_required_, flush_requested_seq_, flush_completed_seq_>>
worker   == <<wpc, wmode, wreq, wentry, wsink>>
ghosts   == <<logs, starts, attempts, base, accepted, processed>>
vars     == <<config, counters, queue_, atomics, sinks_, fpc, fseq, worker, ghosts>>

NoEntry == [id |-> 0, size |-> 0, level |-> 0]

Bytes(q) == FoldSeq(LAMBDA e, n : e.size + n, 0, q)

Init ==
  /\ status_ = "kUninitialized" /\ level_ = kInfo /\ terminate_on_fatal_ = TRUE
  /\ enqueued_count_ = 0 /\ dropped_count_ = 0
  /\ queue_ = <<>>
  /\ shutdown_required_ = FALSE /\ flush_requested_seq_ = 0 /\ flush_completed_seq_ = 0
  /\ sinks_ = <<>>
  /\ fpc = "idle" /\ fseq = 0
  /\ wpc = "none" /\ wmode = "poll" /\ wreq = 0 /\ wentry = NoEntry /\ wsink = 0
  /\ logs = 0 /\ starts = 0 /\ attempts = 0 /\ base = 0 /\ accepted = <<>> /\ processed = <<>>
-----------------------------------------------------------------------------
(* The frontend *)

\* InternalLogger::init: a fresh queue; the worker is only set up once.
InitLogger(terminate) ==
  /\ fpc = "idle" /\ status_ # "kRunning"
  /\ queue_' = <<>>
  /\ status_' = IF status_ = "kUninitialized" THEN "kIdling" ELSE status_
  /\ terminate_on_fatal_' = terminate
  /\ UNCHANGED <<level_, counters, atomics, sinks_, fpc, fseq, worker, ghosts>>

RegisterSink ==
  /\ fpc = "idle" /\ status_ = "kIdling" /\ Len(sinks_) < MaxSinks
  /\ sinks_' = Append(sinks_, [first |-> Len(processed), log |-> <<>>])
  /\ UNCHANGED <<config, counters, queue_, atomics, fpc, fseq, worker, ghosts>>

ClearSinks ==
  /\ fpc = "idle" /\ status_ = "kIdling"
  /\ sinks_' = <<>>
  /\ UNCHANGED <<config, counters, queue_, atomics, fpc, fseq, worker, ghosts>>

SetLevel(l) ==
  /\ fpc = "idle"
  /\ level_' = l
  /\ UNCHANGED <<status_, terminate_on_fatal_, counters, queue_, atomics, sinks_,
                 fpc, fseq, worker, ghosts>>

ResetCount ==
  /\ fpc = "idle"
  /\ enqueued_count_' = 0 /\ dropped_count_' = 0
  /\ attempts' = 0 /\ base' = Len(accepted)
  /\ UNCHANGED <<config, queue_, atomics, sinks_, fpc, fseq, worker,
                 logs, starts, accepted, processed>>

\* BackendWorker::start: the thread begins run_loop.
StartWorker ==
  /\ fpc = "idle" /\ status_ = "kIdling" /\ sinks_ # <<>> /\ starts < MaxStarts
  /\ wpc' = "top"
  /\ status_' = "kRunning"
  /\ starts' = starts + 1
  /\ UNCHANGED <<level_, terminate_on_fatal_, counters, queue_, atomics, sinks_, fpc, fseq,
                 wmode, wreq, wentry, wsink, logs, attempts, base, accepted, processed>>

\* The two tests log() begins with.
Wanted(l) == l <= level_ /\ status_ = "kRunning"

\* enqueue_bytes accepts an entry iff its bytes fit.
Fits(size) == Bytes(queue_) + size <= QueueBytes

\* log() returns at once: nothing is queued, nothing is counted.
LogIgnored(l) ==
  /\ fpc = "idle" /\ logs < MaxLogs /\ ~Wanted(l)
  /\ logs' = logs + 1
  /\ UNCHANGED <<config, counters, queue_, atomics, sinks_, fpc, fseq, worker,
                 starts, attempts, base, accepted, processed>>

\* A slip: an unfit entry goes uncounted.
LogUnfitUncounted(l, payload, literal) ==
  /\ fpc = "idle" /\ logs < MaxLogs /\ Wanted(l)
  /\ payload >= kMaxPayloadSize \/ (~literal /\ payload = 0)
  /\ logs' = logs + 1 /\ attempts' = attempts + 1
  /\ UNCHANGED <<config, counters, queue_, atomics, sinks_, fpc, fseq, worker,
                 starts, base, accepted, processed>>

\* Too long for an entry, or nothing serialized: counted and dropped, before
\* the level is looked at again.
LogUnfit(l, payload, literal) ==
  /\ fpc = "idle" /\ logs < MaxLogs /\ Wanted(l)
  /\ payload >= kMaxPayloadSize \/ (~literal /\ payload = 0)
  /\ dropped_count_' = dropped_count_ + 1
  /\ logs' = logs + 1 /\ attempts' = attempts + 1
  /\ UNCHANGED <<config, enqueued_count_, queue_, atomics, sinks_, fpc, fseq, worker,
                 starts, base, accepted, processed>>

\* What follows the enqueue: a fatal entry stops the worker, whether or not
\* it was accepted, and then terminates.
AfterEnqueue(l) ==
  IF l = kFatal /\ terminate_on_fatal_
  THEN fpc' = "fatal" /\ shutdown_required_' = TRUE
  ELSE UNCHANGED <<fpc, shutdown_required_>>

\* enqueue_log_entry
LogEnqueue(l, payload, literal) ==
  /\ fpc = "idle" /\ logs < MaxLogs /\ Wanted(l)
  /\ payload < kMaxPayloadSize /\ (literal \/ payload > 0)
  /\ logs' = logs + 1 /\ attempts' = attempts + 1
  /\ LET entry == [id |-> logs + 1, size |-> HeaderSize + payload, level |-> l]
     IN IF Fits(entry.size)
        THEN /\ queue_' = Append(queue_, entry)
             /\ enqueued_count_' = enqueued_count_ + 1
             /\ accepted' = Append(accepted, entry)
             /\ UNCHANGED dropped_count_
        ELSE /\ dropped_count_' = dropped_count_ + 1
             /\ UNCHANGED <<queue_, enqueued_count_, accepted>>
  /\ AfterEnqueue(l)
  /\ UNCHANGED <<config, flush_requested_seq_, flush_completed_seq_, sinks_, fseq, worker,
                 starts, base, processed>>

\* flush(): take a ticket, then spin until it is completed.
FlushRequest ==
  /\ fpc = "idle" /\ status_ = "kRunning" /\ flush_requested_seq_ < MaxFlushes
  /\ flush_requested_seq_' = flush_requested_seq_ + 1
  /\ fseq' = flush_requested_seq_ + 1
  /\ fpc' = "flush"
  /\ UNCHANGED <<config, counters, queue_, shutdown_required_, flush_completed_seq_, sinks_,
                 worker, ghosts>>

FlushReturn ==
  /\ fpc = "flush" /\ flush_completed_seq_ >= fseq
  /\ fpc' = "idle" /\ fseq' = 0
  /\ UNCHANGED <<config, counters, queue_, atomics, sinks_, worker, ghosts>>

\* stop(), by the user or by a destructor that finds the worker running.
StopRequest(pc) ==
  /\ fpc = "idle" /\ status_ = "kRunning"
  /\ shutdown_required_' = TRUE
  /\ fpc' = pc
  /\ UNCHANGED <<config, counters, queue_, flush_requested_seq_, flush_completed_seq_, sinks_,
                 fseq, worker, ghosts>>

\* join() returns once the thread has left run_loop.
StopReturn ==
  /\ fpc \in {"stop", "destroy", "fatal"} /\ wpc = "exited"
  /\ wpc' = "none"
  /\ status_' = "kIdling"
  /\ fpc' = CASE fpc = "stop" -> "idle" [] fpc = "destroy" -> "destroyed"
              [] fpc = "fatal" -> "terminated"
  /\ UNCHANGED <<level_, terminate_on_fatal_, counters, queue_, atomics, sinks_, fseq,
                 wmode, wreq, wentry, wsink, ghosts>>

\* The destructor of a logger whose worker does not run.
Destroy ==
  /\ fpc = "idle" /\ status_ # "kRunning"
  /\ fpc' = "destroyed"
  /\ UNCHANGED <<config, counters, queue_, atomics, sinks_, fseq, worker, ghosts>>
-----------------------------------------------------------------------------
(* The worker: run_loop *)

\* Slips: the flag is read once, before the loop; the loop is left without
\* the final flush_impl.
WorkerTopCached ==
  /\ wpc = "top" /\ wpc' = "request" /\ wmode' = "poll"
  /\ UNCHANGED <<config, counters, queue_, atomics, sinks_, fpc, fseq, wreq, wentry, wsink,
                 ghosts>>
WorkerTopNoFinal ==
  /\ wpc = "top"
  /\ IF shutdown_required_ THEN wpc' = "lastRequest" /\ wmode' = "final"
                           ELSE wpc' = "request" /\ wmode' = "poll"
  /\ UNCHANGED <<config, counters, queue_, atomics, sinks_, fpc, fseq, wreq, wentry, wsink,
                 ghosts>>

\* The shutdown test at the top of the loop.
WorkerTop ==
  /\ wpc = "top"
  /\ IF shutdown_required_ THEN wpc' = "read" /\ wmode' = "final"
                           ELSE wpc' = "request" /\ wmode' = "poll"
  /\ UNCHANGED <<config, counters, queue_, atomics, sinks_, fpc, fseq, wreq, wentry, wsink,
                 ghosts>>

\* The load of flush_requested_seq_: is there a flush to serve?
WorkerRequest ==
  /\ wpc = "request"
  /\ IF flush_requested_seq_ > flush_completed_seq_
     THEN wmode' = "flush" /\ wreq' = flush_requested_seq_
     ELSE UNCHANGED <<wmode, wreq>>
  /\ wpc' = "read"
  /\ UNCHANGED <<config, counters, queue_, atomics, sinks_, fpc, fseq, wentry, wsink, ghosts>>

\* read_and_process_one finds nothing: the poll goes round (after its
\* backoff, always finite), flush_impl is over.
WorkerReadNothing ==
  /\ wpc = "read" /\ queue_ = <<>>
  /\ wpc' = CASE wmode = "poll" -> "top" [] wmode = "flush" -> "ack"
              [] wmode = "final" -> "lastRequest"
  /\ UNCHANGED <<config, counters, queue_, atomics, sinks_, fpc, fseq, wmode, wreq, wentry,
                 wsink, ghosts>>

\* read_and_process_one takes the oldest entry into the dequeue buffer.
WorkerRead ==
  /\ wpc = "read" /\ queue_ # <<>>
  /\ wentry' = Head(queue_) /\ queue_' = Tail(queue_)
  /\ wsink' = 1 /\ wpc' = "sinks"
  /\ UNCHANGED <<config, counters, atomics, sinks_, fpc, fseq, wmode, wreq, ghosts>>

\* A slip: flush_impl handles one entry only.
AfterEntryOnce == CASE wmode = "poll" -> "top" [] wmode = "flush" -> "ack"
                    [] wmode = "final" -> "lastRequest"

\* The loop an entry was read from goes on: run_loop's or flush_impl's.
AfterEntry == IF wmode = "poll" THEN "top" ELSE "read"

\* A slip: only the first sink gets the entry.
WorkerOnLogFirst ==
  /\ wpc = "sinks"
  /\ sinks_' = [sinks_ EXCEPT ![1].log = Append(@, wentry)]
  /\ processed' = Append(processed, wentry)
  /\ wsink' = 0 /\ wentry' = NoEntry /\ wpc' = AfterEntry
  /\ UNCHANGED <<config, counters, queue_, atomics, fpc, fseq, wmode, wreq,
                 logs, starts, attempts, base, accepted>>

\* process_log_entry hands it to the sinks one after another.
WorkerOnLog ==
  /\ wpc = "sinks"
  /\ sinks_' = [sinks_ EXCEPT ![wsink].log = Append(@, wentry)]
  /\ IF wsink < Len(sinks_)
     THEN wsink' = wsink + 1 /\ UNCHANGED <<wpc, wentry, processed>>
     ELSE /\ processed' = Append(processed, wentry)
          /\ wsink' = 0 /\ wentry' = NoEntry
          /\ wpc' = AfterEntry
  /\ UNCHANGED <<config, counters, queue_, atomics, fpc, fseq, wmode, wreq,
                 logs, starts, attempts, base, accepted>>

\* A slip: the ticket before is completed.
WorkerAckEarlier ==
  /\ wpc = "ack"
  /\ flush_completed_seq_' = wreq - 1 /\ wreq' = 0
  /\ wpc' = "read" /\ wmode' = "poll"
  /\ UNCHANGED <<config, counters, queue_, shutdown_required_, flush_requested_seq_, sinks_,
                 fpc, fseq, wentry, wsink, ghosts>>

\* The flush the loop saw is complete; the iteration goes on with one poll.
WorkerAck ==
  /\ wpc = "ack"
  /\ flush_completed_seq_' = wreq /\ wreq' = 0
  /\ wpc' = "read" /\ wmode' = "poll"
  /\ UNCHANGED <<config, counters, queue_, shutdown_required_, flush_requested_seq_, sinks_,
                 fpc, fseq, wentry, wsink, ghosts>>

\* After the final flush_impl every ticket taken by now is completed.
WorkerLastRequest ==
  /\ wpc = "lastRequest"
  /\ wreq' = flush_requested_seq_
  /\ wpc' = "lastAck"
  /\ UNCHANGED <<config, counters, queue_, atomics, sinks_, fpc, fseq, wmode, wentry, wsink,
                 ghosts>>

WorkerExit ==
  /\ wpc = "lastAck"
  /\ flush_completed_seq_' = wreq /\ wreq' = 0
  /\ wpc' = "exited" /\ wmode' = "poll"
  /\ UNCHANGED <<config, counters, queue_, shutdown_required_, flush_requested_seq_, sinks_,
                 fpc, fseq, wentry, wsink, ghosts>>
-----------------------------------------------------------------------------
Worker == \/ WorkerTop \/ WorkerRequest \/ WorkerReadNothing \/ WorkerRead
          \/ WorkerOnLog \/ WorkerAck \/ WorkerLastRequest \/ WorkerExit

\* A call in progress goes on; no call has to be made.
FrontendReturn == FlushReturn \/ StopReturn

Log == \E l \in LogLevels :
         \/ LogIgnored(l)
         \/ \E payload \in Payloads, literal \in BOOLEAN :
              LogUnfit(l, payload, literal) \/ LogEnqueue(l, payload, literal)

Frontend == \/ \E terminate \in BOOLEAN : InitLogger(terminate)
            \/ RegisterSink \/ ClearSinks \/ ResetCount
            \/ \E l \in Thresholds : SetLevel(l)
            \/ StartWorker
            \/ Log
            \/ FlushRequest
            \/ \E pc \in {"stop", "destroy"} : StopRequest(pc)
            \/ Destroy

\* The logger is gone, or the process is.
Finished == fpc \in {"destroyed", "terminated"} /\ UNCHANGED vars

Next == Frontend \/ FrontendReturn \/ Worker \/ Finished

Spec == Init /\ [][Next]_vars /\ WF_vars(Worker) /\ WF_vars(FrontendReturn)
-----------------------------------------------------------------------------
InHand == IF wpc = "sinks" THEN <<wentry>> ELSE <<>>

\* Between the two threads nothing is lost, repeated or reordered: what was
\* accepted is what was processed, then the entry in the worker's hands, then
\* the queue; and each sink has got the same uninterrupted part of it.
DeliveredInOrder ==
  /\ accepted = processed \o InHand \o queue_
  /\ \A i \in DOMAIN sinks_ :
       LET done == Len(processed) + (IF wpc = "sinks" /\ i < wsink THEN 1 ELSE 0)
       IN sinks_[i].log = SubSeq(accepted, sinks_[i].first + 1, done)

\* Every call of log() that passed the level filter of a running logger is
\* counted, and the two counters tell where it went: dropped, or on its way
\* through the worker.
EveryCallAccountedFor ==
  /\ attempts = enqueued_count_ + dropped_count_
  /\ enqueued_count_ = Len(processed \o InHand \o queue_) - base

\* flush() is a barrier, and so is join(), in stop(), in the destructor and
\* after a fatal entry: when it returns, every entry accepted before has been
\* handed to every sink.
WaitsAreBarriers ==
  [][ (fpc = "flush" /\ fpc' = "idle") \/ (status_ = "kRunning" /\ status_' = "kIdling")
        => processed = accepted ]_vars

\* flush() returns: its ticket is completed, though the worker read the
\* request counter before the ticket was taken.
FlushReturns == (fpc = "flush") ~> (fpc # "flush")

\* stop(), the destructor and a fatal entry get past join().
StopReturns == (fpc \in {"stop", "destroy", "fatal"}) ~> (wpc = "none")

\* Whatever the queue accepts reaches the sinks, with or without a flush.
AcceptedIsProcessed == \A n \in 1..MaxLogs : (Len(accepted) = n) ~> (Len(processed) >= n)
-----------------------------------------------------------------------------
\* What the calling thread is doing, as its user sees it.
Caller == CASE fpc = "idle" -> "free"
            [] fpc \in {"flush", "stop"} -> fpc
            [] fpc \in {"destroy", "fatal"} -> "end"
            [] fpc \in {"destroyed", "terminated"} -> "gone"

\* Logger and worker together implement the delivery of entries: each sink is
\* given all that was accepted since it was registered, one entry after the
\* other and after the sinks before it, and every call that waits returns
\* with nothing outstanding.
Delivery == INSTANCE LogDelivery WITH
              Entries <- [id : 1..MaxLogs, size : {HeaderSize + p : p \in Payloads},
                          level : LogLevels],
              entries <- accepted, sinks <- sinks_, running <- (status_ = "kRunning"),
              caller <- Caller, enqueued <- enqueued_count_, dropped <- dropped_count_
ImplementsDelivery == Delivery!Spec
=============================================================================
