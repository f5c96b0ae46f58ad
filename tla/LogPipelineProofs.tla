-------------------------- MODULE LogPipelineProofs -------------------------
(***************************************************************************)
(* What LogPipeline promises, proved for any number of sinks, calls and    *)
(* flushes, any capacity and any entries, as long as the worker is started *)
(* once only: shutdown_required_ is never reset, so that a second worker   *)
(* ends before it has looked at the queue (see the run pipeline_restart).  *)
(***************************************************************************)
EXTENDS LogPipeline, TLAPS

Entry == [id : Nat, size : Nat, level : Nat]
Sink  == [first : Nat, log : Seq(Entry)]

Types ==
  /\ queue_ \in Seq(Entry) /\ accepted \in Seq(Entry) /\ processed \in Seq(Entry)
  /\ wentry \in Entry /\ sinks_ \in Seq(Sink) /\ wsink \in Nat
  /\ logs \in Nat /\ starts \in Nat /\ attempts \in Nat /\ base \in Nat
  /\ enqueued_count_ \in Nat /\ dropped_count_ \in Nat
  /\ flush_requested_seq_ \in Nat /\ flush_completed_seq_ \in Nat /\ fseq \in Nat /\ wreq \in Nat

\* The thread exists exactly while status_ says so; without it the queue is
\* empty, and it is started only once.
OneWorker ==
  /\ wpc \in {"none", "top", "request", "read", "sinks", "ack", "lastRequest", "lastAck", "exited"}
  /\ status_ = "kRunning" <=> wpc # "none"
  /\ wpc # "none" => starts > 0 /\ sinks_ # <<>>
  /\ starts = 0 => ~shutdown_required_
  /\ wpc = "none" => queue_ = <<>>

\* Once asked to stop, the worker meets no more entries: the caller waits.
\* What it does after the final flush_impl it does with an empty queue.
StopBlocks ==
  /\ wpc # "none" => (shutdown_required_ <=> fpc \in {"stop", "destroy", "fatal"})
  /\ fpc \in {"stop", "destroy", "fatal"} => wpc # "none"
  /\ wpc \in {"read", "sinks"} /\ wmode = "final" => shutdown_required_
  /\ wpc \in {"lastRequest", "lastAck", "exited"} => shutdown_required_ /\ queue_ = <<>>

\* A ticket is outstanding only while its caller waits for it; the worker
\* serves that one, and completes it when there is nothing left to hand out.
FlushBlocks ==
  /\ fpc # "flush" => flush_requested_seq_ = flush_completed_seq_
  /\ fpc = "flush" => fseq = flush_requested_seq_ /\ flush_completed_seq_ <= fseq
  /\ wmode \in {"poll", "flush", "final"}
  /\ wmode = "flush" => /\ wpc \in {"read", "sinks", "ack"} /\ fpc = "flush"
                        /\ wreq = flush_requested_seq_ /\ flush_completed_seq_ < fseq
  /\ wpc = "ack" => wmode = "flush" /\ queue_ = <<>>
  /\ wpc = "request" => wmode = "poll"
  /\ wpc = "lastAck" => wreq = flush_requested_seq_
  /\ fpc = "flush" /\ flush_completed_seq_ = fseq => queue_ = <<>> /\ wpc # "sinks"

\* Where the entries are.
InTransit ==
  /\ wpc = "sinks" => wsink \in 1..Len(sinks_)
  /\ accepted = processed \o InHand \o queue_

\* How many of the accepted entries sink i has been given or passed over.
Given(i) == Len(processed) + (IF wpc = "sinks" /\ i < wsink THEN 1 ELSE 0)

SinksFollow ==
  \A i \in 1..Len(sinks_) : /\ sinks_[i].first <= Len(processed)
                            /\ sinks_[i].log = SubSeq(accepted, sinks_[i].first + 1, Given(i))

Counted ==
  /\ attempts = enqueued_count_ + dropped_count_
  /\ enqueued_count_ = Len(accepted) - base

PipelineInvariant ==
  Types /\ OneWorker /\ StopBlocks /\ FlushBlocks /\ InTransit /\ SinksFollow /\ Counted

Control == OneWorker /\ StopBlocks /\ FlushBlocks
-----------------------------------------------------------------------------
LEMMA InitPipeline == Init => PipelineInvariant
<1> SUFFICES ASSUME Init PROVE PipelineInvariant
  OBVIOUS
<1>1. Types
  <2>1. wentry \in Entry
    BY DEF Init, NoEntry, Entry
  <2>. QED
    BY <2>1 DEF Init, Types
<1>2. Control
  BY DEF Init, Control, OneWorker, StopBlocks, FlushBlocks
<1>3. InTransit /\ SinksFollow /\ Counted
  BY DEF Init, InTransit, InHand, SinksFollow, Counted
<1>. QED
  BY <1>1, <1>2, <1>3 DEF PipelineInvariant, Control

\* The entry log() makes of its arguments.
LEMMA EntryMade ==
  ASSUME Types, NEW l \in LogLevels, NEW payload \in Payloads
  PROVE  [id |-> logs + 1, size |-> HeaderSize + payload, level |-> l] \in Entry
BY PipelineConstants DEF Types, Entry

LEMMA TypesStep == ASSUME PipelineInvariant, [Next]_vars PROVE Types'
<1> USE DEF PipelineInvariant, config, counters, atomics, worker, ghosts
<1>1. ASSUME NEW terminate \in BOOLEAN, InitLogger(terminate) PROVE Types'
  BY <1>1 DEF InitLogger, Types
<1>2. CASE RegisterSink
  <2>1. [first |-> Len(processed), log |-> <<>>] \in Sink
    BY DEF Types, Sink
  <2>. QED
    BY <1>2, <2>1 DEF RegisterSink, Types
<1>3. CASE ClearSinks
  BY <1>3 DEF ClearSinks, Types
<1>4. ASSUME NEW l \in Thresholds, SetLevel(l) PROVE Types'
  BY <1>4 DEF SetLevel, Types
<1>5. CASE ResetCount
  BY <1>5 DEF ResetCount, Types
<1>6. CASE StartWorker
  BY <1>6 DEF StartWorker, Types
<1>7. ASSUME NEW l \in LogLevels, LogIgnored(l) PROVE Types'
  BY <1>7 DEF LogIgnored, Types
<1>8. ASSUME NEW l \in LogLevels, NEW payload \in Payloads, NEW literal \in BOOLEAN,
             LogUnfit(l, payload, literal)
      PROVE  Types'
  BY <1>8 DEF LogUnfit, Types
<1>9. ASSUME NEW l \in LogLevels, NEW payload \in Payloads, NEW literal \in BOOLEAN,
             LogEnqueue(l, payload, literal)
      PROVE  Types'
  <2> DEFINE e == [id |-> logs + 1, size |-> HeaderSize + payload, level |-> l]
  <2>1. e \in Entry
    BY EntryMade
  <2>2. /\ \/ queue_' = Append(queue_, e) /\ accepted' = Append(accepted, e)
           \/ UNCHANGED <<queue_, accepted>>
        /\ enqueued_count_' = enqueued_count_ \/ enqueued_count_' = enqueued_count_ + 1
        /\ dropped_count_' = dropped_count_ \/ dropped_count_' = dropped_count_ + 1
        /\ logs' = logs + 1 /\ attempts' = attempts + 1
        /\ UNCHANGED <<processed, wentry, sinks_, wsink, starts, base,
                       flush_requested_seq_, flush_completed_seq_, fseq, wreq>>
    BY <1>9 DEF LogEnqueue, AfterEnqueue
  <2> HIDE DEF e
  <2>3. queue_' \in Seq(Entry) /\ accepted' \in Seq(Entry)
    <3>1. queue_ \in Seq(Entry) /\ accepted \in Seq(Entry)
      BY DEF Types
    <3>2. Append(queue_, e) \in Seq(Entry) /\ Append(accepted, e) \in Seq(Entry)
      BY <2>1, <3>1
    <3>. QED
      BY <2>2, <3>1, <3>2, Zenon
  <2>. QED
    BY <2>2, <2>3 DEF Types
<1>10. CASE FlushRequest
  BY <1>10 DEF FlushRequest, Types
<1>11. CASE FrontendReturn
  BY <1>11, SMTT(30) DEF FrontendReturn, FlushReturn, StopReturn, Types
<1>12. ASSUME NEW pc \in {"stop", "destroy"}, StopRequest(pc) PROVE Types'
  BY <1>12 DEF StopRequest, Types
<1>13. CASE Destroy \/ Finished \/ UNCHANGED vars
  BY <1>13 DEF Destroy, Finished, vars, Types
<1>14. CASE WorkerRead
  <2>1. Head(queue_) \in Entry /\ Tail(queue_) \in Seq(Entry)
    BY <1>14 DEF WorkerRead, Types
  <2>. QED
    BY <1>14, <2>1 DEF WorkerRead, Types
<1>15. CASE WorkerOnLog
  <2>1. sinks_' \in Seq(Sink)
    <3>1. wsink \in 1..Len(sinks_)
      BY <1>15 DEF WorkerOnLog, InTransit
    <3>2. sinks_[wsink] \in Sink
      BY <3>1 DEF Types
    <3>3. [sinks_[wsink] EXCEPT !.log = Append(@, wentry)] \in Sink
      <4>1. Append(sinks_[wsink].log, wentry) \in Seq(Entry)
        BY <3>2 DEF Types, Sink
      <4>. QED
        BY <3>2, <4>1 DEF Sink
    <3>4. sinks_' = [sinks_ EXCEPT ![wsink] = [sinks_[wsink] EXCEPT !.log = Append(@, wentry)]]
      BY <1>15 DEF WorkerOnLog
    <3>. QED
      BY <3>1, <3>3, <3>4 DEF Types
  <2>2. /\ processed' = processed \/ processed' = Append(processed, wentry)
        /\ wentry' = wentry \/ wentry' = NoEntry
        /\ wsink' = wsink + 1 \/ wsink' = 0
        /\ UNCHANGED <<queue_, accepted, logs, starts, attempts, base, enqueued_count_,
                       dropped_count_, flush_requested_seq_, flush_completed_seq_, fseq, wreq>>
    BY <1>15 DEF WorkerOnLog
  <2>3. wentry' \in Entry
    BY <2>2 DEF Types, NoEntry, Entry
  <2>4. processed' \in Seq(Entry)
    <3>1. Append(processed, wentry) \in Seq(Entry) /\ processed \in Seq(Entry)
      BY DEF Types
    <3>. QED
      BY <2>2, <3>1, Zenon
  <2>. QED
    BY <2>1, <2>2, <2>3, <2>4 DEF Types
<1>16. CASE WorkerTop \/ WorkerRequest \/ WorkerReadNothing \/ WorkerAck \/ WorkerLastRequest \/ WorkerExit
  BY <1>16 DEF WorkerTop, WorkerRequest, WorkerReadNothing, WorkerAck, WorkerLastRequest,
               WorkerExit, Types
<1>. QED
  BY <1>1, <1>2, <1>3, <1>4, <1>5, <1>6, <1>7, <1>8, <1>9, <1>10, <1>11, <1>12, <1>13, <1>14,
     <1>15, <1>16, Zenon DEF Next, Frontend, Log, Worker
-----------------------------------------------------------------------------
LEMMA ControlStep ==
  ASSUME MaxStarts <= 1, PipelineInvariant, [Next]_vars
  PROVE  Control'
<1> USE DEF PipelineInvariant, config, counters, atomics, worker, ghosts, Control, OneWorker,
            StopBlocks, FlushBlocks
<1>1. ASSUME NEW terminate \in BOOLEAN, InitLogger(terminate) PROVE Control'
  BY <1>1 DEF InitLogger
<1>2. CASE RegisterSink
  BY <1>2 DEF RegisterSink, Types
<1>3. CASE ClearSinks
  BY <1>3 DEF ClearSinks
<1>4. ASSUME NEW l \in Thresholds, SetLevel(l) PROVE Control'
  BY <1>4 DEF SetLevel
<1>5. CASE ResetCount
  BY <1>5 DEF ResetCount
<1>6. CASE StartWorker
  <2>1. starts = 0 /\ starts' = 1
    BY <1>6, PipelineConstants DEF StartWorker, Types
  <2>. QED
    BY <1>6, <2>1 DEF StartWorker
<1>7. ASSUME NEW l \in LogLevels, LogIgnored(l) PROVE Control'
  BY <1>7 DEF LogIgnored
<1>8. ASSUME NEW l \in LogLevels, NEW payload \in Payloads, NEW literal \in BOOLEAN,
             LogUnfit(l, payload, literal)
      PROVE  Control'
  BY <1>8 DEF LogUnfit
<1>9. ASSUME NEW l \in LogLevels, NEW payload \in Payloads, NEW literal \in BOOLEAN,
             LogEnqueue(l, payload, literal)
      PROVE  Control'
  <2>1. /\ fpc = "idle" /\ status_ = "kRunning"
        /\ \/ fpc' = "fatal" /\ shutdown_required_' = TRUE
           \/ UNCHANGED <<fpc, shutdown_required_>>
        /\ UNCHANGED <<status_, flush_requested_seq_, flush_completed_seq_, sinks_, fseq, wpc,
                       wmode, wreq, wentry, wsink, starts>>
    BY <1>9 DEF LogEnqueue, Wanted, AfterEnqueue
  <2>. QED
    BY <2>1
<1>10. CASE FlushRequest
  BY <1>10 DEF FlushRequest, Types
<1>11. CASE FlushReturn
  BY <1>11 DEF FlushReturn, Types
<1>12. CASE StopReturn
  BY <1>12 DEF StopReturn
<1>13. ASSUME NEW pc \in {"stop", "destroy"}, StopRequest(pc) PROVE Control'
  BY <1>13 DEF StopRequest
<1>14. CASE Destroy \/ Finished \/ UNCHANGED vars
  BY <1>14 DEF Destroy, Finished, vars
<1>15. CASE WorkerTop
  BY <1>15 DEF WorkerTop
<1>16. CASE WorkerRequest
  BY <1>16 DEF WorkerRequest, Types
<1>17. CASE WorkerReadNothing
  BY <1>17 DEF WorkerReadNothing
<1>18. CASE WorkerRead
  BY <1>18 DEF WorkerRead
<1>19. CASE WorkerOnLog
  <2>1. /\ wpc = "sinks" /\ wpc' \in {"sinks", AfterEntry}
        /\ sinks_ # <<>> => sinks_' # <<>>
        /\ UNCHANGED <<status_, queue_, shutdown_required_, flush_requested_seq_,
                       flush_completed_seq_, fpc, fseq, wmode, wreq, starts>>
    <3>1. sinks_ # <<>> => sinks_' # <<>>
      BY <1>19 DEF WorkerOnLog, Types
    <3>. QED
      BY <1>19, <3>1 DEF WorkerOnLog
  <2>. QED
    BY <2>1 DEF AfterEntry
<1>20. CASE WorkerAck
  BY <1>20 DEF WorkerAck, Types
<1>21. CASE WorkerLastRequest
  BY <1>21 DEF WorkerLastRequest
<1>22. CASE WorkerExit
  BY <1>22 DEF WorkerExit
<1>. QED
  BY <1>1, <1>2, <1>3, <1>4, <1>5, <1>6, <1>7, <1>8, <1>9, <1>10, <1>11, <1>12, <1>13, <1>14,
     <1>15, <1>16, <1>17, <1>18, <1>19, <1>20, <1>21, <1>22, Zenon
     DEF Next, Frontend, FrontendReturn, Log, Worker
-----------------------------------------------------------------------------
(* Where the entries are.  Most steps move none. *)

LEMMA EntriesStay ==
  ASSUME PipelineInvariant, UNCHANGED <<queue_, accepted, processed, sinks_, wsink, wentry>>,
         (wpc' = "sinks") <=> (wpc = "sinks")
  PROVE  InTransit' /\ SinksFollow'
BY DEF PipelineInvariant, InTransit, InHand, SinksFollow, Given

LEMMA SubSeqOfAppend ==
  ASSUME NEW S, NEW s \in Seq(S), NEW e \in S, NEW m \in Nat, NEW n \in Nat, n <= Len(s)
  PROVE  SubSeq(Append(s, e), m + 1, n) = SubSeq(s, m + 1, n)
OBVIOUS

LEMMA SubSeqGrows ==
  ASSUME NEW S, NEW s \in Seq(S), NEW m \in Nat, NEW n \in Nat, m <= n, n < Len(s)
  PROVE  SubSeq(s, m + 1, n + 1) = Append(SubSeq(s, m + 1, n), s[n + 1])
OBVIOUS

\* The entry in the worker's hands is the next one of those accepted.
LEMMA EntryInHand ==
  ASSUME PipelineInvariant, wpc = "sinks"
  PROVE  Len(processed) < Len(accepted) /\ accepted[Len(processed) + 1] = wentry
<1>1. accepted = processed \o <<wentry>> \o queue_
  BY DEF PipelineInvariant, InTransit, InHand
<1>2. processed \in Seq(Entry) /\ queue_ \in Seq(Entry) /\ wentry \in Entry
  BY DEF PipelineInvariant, Types
<1>. QED
  BY <1>1, <1>2

LEMMA LenAccepted ==
  ASSUME PipelineInvariant
  PROVE  /\ Len(processed) \in Nat /\ Len(accepted) \in Nat
         /\ \A i \in 1..Len(sinks_) : Given(i) \in Nat /\ Given(i) <= Len(accepted)
<1>1. Len(processed) \in Nat /\ Len(accepted) \in Nat
  BY DEF PipelineInvariant, Types
<1>2. CASE wpc = "sinks"
  BY <1>1, <1>2, EntryInHand DEF Given
<1>3. CASE wpc # "sinks"
  <2>1. accepted = processed \o <<>> \o queue_ /\ processed \in Seq(Entry) /\ queue_ \in Seq(Entry)
    BY <1>3 DEF PipelineInvariant, InTransit, InHand, Types
  <2>2. Len(processed) <= Len(accepted)
    BY <2>1
  <2>. QED
    BY <1>1, <1>3, <2>2 DEF Given
<1>. QED
  BY <1>2, <1>3

LEMMA LogEnqueueDelivery ==
  ASSUME PipelineInvariant, NEW l \in LogLevels, NEW payload \in Payloads, NEW literal \in BOOLEAN,
         LogEnqueue(l, payload, literal)
  PROVE  InTransit' /\ SinksFollow'
<1> DEFINE e == [id |-> logs + 1, size |-> HeaderSize + payload, level |-> l]
<1>1. e \in Entry
  BY EntryMade DEF PipelineInvariant
<1>2. /\ \/ queue_' = Append(queue_, e) /\ accepted' = Append(accepted, e)
         \/ UNCHANGED <<queue_, accepted>>
      /\ UNCHANGED <<processed, sinks_, wsink, wentry, wpc>>
  BY DEF LogEnqueue, worker
<1> HIDE DEF e
<1>3. CASE UNCHANGED <<queue_, accepted>>
  BY <1>2, <1>3, EntriesStay
<1>4. CASE queue_' = Append(queue_, e) /\ accepted' = Append(accepted, e)
  <2>1. InTransit'
    <3>1. InHand \in Seq(Entry) /\ InHand' = InHand
      BY <1>2 DEF PipelineInvariant, Types, InHand
    <3>2. /\ accepted = processed \o InHand \o queue_
          /\ processed \in Seq(Entry) /\ queue_ \in Seq(Entry)
      BY DEF PipelineInvariant, Types, InTransit
    <3>3. Append(processed \o InHand \o queue_, e) = processed \o InHand \o Append(queue_, e)
      <4>1. ASSUME NEW p \in Seq(Entry), NEW h \in Seq(Entry), NEW q \in Seq(Entry), NEW x \in Entry
            PROVE  Append(p \o h \o q, x) = p \o h \o Append(q, x)
        BY SMTT(30)
      <4>. QED
        BY <1>1, <3>1, <3>2, <4>1, ZenonT(40)
    <3>4. accepted' = processed \o InHand \o Append(queue_, e)
      BY <1>4, <3>2, <3>3, Zenon
    <3>. QED
      BY <1>2, <1>4, <3>1, <3>4 DEF PipelineInvariant, InTransit
  <2>2. ASSUME NEW i \in 1..Len(sinks_)
        PROVE  SubSeq(accepted', sinks_[i].first + 1, Given(i))
                 = SubSeq(accepted, sinks_[i].first + 1, Given(i))
    <3>1. sinks_[i] \in Sink
      BY DEF PipelineInvariant, Types
    <3>2. sinks_[i].first \in Nat
      BY <3>1 DEF Sink
    <3>3. accepted \in Seq(Entry)
      BY DEF PipelineInvariant, Types
    <3>4. Given(i) \in Nat /\ Given(i) <= Len(accepted)
      BY LenAccepted
    <3>. QED
      BY <1>1, <1>4, <3>2, <3>3, <3>4, SubSeqOfAppend, Zenon
  <2>3. SinksFollow'
    <3>1. \A i \in 1..Len(sinks_) : Given(i)' = Given(i)
      BY <1>2 DEF Given
    <3>. QED
      BY <1>2, <2>2, <3>1 DEF PipelineInvariant, SinksFollow
  <2>. QED
    BY <2>1, <2>3
<1>. QED
  BY <1>2, <1>3, <1>4

LEMMA WorkerReadDelivery ==
  ASSUME PipelineInvariant, WorkerRead
  PROVE  InTransit' /\ SinksFollow'
<1>1. /\ wpc = "read" /\ wpc' = "sinks" /\ queue_ # <<>> /\ wsink' = 1
      /\ wentry' = Head(queue_) /\ queue_' = Tail(queue_)
      /\ UNCHANGED <<accepted, processed, sinks_>>
  BY DEF WorkerRead, ghosts
<1>2. sinks_ # <<>> /\ sinks_ \in Seq(Sink) /\ processed \in Seq(Entry) /\ queue_ \in Seq(Entry)
  BY <1>1 DEF PipelineInvariant, OneWorker, Types
<1>3. accepted = processed \o <<>> \o queue_
  BY <1>1 DEF PipelineInvariant, InTransit, InHand
<1>4. accepted = processed \o <<Head(queue_)>> \o Tail(queue_)
  BY <1>1, <1>2, <1>3, SMTT(30)
<1>5. InTransit'
  <2>1. wsink' \in 1..Len(sinks_')
    BY <1>1, <1>2
  <2>. QED
    BY <1>1, <1>4, <2>1 DEF InTransit, InHand
<1>6. \A i \in 1..Len(sinks_) : Given(i)' = Given(i)
  BY <1>1 DEF Given
<1>. QED
  BY <1>1, <1>5, <1>6 DEF PipelineInvariant, SinksFollow

LEMMA WorkerOnLogDelivery ==
  ASSUME PipelineInvariant, WorkerOnLog
  PROVE  InTransit' /\ SinksFollow'
<1> DEFINE n == Len(sinks_)
           k == Len(processed)
<1>1. /\ wpc = "sinks" /\ wsink \in 1..n
      /\ sinks_' = [sinks_ EXCEPT ![wsink].log = Append(@, wentry)]
      /\ UNCHANGED <<accepted, queue_>>
  BY DEF PipelineInvariant, InTransit, WorkerOnLog
<1>2. /\ sinks_ \in Seq(Sink) /\ processed \in Seq(Entry) /\ queue_ \in Seq(Entry)
      /\ wentry \in Entry /\ accepted \in Seq(Entry) /\ n \in Nat /\ k \in Nat
      /\ wsink \in Nat
  BY DEF PipelineInvariant, Types
<1>3. /\ Len(sinks_') = n
      /\ \A i \in 1..n : sinks_'[i].first = sinks_[i].first
      /\ \A i \in 1..n : i # wsink => sinks_'[i].log = sinks_[i].log
      /\ sinks_'[wsink].log = Append(sinks_[wsink].log, wentry)
  <2>1. \A i \in 1..n : sinks_[i] \in Sink
    BY <1>2
  <2>. QED
    BY <1>1, <1>2, <2>1 DEF Sink
<1>4. /\ k < Len(accepted) /\ accepted[k + 1] = wentry
      /\ accepted = processed \o <<wentry>> \o queue_
  BY <1>1, EntryInHand DEF PipelineInvariant, InTransit, InHand
<1> HIDE DEF n, k
<1>5. ASSUME NEW i \in 1..n
      PROVE  /\ sinks_'[i].first <= k
             /\ sinks_'[i].log = SubSeq(accepted, sinks_[i].first + 1, IF i <= wsink THEN k + 1 ELSE k)
  <2>1. /\ sinks_[i].first <= k /\ sinks_[i].first \in Nat
        /\ sinks_[i].log = SubSeq(accepted, sinks_[i].first + 1, IF i < wsink THEN k + 1 ELSE k)
    <3>1. sinks_[i] \in Sink
      BY <1>2 DEF n
    <3>2. sinks_[i].first <= k /\ sinks_[i].log = SubSeq(accepted, sinks_[i].first + 1, Given(i))
      BY DEF PipelineInvariant, SinksFollow, n, k
    <3>3. Given(i) = IF i < wsink THEN k + 1 ELSE k
      BY <1>1, <1>2 DEF Given, k
    <3>4. sinks_[i].first \in Nat
      BY <3>1 DEF Sink
    <3>. QED
      BY <3>2, <3>3, <3>4
  <2>2. CASE i = wsink
    <3>0. (IF i < wsink THEN k + 1 ELSE k) = k /\ (IF i <= wsink THEN k + 1 ELSE k) = k + 1
      BY <1>2, <2>2
    <3>1. sinks_[i].log = SubSeq(accepted, sinks_[i].first + 1, k)
      BY <2>1, <3>0, Zenon
    <3>2. SubSeq(accepted, sinks_[i].first + 1, k + 1)
            = Append(SubSeq(accepted, sinks_[i].first + 1, k), accepted[k + 1])
      BY <1>2, <1>4, <2>1, SubSeqGrows
    <3>3. sinks_'[i].log = SubSeq(accepted, sinks_[i].first + 1, k + 1)
      BY <1>3, <1>4, <2>2, <3>1, <3>2
    <3>. QED
      BY <1>3, <2>1, <3>0, <3>3, Zenon
  <2>3. CASE i # wsink
    <3>1. (IF i < wsink THEN k + 1 ELSE k) = (IF i <= wsink THEN k + 1 ELSE k)
      BY <1>2, <2>3
    <3>. QED
      BY <1>3, <2>1, <2>3, <3>1, Zenon
  <2>. QED
    BY <2>2, <2>3
<1>6. CASE wsink < n
  <2>1. wpc' = "sinks" /\ wsink' = wsink + 1 /\ UNCHANGED <<processed, wentry>>
    BY <1>1, <1>6 DEF WorkerOnLog, n
  <2>2. InTransit'
    <3>1. wsink + 1 \in 1..n
      BY <1>2, <1>6
    <3>. QED
      BY <1>1, <1>3, <1>4, <2>1, <3>1 DEF InTransit, InHand
  <2>3. ASSUME NEW i \in 1..n PROVE Given(i)' = IF i <= wsink THEN k + 1 ELSE k
    <3>1. i < wsink + 1 <=> i <= wsink
      BY <1>2
    <3>. QED
      BY <1>2, <2>1, <3>1 DEF Given, k
  <2>4. ASSUME NEW i \in 1..n
        PROVE  /\ sinks_'[i].first <= Len(processed)'
               /\ sinks_'[i].log = SubSeq(accepted', sinks_'[i].first + 1, Given(i)')
    BY <1>1, <1>3, <1>5, <2>1, <2>3, Zenon DEF k
  <2>5. SinksFollow'
    BY <1>3, <2>4, Zenon DEF SinksFollow
  <2>. QED
    BY <2>2, <2>5
<1>7. CASE ~(wsink < n)
  <2>1. /\ processed' = Append(processed, wentry) /\ wpc' # "sinks"
    BY <1>1, <1>7 DEF WorkerOnLog, AfterEntry, n
  <2>2. InTransit'
    <3>0. processed \o <<wentry>> \o queue_ = Append(processed, wentry) \o <<>> \o queue_
      BY <1>2
    <3>1. accepted = Append(processed, wentry) \o <<>> \o queue_
      BY <1>4, <3>0, Zenon
    <3>. QED
      BY <1>1, <2>1, <3>1 DEF InTransit, InHand
  <2>3. Len(processed') = k + 1
    BY <1>2, <2>1 DEF k
  <2>4. ASSUME NEW i \in 1..n PROVE Given(i)' = k + 1 /\ i <= wsink
    <3>1. i <= wsink
      BY <1>1, <1>2, <1>7
    <3>. QED
      BY <1>2, <2>1, <2>3, <3>1 DEF Given
  <2>5. ASSUME NEW i \in 1..n
        PROVE  /\ sinks_'[i].first <= k + 1
               /\ sinks_'[i].log = SubSeq(accepted, sinks_'[i].first + 1, k + 1)
    <3>1. sinks_'[i].first <= k /\ sinks_'[i].first \in Nat
      <4>1. sinks_[i] \in Sink
        BY <1>2 DEF n
      <4>. QED
        BY <1>3, <1>5, <4>1 DEF Sink
    <3>2. sinks_'[i].first <= k + 1
      BY <1>2, <3>1
    <3>3. (IF i <= wsink THEN k + 1 ELSE k) = k + 1
      BY <2>4
    <3>. QED
      BY <1>3, <1>5, <3>2, <3>3, Zenon
  <2>6. SinksFollow'
    BY <1>1, <1>3, <2>3, <2>4, <2>5, Zenon DEF SinksFollow
  <2>. QED
    BY <2>2, <2>6
<1>. QED
  BY <1>6, <1>7

LEMMA DeliveryStep ==
  ASSUME PipelineInvariant, [Next]_vars
  PROVE  InTransit' /\ SinksFollow'
<1> USE DEF config, counters, atomics, worker, ghosts
<1>1. ASSUME NEW terminate \in BOOLEAN, InitLogger(terminate) PROVE InTransit' /\ SinksFollow'
  <2>1. wpc = "none" /\ queue_ = <<>>
    BY <1>1 DEF InitLogger, PipelineInvariant, OneWorker
  <2>. QED
    BY <1>1, <2>1, EntriesStay DEF InitLogger
<1>2. CASE RegisterSink \/ ClearSinks
  <2>1. wpc = "none" /\ UNCHANGED <<queue_, accepted, processed, wpc, wsink, wentry>>
    BY <1>2 DEF RegisterSink, ClearSinks, PipelineInvariant, OneWorker
  <2>2. InTransit'
    BY <2>1 DEF PipelineInvariant, InTransit, InHand
  <2>3. CASE ClearSinks
    <3>1. Len(sinks_') = 0
      BY <2>3 DEF ClearSinks
    <3>. QED
      BY <2>2, <3>1 DEF SinksFollow
  <2>4. CASE RegisterSink
    <3> DEFINE new == [first |-> Len(processed), log |-> <<>>]
               n == Len(sinks_)
    <3>1. /\ sinks_ \in Seq(Sink) /\ processed \in Seq(Entry) /\ accepted \in Seq(Entry)
          /\ new \in Sink /\ n \in Nat
      BY DEF PipelineInvariant, Types, Sink
    <3>2. sinks_' = Append(sinks_, new)
      BY <2>4 DEF RegisterSink
    <3>3. /\ Len(sinks_') = n + 1 /\ sinks_'[n + 1] = new
          /\ \A i \in 1..n : sinks_'[i] = sinks_[i]
      BY <3>1, <3>2
    <3>4. \A i \in 1..(n + 1) : Given(i)' = Len(processed)
      BY <2>1, <3>1 DEF Given
    <3>5. SubSeq(accepted, Len(processed) + 1, Len(processed)) = <<>>
      BY <3>1
    <3>6. ASSUME NEW i \in 1..(n + 1)
          PROVE  /\ sinks_'[i].first <= Len(processed)
                 /\ sinks_'[i].log = SubSeq(accepted, sinks_'[i].first + 1, Len(processed))
      <4>1. CASE i = n + 1
        <5>1. sinks_'[i].first = Len(processed) /\ sinks_'[i].log = <<>>
          BY <3>3, <4>1
        <5>. QED
          BY <3>1, <3>5, <5>1
      <4>2. CASE i # n + 1
        <5>1. i \in 1..n /\ Given(i) = Len(processed)
          BY <2>1, <3>1, <4>2 DEF Given
        <5>. QED
          BY <3>3, <5>1 DEF PipelineInvariant, SinksFollow
      <4>. QED
        BY <4>1, <4>2
    <3>. QED
      BY <2>1, <2>2, <3>3, <3>4, <3>6 DEF SinksFollow
  <2>. QED
    BY <1>2, <2>2, <2>3, <2>4
<1>3. ASSUME NEW l \in LogLevels, NEW payload \in Payloads, NEW literal \in BOOLEAN,
             LogEnqueue(l, payload, literal)
      PROVE  InTransit' /\ SinksFollow'
  BY <1>3, LogEnqueueDelivery
<1>4. ASSUME NEW l \in LogLevels,
             LogIgnored(l) \/ \E payload \in Payloads, literal \in BOOLEAN : LogUnfit(l, payload, literal)
      PROVE  InTransit' /\ SinksFollow'
  BY <1>4, EntriesStay DEF LogIgnored, LogUnfit
<1>5. ASSUME NEW l \in Thresholds, SetLevel(l) PROVE InTransit' /\ SinksFollow'
  BY <1>5, EntriesStay DEF SetLevel
<1>6. ASSUME NEW pc \in {"stop", "destroy"}, StopRequest(pc) PROVE InTransit' /\ SinksFollow'
  BY <1>6, EntriesStay DEF StopRequest
<1>7. CASE ResetCount \/ FlushRequest \/ FlushReturn \/ Destroy \/ Finished \/ UNCHANGED vars
  BY <1>7, EntriesStay DEF ResetCount, FlushRequest, FlushReturn, Destroy, Finished, vars
<1>8. CASE StartWorker \/ StopReturn
  BY <1>8, EntriesStay DEF StartWorker, StopReturn, PipelineInvariant, OneWorker
<1>9. CASE WorkerTop \/ WorkerRequest \/ WorkerReadNothing \/ WorkerAck \/ WorkerLastRequest \/ WorkerExit
  BY <1>9, EntriesStay DEF WorkerTop, WorkerRequest, WorkerReadNothing, WorkerAck,
     WorkerLastRequest, WorkerExit, PipelineInvariant, FlushBlocks
<1>. QED
  BY <1>1, <1>2, <1>3, <1>4, <1>5, <1>6, <1>7, <1>8, <1>9, WorkerReadDelivery,
     WorkerOnLogDelivery, Zenon DEF Next, Frontend, FrontendReturn, Log, Worker

LEMMA CountedStep == ASSUME PipelineInvariant, [Next]_vars PROVE Counted'
<1> USE DEF config, counters, atomics, worker, ghosts
<1>1. ASSUME NEW l \in LogLevels, NEW payload \in Payloads, NEW literal \in BOOLEAN,
             LogEnqueue(l, payload, literal)
      PROVE  Counted'
  <2> DEFINE e == [id |-> logs + 1, size |-> HeaderSize + payload, level |-> l]
  <2>1. /\ attempts' = attempts + 1 /\ base' = base
        /\ \/ accepted' = Append(accepted, e) /\ enqueued_count_' = enqueued_count_ + 1
              /\ dropped_count_' = dropped_count_
           \/ accepted' = accepted /\ enqueued_count_' = enqueued_count_
              /\ dropped_count_' = dropped_count_ + 1
    BY <1>1 DEF LogEnqueue
  <2>2. e \in Entry
    BY EntryMade DEF PipelineInvariant
  <2> HIDE DEF e
  <2>3. accepted \in Seq(Entry)
    BY DEF PipelineInvariant, Types
  <2>4. Len(Append(accepted, e)) = Len(accepted) + 1 /\ Len(accepted) \in Nat
    BY <2>2, <2>3
  <2>5. /\ attempts \in Nat /\ base \in Nat /\ enqueued_count_ \in Nat /\ dropped_count_ \in Nat
        /\ attempts = enqueued_count_ + dropped_count_ /\ enqueued_count_ = Len(accepted) - base
    BY DEF PipelineInvariant, Types, Counted
  <2>6. CASE accepted' = Append(accepted, e) /\ enqueued_count_' = enqueued_count_ + 1
             /\ dropped_count_' = dropped_count_
    <3>1. Len(accepted') = Len(accepted) + 1
      BY <2>4, <2>6, Zenon
    <3>. QED
      BY <2>1, <2>4, <2>5, <2>6, <3>1 DEF Counted
  <2>7. CASE accepted' = accepted /\ enqueued_count_' = enqueued_count_
             /\ dropped_count_' = dropped_count_ + 1
    BY <2>1, <2>4, <2>5, <2>7 DEF Counted
  <2>. QED
    BY <2>1, <2>6, <2>7
<1>2. ASSUME NEW l, NEW payload, NEW literal, LogUnfit(l, payload, literal) PROVE Counted'
  <2>1. /\ attempts' = attempts + 1 /\ dropped_count_' = dropped_count_ + 1
        /\ UNCHANGED <<base, enqueued_count_, accepted>>
    BY <1>2 DEF LogUnfit
  <2>2. /\ attempts \in Nat /\ base \in Nat /\ enqueued_count_ \in Nat /\ dropped_count_ \in Nat
        /\ attempts = enqueued_count_ + dropped_count_ /\ enqueued_count_ = Len(accepted) - base
    BY DEF PipelineInvariant, Types, Counted
  <2>. QED
    BY <2>1, <2>2 DEF Counted
<1>3. CASE ResetCount
  <2>1. Len(accepted) \in Nat
    BY LenAccepted
  <2>. QED
    BY <1>3, <2>1 DEF ResetCount, Counted
<1>4. ASSUME UNCHANGED <<attempts, base, counters, accepted>> PROVE Counted'
  BY <1>4 DEF PipelineInvariant, Counted
<1>5. ASSUME NEW l, LogIgnored(l) \/ SetLevel(l) \/ StopRequest(l) \/ InitLogger(l)
      PROVE  UNCHANGED <<attempts, base, counters, accepted>>
  BY <1>5 DEF LogIgnored, SetLevel, StopRequest, InitLogger
<1>6. CASE \/ RegisterSink \/ ClearSinks \/ StartWorker \/ FlushRequest \/ Destroy \/ FrontendReturn
           \/ Worker \/ Finished \/ UNCHANGED vars
  <2>1. UNCHANGED <<attempts, base, counters, accepted>>
    BY <1>6 DEF RegisterSink, ClearSinks, StartWorker, FlushRequest, Destroy, FrontendReturn,
       FlushReturn, StopReturn, Worker, WorkerTop, WorkerRequest, WorkerReadNothing, WorkerRead,
       WorkerOnLog, WorkerAck, WorkerLastRequest, WorkerExit, Finished, vars
  <2>. QED
    BY <1>4, <2>1
<1>. QED
  BY <1>1, <1>2, <1>3, <1>4, <1>5, <1>6, Zenon DEF Next, Frontend, Log
-----------------------------------------------------------------------------
\* The inductive invariant holds for any number of sinks, calls of log() and
\* flushes, with a worker that is started once.
THEOREM PipelineInvariance ==
  ASSUME MaxStarts <= 1
  PROVE  Spec => []PipelineInvariant
<1>1. PipelineInvariant /\ [Next]_vars => PipelineInvariant'
  BY TypesStep, ControlStep, DeliveryStep, CountedStep DEF PipelineInvariant, Control
<1>2. QED
  BY InitPipeline, <1>1, PTL DEF Spec

\* Nothing the queue has accepted is lost, repeated or reordered on its way to
\* the sinks, and each sink has got the same uninterrupted part of it.
THEOREM DeliveryInOrder ==
  ASSUME MaxStarts <= 1
  PROVE  Spec => []DeliveredInOrder
<1>1. ASSUME PipelineInvariant PROVE DeliveredInOrder
  <2>1. accepted = processed \o InHand \o queue_
    BY <1>1 DEF PipelineInvariant, InTransit
  <2>2. DOMAIN sinks_ = 1..Len(sinks_)
    BY <1>1 DEF PipelineInvariant, Types
  <2>. QED
    BY <1>1, <2>1, <2>2 DEF PipelineInvariant, SinksFollow, Given, DeliveredInOrder
<1>2. QED
  BY <1>1, PipelineInvariance, PTL

\* The two counters account for every call of log() that passed the level
\* filter of a running logger.
THEOREM CallsAccountedFor ==
  ASSUME MaxStarts <= 1
  PROVE  Spec => []EveryCallAccountedFor
<1>1. ASSUME PipelineInvariant PROVE EveryCallAccountedFor
  BY <1>1 DEF PipelineInvariant, InTransit, Counted, EveryCallAccountedFor
<1>2. QED
  BY <1>1, PipelineInvariance, PTL

\* With the queue empty and no entry in hand, everything has been processed.
LEMMA AllProcessed ==
  ASSUME PipelineInvariant, queue_ = <<>>, wpc # "sinks"
  PROVE  processed = accepted
<1>1. accepted = processed \o <<>> \o <<>> /\ processed \in Seq(Entry)
  BY DEF PipelineInvariant, InTransit, InHand, Types
<1>. QED
  BY <1>1

\* When flush() returns, or join() in stop(), in the destructor or after a
\* fatal entry, every entry accepted before has been handed to every sink: the
\* ticket the worker completes is the one the caller waits for, and it is
\* completed, or the thread ends, with the queue empty.
THEOREM WaitsDrain ==
  ASSUME MaxStarts <= 1
  PROVE  Spec => WaitsAreBarriers
<1> DEFINE Returns == \/ fpc = "flush" /\ fpc' = "idle"
                      \/ status_ = "kRunning" /\ status_' = "kIdling"
<1>1. PipelineInvariant /\ [Next]_vars => [Returns => processed = accepted]_vars
  <2> SUFFICES ASSUME PipelineInvariant, Next, Returns PROVE processed = accepted
    OBVIOUS
  <2>1. FlushReturn \/ StopReturn
    BY DEF Next, Frontend, FrontendReturn, FlushReturn, StopReturn, Worker, Finished, Log,
       InitLogger, RegisterSink, ClearSinks, ResetCount, SetLevel, StartWorker, LogIgnored,
       LogUnfit, LogEnqueue, FlushRequest, StopRequest, Destroy, WorkerTop, WorkerRequest,
       WorkerReadNothing, WorkerRead, WorkerOnLog, WorkerAck, WorkerLastRequest, WorkerExit,
       vars, config
  <2>2. CASE FlushReturn
    <3>1. flush_completed_seq_ = fseq
      BY <2>2 DEF FlushReturn, PipelineInvariant, Types, FlushBlocks
    <3>. QED
      BY <2>2, <3>1, AllProcessed DEF FlushReturn, PipelineInvariant, FlushBlocks
  <2>3. CASE StopReturn
    <3>1. wpc = "exited" /\ queue_ = <<>>
      BY <2>3 DEF StopReturn, PipelineInvariant, StopBlocks
    <3>. QED
      BY <3>1, AllProcessed
  <2>. QED
    BY <2>1, <2>2, <2>3
<1>2. QED
  BY <1>1, PipelineInvariance, PTL DEF Spec, WaitsAreBarriers
-----------------------------------------------------------------------------
(* The refinement: a step of the pipeline is a step of LogDelivery, or none *)

Visible == <<accepted, sinks_, status_ = "kRunning", Caller, enqueued_count_, dropped_count_>>

\* A sink has been given what the worker has processed since it came, and the
\* entry in hand where it has had its turn.
LEMMA ReachedIsGiven ==
  ASSUME PipelineInvariant, NEW i \in DOMAIN sinks_
  PROVE  Delivery!Reached(i) = Given(i)
<1>1. i \in 1..Len(sinks_) /\ sinks_[i] \in Sink
  BY DEF PipelineInvariant, Types
<1>2. accepted \in Seq(Entry) /\ sinks_[i].first \in Nat
  BY <1>1 DEF PipelineInvariant, Types, Sink
<1>3. sinks_[i].first <= Given(i) /\ Given(i) \in Nat /\ Given(i) <= Len(accepted)
  BY <1>1, <1>2, LenAccepted DEF PipelineInvariant, SinksFollow, Given
<1>4. sinks_[i].log = SubSeq(accepted, sinks_[i].first + 1, Given(i))
  BY <1>1 DEF PipelineInvariant, SinksFollow
<1> DEFINE m == sinks_[i].first
           n == Given(i)
<1>5. m \in Nat /\ n \in Nat /\ m <= n /\ n <= Len(accepted)
  BY <1>2, <1>3
<1> HIDE DEF m, n
<1>6. Len(SubSeq(accepted, m + 1, n)) = n - m
  BY <1>2, <1>5
<1>7. Len(sinks_[i].log) = n - m
  BY <1>4, <1>6, Zenon DEF m, n
<1>8. m + (n - m) = n
  BY <1>5
<1>. QED
  BY <1>7, <1>8, Zenon DEF m, n, Delivery!Reached

\* With the queue empty and no entry in hand every sink has everything.
LEMMA NothingOutstanding ==
  ASSUME PipelineInvariant, queue_ = <<>>, wpc # "sinks"
  PROVE  Delivery!AllDelivered
<1>1. processed = accepted
  BY AllProcessed
<1>2. ASSUME NEW i \in DOMAIN sinks_ PROVE Given(i) = Len(accepted)
  BY <1>1, LenAccepted DEF Given
<1>. QED
  BY <1>2, ReachedIsGiven, Zenon DEF Delivery!AllDelivered

\* on_log of one sink is the delivery of the next entry to it.
LEMMA OnLogDelivers ==
  ASSUME PipelineInvariant, WorkerOnLog
  PROVE  Delivery!Next
<1>1. wpc = "sinks" /\ wsink \in DOMAIN sinks_ /\ status_ = "kRunning"
  BY SMTT(30) DEF WorkerOnLog, PipelineInvariant, Types, InTransit, OneWorker
<1>2. \A j \in DOMAIN sinks_ : Given(j) = Len(processed) + (IF j < wsink THEN 1 ELSE 0)
  BY <1>1 DEF Given
<1>3. wsink \in Nat /\ Len(processed) \in Nat
  BY DEF PipelineInvariant, Types
<1>4. Delivery!Reached(wsink) = Len(processed)
  BY <1>1, <1>2, <1>3, ReachedIsGiven
<1>5. \A j \in DOMAIN sinks_ :
         Delivery!Reached(j) = IF j < wsink THEN Delivery!Reached(wsink) + 1
                                            ELSE Delivery!Reached(wsink)
  BY <1>2, <1>3, <1>4, ReachedIsGiven
<1>6. Len(processed) < Len(accepted) /\ accepted[Len(processed) + 1] = wentry
  BY <1>1, EntryInHand
<1>7. sinks_' = [sinks_ EXCEPT ![wsink].log = Append(@, accepted[Delivery!Reached(wsink) + 1])]
  BY <1>4, <1>6 DEF WorkerOnLog
<1>8. /\ accepted' = accepted /\ status_' = status_ /\ fpc' = fpc
      /\ enqueued_count_' = enqueued_count_ /\ dropped_count_' = dropped_count_
  BY DEF WorkerOnLog, config, counters
<1>9. Delivery!Deliver(wsink)
  BY <1>1, <1>4, <1>5, <1>6, <1>7, <1>8 DEF Delivery!Deliver, Caller
<1>. QED
  BY <1>1, <1>9 DEF Delivery!Next

LEMMA EnqueueAcceptsOrRefuses ==
  ASSUME PipelineInvariant, NEW l \in LogLevels, NEW payload \in Payloads, NEW literal \in BOOLEAN,
         LogEnqueue(l, payload, literal)
  PROVE  Delivery!Next
<1> DEFINE e == [id |-> logs + 1, size |-> HeaderSize + payload, level |-> l]
<1>1. e \in [id : 1..MaxLogs, size : {HeaderSize + p : p \in Payloads}, level : LogLevels]
  <2>1. logs \in Nat /\ logs < MaxLogs /\ MaxLogs \in Nat
    BY PipelineConstants DEF PipelineInvariant, Types, LogEnqueue
  <2>2. logs + 1 \in 1..MaxLogs /\ HeaderSize + payload \in {HeaderSize + p : p \in Payloads}
    BY <2>1
  <2>. QED
    BY <2>2
<1>2. /\ fpc = "idle" /\ status_ = "kRunning" /\ status_' = status_ /\ sinks_' = sinks_
      /\ fpc' \in {"idle", "fatal"}
      /\ \/ /\ accepted' = Append(accepted, e) /\ enqueued_count_' = enqueued_count_ + 1
            /\ dropped_count_' = dropped_count_
         \/ /\ dropped_count_' = dropped_count_ + 1
            /\ accepted' = accepted /\ enqueued_count_' = enqueued_count_
  BY DEF LogEnqueue, Wanted, AfterEnqueue, config
<1>3. Caller = "free" /\ Caller' \in {"free", "end"}
  BY <1>2 DEF Caller
<1> HIDE DEF e
<1>4. Delivery!Accept \/ Delivery!Refuse
  BY <1>1, <1>2, <1>3 DEF Delivery!Accept, Delivery!Refuse
<1>. QED
  BY <1>4 DEF Delivery!Next

LEMMA CallsAreDeliverySteps ==
  ASSUME PipelineInvariant,
         RegisterSink \/ ClearSinks \/ ResetCount \/ StartWorker \/ FlushRequest \/ Destroy
  PROVE  Delivery!Next
<1> USE DEF config, counters, Caller, Delivery!Next
<1>1. CASE RegisterSink
  <2>1. wpc = "none" /\ queue_ = <<>> /\ status_ # "kRunning"
    BY <1>1 DEF RegisterSink, PipelineInvariant, OneWorker
  <2>2. Len(processed) = Len(accepted)
    BY <2>1, AllProcessed
  <2>3. Delivery!Register
    BY <1>1, <2>1, <2>2 DEF RegisterSink, ghosts, Delivery!Register
  <2>. QED
    BY <2>3
<1>2. CASE ClearSinks
  BY <1>2 DEF ClearSinks, ghosts, Delivery!Clear
<1>3. CASE ResetCount
  BY <1>3 DEF ResetCount, Delivery!Reset
<1>4. CASE StartWorker
  BY <1>4 DEF StartWorker, Delivery!Start
<1>5. CASE FlushRequest
  BY <1>5 DEF FlushRequest, ghosts, Delivery!Wait
<1>6. CASE Destroy
  BY <1>6 DEF Destroy, ghosts, Delivery!Leave
<1>. QED
  BY <1>1, <1>2, <1>3, <1>4, <1>5, <1>6

\* A call that waits returns only when nothing is outstanding.
LEMMA ReturnsAreDeliverySteps ==
  ASSUME PipelineInvariant, FlushReturn \/ StopReturn
  PROVE  Delivery!Next
<1>1. CASE FlushReturn
  <2>1. fpc = "flush" /\ queue_ = <<>> /\ wpc # "sinks"
    BY <1>1 DEF FlushReturn, PipelineInvariant, Types, FlushBlocks
  <2>2. Delivery!Flushed
    BY <1>1, <2>1, NothingOutstanding
       DEF FlushReturn, config, counters, ghosts, Caller, Delivery!Flushed
  <2>. QED
    BY <2>2 DEF Delivery!Next
<1>2. CASE StopReturn
  <2>1. wpc = "exited" /\ queue_ = <<>> /\ status_ = "kRunning"
    BY <1>2 DEF StopReturn, PipelineInvariant, StopBlocks, OneWorker
  <2>2. Delivery!AllDelivered
    BY <2>1, NothingOutstanding
  <2>3. Delivery!Stopped
    BY <1>2, <2>1, <2>2 DEF StopReturn, counters, ghosts, Caller, Delivery!Stopped
  <2>. QED
    BY <2>3 DEF Delivery!Next
<1>. QED
  BY <1>1, <1>2

\* The steps a user cannot see.
LEMMA StepsUnseen ==
  ASSUME \/ \E terminate \in BOOLEAN : InitLogger(terminate)
         \/ \E l \in Thresholds : SetLevel(l)
         \/ \E l \in LogLevels : LogIgnored(l)
         \/ WorkerTop \/ WorkerRequest \/ WorkerReadNothing \/ WorkerRead \/ WorkerAck
         \/ WorkerLastRequest \/ WorkerExit \/ Finished \/ UNCHANGED vars
  PROVE  UNCHANGED Visible
<1> USE DEF config, counters, ghosts, Caller, Visible
<1>1. ASSUME NEW terminate \in BOOLEAN, InitLogger(terminate) PROVE UNCHANGED Visible
  BY <1>1 DEF InitLogger
<1>2. ASSUME NEW l, SetLevel(l) \/ LogIgnored(l) PROVE UNCHANGED Visible
  BY <1>2 DEF SetLevel, LogIgnored
<1>3. CASE WorkerTop \/ WorkerRequest \/ WorkerReadNothing \/ WorkerRead
  BY <1>3 DEF WorkerTop, WorkerRequest, WorkerReadNothing, WorkerRead
<1>4. CASE WorkerAck \/ WorkerLastRequest \/ WorkerExit
  BY <1>4 DEF WorkerAck, WorkerLastRequest, WorkerExit
<1>5. CASE Finished \/ UNCHANGED vars
  BY <1>5 DEF Finished, vars
<1>. QED
  BY <1>1, <1>2, <1>3, <1>4, <1>5, Zenon

\* Logger and worker implement LogDelivery, whatever the capacity of the queue
\* and however the two threads interleave: the queue, the tickets, the flag and
\* the polling are invisible to the thread that logs and to the sinks.
THEOREM PipelineRefinement ==
  ASSUME MaxStarts <= 1
  PROVE  Spec => ImplementsDelivery
<1>1. Init => Delivery!Init
  BY DEF Init, Caller, Delivery!Init
<1>2. PipelineInvariant /\ [Next]_vars => [Delivery!Next]_(Delivery!vars)
  <2> SUFFICES ASSUME PipelineInvariant, [Next]_vars PROVE Delivery!Next \/ UNCHANGED Visible
    BY DEF Delivery!vars, Visible
  <2>1. ASSUME RegisterSink \/ ClearSinks \/ ResetCount \/ StartWorker \/ FlushRequest \/ Destroy
        PROVE  Delivery!Next
    BY <2>1, CallsAreDeliverySteps
  <2>2. ASSUME FlushReturn \/ StopReturn PROVE Delivery!Next
    BY <2>2, ReturnsAreDeliverySteps
  <2>3. ASSUME WorkerOnLog PROVE Delivery!Next
    BY <2>3, OnLogDelivers
  <2>4. ASSUME NEW l \in LogLevels, NEW payload \in Payloads, NEW literal \in BOOLEAN,
               LogEnqueue(l, payload, literal)
        PROVE  Delivery!Next
    BY <2>4, EnqueueAcceptsOrRefuses
  <2>5. ASSUME NEW l \in LogLevels, NEW payload \in Payloads, NEW literal \in BOOLEAN,
               LogUnfit(l, payload, literal)
        PROVE  Delivery!Next
    BY <2>5 DEF LogUnfit, Wanted, config, Caller, Delivery!Refuse, Delivery!Next
  <2>6. ASSUME NEW pc \in {"stop", "destroy"}, StopRequest(pc) PROVE Delivery!Next
    BY <2>6 DEF StopRequest, config, counters, ghosts, Caller, Delivery!Wait, Delivery!Next
  <2>. QED
    BY <2>1, <2>2, <2>3, <2>4, <2>5, <2>6, StepsUnseen, Zenon
       DEF Next, Frontend, FrontendReturn, Log, Worker
<1>3. QED
  BY <1>1, <1>2, PipelineInvariance, PTL DEF Spec, ImplementsDelivery, Delivery!Spec
=============================================================================
