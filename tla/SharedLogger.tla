---------------------------- MODULE SharedLogger ----------------------------
(***************************************************************************)
(* Several threads that log through one logger, as Logger::global_logger() *)
(* lets them: they share entry_buffer_, in which InternalLogger builds an  *)
(* entry, and the producer's side of SpscQueue, whose tail index is loaded *)
(* at the start of enqueue_bytes and stored at its end.  Entries take one  *)
(* slot each; how one is spread over bytes is SpscQueue's matter.          *)
(***************************************************************************)
EXTENDS Integers, Sequences

CONSTANTS Threads, capacity_,
          MaxCalls   \* bound: log calls per thread

VARIABLES pc, calls, current_tail,   \* of each thread, inside log()
          entry_buffer_, buffer_, tail_idx_, head_idx_,
          accepted,                  \* ghost: the entries enqueue_bytes said kOk for
          received                   \* what the worker has dequeued

vars == <<pc, calls, current_tail, entry_buffer_, buffer_, tail_idx_, head_idx_, accepted, received>>

Nothing == <<>>

Init == /\ pc = [t \in Threads |-> "idle"] /\ calls = [t \in Threads |-> 0]
        /\ current_tail = [t \in Threads |-> 0]
        /\ entry_buffer_ = Nothing /\ buffer_ = [s \in 0..(capacity_ - 1) |-> Nothing]
        /\ tail_idx_ = 0 /\ head_idx_ = 0 /\ accepted = {} /\ received = <<>>

Go(t, to) == pc' = [pc EXCEPT ![t] = to]

\* log_serialized: the entry is built in the logger's own buffer.
Build(t) ==
  /\ pc[t] = "idle" /\ calls[t] < MaxCalls
  /\ calls' = [calls EXCEPT ![t] = @ + 1]
  /\ entry_buffer_' = <<t, calls[t] + 1>>
  /\ Go(t, "enqueue")
  /\ UNCHANGED <<current_tail, buffer_, tail_idx_, head_idx_, accepted, received>>

\* enqueue_bytes: the test for room; a full queue drops the entry ...
LoadTail(t) ==
  /\ pc[t] = "enqueue"
  /\ current_tail' = [current_tail EXCEPT ![t] = tail_idx_]
  /\ Go(t, IF tail_idx_ - head_idx_ < capacity_ THEN "copy" ELSE "idle")
  /\ UNCHANGED <<calls, entry_buffer_, buffer_, tail_idx_, head_idx_, accepted, received>>

\* ... the memcpy from entry_buffer_ ...
Copy(t) ==
  /\ pc[t] = "copy"
  /\ buffer_' = [buffer_ EXCEPT ![current_tail[t] % capacity_] = entry_buffer_]
  /\ Go(t, "publish")
  /\ UNCHANGED <<calls, current_tail, entry_buffer_, tail_idx_, head_idx_, accepted, received>>

\* ... and the new tail.
Publish(t) ==
  /\ pc[t] = "publish"
  /\ tail_idx_' = current_tail[t] + 1
  /\ accepted' = accepted \cup {<<t, calls[t]>>}
  /\ Go(t, "idle")
  /\ UNCHANGED <<calls, current_tail, entry_buffer_, buffer_, head_idx_, received>>

\* read_and_process_one
Take ==
  /\ head_idx_ < tail_idx_
  /\ received' = Append(received, buffer_[head_idx_ % capacity_])
  /\ head_idx_' = head_idx_ + 1
  /\ UNCHANGED <<pc, calls, current_tail, entry_buffer_, buffer_, tail_idx_, accepted>>

Next == (\E t \in Threads : Build(t) \/ LoadTail(t) \/ Copy(t) \/ Publish(t)) \/ Take

Spec == Init /\ [][Next]_vars
-----------------------------------------------------------------------------
InQueue == {buffer_[i % capacity_] : i \in head_idx_..(tail_idx_ - 1)}

\* An entry the queue took from a thread is in it or has reached the worker,
\* and the worker gets none twice: what the logger promises each of the
\* frontend threads that use its queue.
EachAcceptedOnce ==
  /\ \A e \in accepted : e \in InQueue \/ \E i \in DOMAIN received : received[i] = e
  /\ \A i, j \in DOMAIN received : received[i] = received[j] => i = j
=============================================================================
