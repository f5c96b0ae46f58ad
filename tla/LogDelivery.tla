---------------------------- MODULE LogDelivery -----------------------------
(***************************************************************************)
(* What a logger promises the thread that logs: each sink is given the     *)
(* entries accepted since it was registered, all of them, once and in      *)
(* order; an entry that is not accepted is counted; flush(), stop(), the   *)
(* destructor and a fatal entry wait until every sink has every entry.     *)
(* Nothing is said of the queue, of tickets, or of how the worker polls.   *)
(***************************************************************************)
EXTENDS Integers, Sequences

CONSTANT Entries    \* what may be logged

VARIABLES entries,           \* what was accepted
          sinks,             \* of each sink, how much it missed and what it was given
          running,           \* is there a worker
          caller,            \* "free", waiting in "flush", "stop" or "end", or "gone"
          enqueued, dropped  \* the two counters

vars == <<entries, sinks, running, caller, enqueued, dropped>>

Init == /\ entries = <<>> /\ sinks = <<>> /\ running = FALSE /\ caller = "free"
        /\ enqueued = 0 /\ dropped = 0

\* The number of the last entry sink i was given, or missed.
Reached(i) == sinks[i].first + Len(sinks[i].log)

AllDelivered == \A i \in DOMAIN sinks : Reached(i) = Len(entries)
-----------------------------------------------------------------------------
Register == /\ caller = "free" /\ ~running
            /\ sinks' = Append(sinks, [first |-> Len(entries), log |-> <<>>])
            /\ UNCHANGED <<entries, running, caller, enqueued, dropped>>

Clear == /\ caller = "free" /\ ~running
         /\ sinks' = <<>>
         /\ UNCHANGED <<entries, running, caller, enqueued, dropped>>

Reset == /\ caller = "free"
         /\ enqueued' = 0 /\ dropped' = 0
         /\ UNCHANGED <<entries, sinks, running, caller>>

Start == /\ caller = "free" /\ ~running /\ sinks # <<>>
         /\ running' = TRUE
         /\ UNCHANGED <<entries, sinks, caller, enqueued, dropped>>

\* A fatal entry ends the program, accepted or not.
Accept == /\ caller = "free" /\ running
          /\ enqueued' = enqueued + 1
          /\ \E e \in Entries : entries' = Append(entries, e)
          /\ caller' \in {"free", "end"}
          /\ UNCHANGED <<sinks, running, dropped>>

Refuse == /\ caller = "free" /\ running
          /\ dropped' = dropped + 1
          /\ caller' \in {"free", "end"}
          /\ UNCHANGED <<entries, sinks, running, enqueued>>

\* The sinks are given an entry one after another, and then the next one.
Deliver(i) ==
  /\ running /\ Reached(i) < Len(entries)
  /\ \A j \in DOMAIN sinks : Reached(j) = IF j < i THEN Reached(i) + 1 ELSE Reached(i)
  /\ sinks' = [sinks EXCEPT ![i].log = Append(@, entries[Reached(i) + 1])]
  /\ UNCHANGED <<entries, running, caller, enqueued, dropped>>

Wait == /\ caller = "free" /\ running
        /\ caller' \in {"flush", "stop", "end"}
        /\ UNCHANGED <<entries, sinks, running, enqueued, dropped>>

Flushed == /\ caller = "flush" /\ AllDelivered
           /\ caller' = "free"
           /\ UNCHANGED <<entries, sinks, running, enqueued, dropped>>

Stopped == /\ caller \in {"stop", "end"} /\ running /\ AllDelivered
           /\ running' = FALSE
           /\ caller' = IF caller = "stop" THEN "free" ELSE "gone"
           /\ UNCHANGED <<entries, sinks, enqueued, dropped>>

Leave == /\ caller = "free" /\ ~running
         /\ caller' = "gone"
         /\ UNCHANGED <<entries, sinks, running, enqueued, dropped>>

Next == \/ Register \/ Clear \/ Reset \/ Start \/ Accept \/ Refuse
        \/ \E i \in DOMAIN sinks : Deliver(i)
        \/ Wait \/ Flushed \/ Stopped \/ Leave

Spec == Init /\ [][Next]_vars
=============================================================================
