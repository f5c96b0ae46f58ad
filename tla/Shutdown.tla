------------------------------ MODULE Shutdown ------------------------------
(***************************************************************************)
(* How a program that logs comes to its end.  Each thread has a logger,    *)
(* thread_local (Logger::logger()) or static (Logger::global_logger()),    *)
(* and each logger a worker.  A thread or a worker that receives a signal, *)
(* a thread whose check fails or that logs a fatal entry, and the return   *)
(* from main all end in std::exit.  It destroys the thread_local loggers   *)
(* of the calling thread, no others, and then the static ones; destroying  *)
(* a logger stops its worker and joins it.                                 *)
(*                                                                         *)
(* Entries are counted, the queue between thread and worker is the one of  *)
(* LogPipeline.  The actors are the threads <<"f", t>> and the workers     *)
(* <<"w", t>>.                                                             *)
(***************************************************************************)
EXTENDS Integers, Sequences

CONSTANTS Threads, Main, Statics,   \* Statics: the threads that use a static logger
          MaxEntries                \* bound: entries logged per thread

ASSUME ShutdownConstants ==
  Main \in Threads /\ Statics \subseteq Threads /\ (\A s, t \in Statics : s = t) /\ MaxEntries \in Nat

VARIABLES pc,        \* of each actor: "off", "run", "join", "exit", "exitjoin", "done"
          after,     \* what a thread does once stop() returns: "run" or "terminate"
          doomed,    \* of each actor: the loggers it has yet to destroy
          running,   \* status_ = kRunning
          shutdown,  \* shutdown_required_
          joining,   \* some thread is in worker_thread_.join()
          destroyed, \* the loggers that are no more
          accepted, delivered,
          process,   \* "up", "ended" or "nested": by an exit inside another
          by,        \* ghost: the actor whose exit ended the process
          owed,      \* ghost: what each logger had accepted when its worker was asked to end
          crashed    \* ghost: a worker has received a signal

queue == <<running, shutdown, joining, destroyed>>
ghosts == <<by, owed, crashed>>
vars == <<pc, after, doomed, queue, accepted, delivered, process, ghosts>>

F(t) == <<"f", t>>
W(t) == <<"w", t>>
Actors == {"f", "w"} \X Threads

Init == /\ pc = [x \in Actors |-> IF x[1] = "f" THEN "run" ELSE "off"]
        /\ after = [t \in Threads |-> "run"] /\ doomed = [x \in Actors |-> <<>>]
        /\ running = [t \in Threads |-> FALSE] /\ shutdown = [t \in Threads |-> FALSE]
        /\ joining = [t \in Threads |-> FALSE] /\ destroyed = {}
        /\ accepted = [t \in Threads |-> 0] /\ delivered = [t \in Threads |-> 0]
        /\ process = "up" /\ by = F(Main) /\ owed = accepted
        /\ crashed = FALSE

Up(x, at) == process = "up" /\ pc[x] = at
Go(x, to) == pc' = [pc EXCEPT ![x] = to]
-----------------------------------------------------------------------------
(* Logging *)

StartWorker(t) ==
  /\ Up(F(t), "run") /\ t \notin destroyed /\ pc[W(t)] = "off"
  /\ Go(W(t), "run") /\ running' = [running EXCEPT ![t] = TRUE]
  /\ UNCHANGED <<after, doomed, shutdown, joining, destroyed, accepted, delivered, process, ghosts>>

Log(t) ==
  /\ Up(F(t), "run") /\ running[t] /\ accepted[t] < MaxEntries
  /\ accepted' = [accepted EXCEPT ![t] = @ + 1]
  /\ UNCHANGED <<pc, after, doomed, queue, delivered, process, ghosts>>

Deliver(t) ==
  /\ Up(W(t), "run") /\ delivered[t] < accepted[t]
  /\ delivered' = [delivered EXCEPT ![t] = @ + 1]
  /\ UNCHANGED <<pc, after, doomed, queue, accepted, process, ghosts>>

\* A slip: the worker ends as soon as it is asked to.
LeavesAtOnce(t) == shutdown[t]

\* run_loop takes what is left in the queue before it ends.
Leaves(t) == shutdown[t] /\ delivered[t] = accepted[t]

WorkerEnds(t) ==
  /\ Up(W(t), "run") /\ Leaves(t) /\ Go(W(t), "done")
  /\ UNCHANGED <<after, doomed, queue, accepted, delivered, process, ghosts>>

\* A slip: stop() does not set shutdown_required_.
ShutNot(l, n) == UNCHANGED <<shutdown, owed>>

\* shutdown_required_ of logger l, which has accepted n entries.
Shut(l, n) == /\ shutdown' = [shutdown EXCEPT ![l] = TRUE]
              /\ owed' = IF shutdown[l] THEN owed ELSE [owed EXCEPT ![l] = n]

\* stop(), by stop_worker() or by a fatal entry, which is followed by terminate.
Stop(t, then) ==
  LET n == IF then = "terminate" /\ accepted[t] < MaxEntries THEN accepted[t] + 1 ELSE accepted[t] IN
  /\ Up(F(t), "run") /\ running[t] /\ ~joining[t]
  /\ accepted' = [accepted EXCEPT ![t] = n] /\ Shut(t, n)
  /\ joining' = [joining EXCEPT ![t] = TRUE]
  /\ after' = [after EXCEPT ![t] = then] /\ Go(F(t), "join")
  /\ UNCHANGED <<doomed, running, destroyed, delivered, process, by, crashed>>
-----------------------------------------------------------------------------
(* The ways to std::exit *)

\* The thread_local logger of the calling thread; a worker has none.
OwnLogger(x) == IF x[1] = "f" /\ x[2] \notin Statics THEN <<x[2]>> ELSE <<>>

\* The loggers exit destroys, in its order.
Doomed(x) == OwnLogger(x) \o (IF Statics = {} THEN <<>> ELSE <<CHOOSE s \in Statics : TRUE>>)

\* std::exit, on the stack of whatever the actor was doing.
Exit(x) ==
  /\ Go(x, "exit") /\ doomed' = [doomed EXCEPT ![x] = Doomed(x)]

\* signal_handler: prints where the signal struck and exits, also from within stop().
Signal(x) ==
  /\ process = "up" /\ pc[x] \in {"run", "join"}
  /\ Exit(x) /\ crashed' = (crashed \/ x[1] = "w")
  /\ UNCHANGED <<after, queue, accepted, delivered, process, by, owed>>

\* terminate_handler, once stop() has returned after a fatal entry.
Stopped(t) ==
  /\ Up(F(t), "join") /\ pc[W(t)] = "done"
  /\ running' = [running EXCEPT ![t] = FALSE] /\ joining' = [joining EXCEPT ![t] = FALSE]
  /\ IF after[t] = "terminate" THEN Exit(F(t))
                               ELSE Go(F(t), "run") /\ UNCHANGED doomed
  /\ UNCHANGED <<after, shutdown, destroyed, accepted, delivered, process, ghosts>>

\* stop() while an exit elsewhere waits for the same worker: join throws.
StopThrows(t) ==
  /\ Up(F(t), "run") /\ running[t] /\ joining[t] /\ Exit(F(t))
  /\ UNCHANGED <<after, queue, accepted, delivered, process, ghosts>>

\* A failed check: CheckFailureStream's destructor terminates.
CheckFails(t) ==
  /\ Up(F(t), "run") /\ Exit(F(t))
  /\ UNCHANGED <<after, queue, accepted, delivered, process, ghosts>>

\* A thread returns: its own logger is destroyed.  The main one calls exit.
Return(t) ==
  /\ Up(F(t), "run")
  /\ IF t = Main THEN Exit(F(t))
     ELSE /\ Go(F(t), "exit") /\ doomed' = [doomed EXCEPT ![F(t)] = OwnLogger(F(t))]
  /\ after' = [after EXCEPT ![t] = "return"]
  /\ UNCHANGED <<queue, accepted, delivered, process, ghosts>>
-----------------------------------------------------------------------------
(* The destructors *)

\* A slip: neither status_ nor joinable() is looked at.
NeedsStopAlways(l) == pc[W(l)] # "off"

NeedsStop(l) == running[l]

\* join() throws in the worker itself, and while another join is under way;
\* there is nothing to join once the worker has been joined.
JoinThrows(x, l) == x = W(l) \/ joining[l] \/ ~running[l]

\* ~InternalLogger of a logger whose worker does not run.
Destroy(x) ==
  /\ Up(x, "exit") /\ doomed[x] # <<>> /\ ~NeedsStop(Head(doomed[x]))
  /\ doomed' = [doomed EXCEPT ![x] = Tail(@)]
  /\ destroyed' = destroyed \cup {Head(doomed[x])}
  /\ UNCHANGED <<pc, after, running, shutdown, joining, accepted, delivered, process, ghosts>>

\* ~InternalLogger of one whose worker runs: stop().  A join that throws in a
\* destructor terminates, and terminate_handler exits within exit.
DestroyRunning(x) ==
  /\ Up(x, "exit") /\ doomed[x] # <<>> /\ NeedsStop(Head(doomed[x]))
  /\ LET l == Head(doomed[x]) IN
     /\ Shut(l, accepted[l])
     /\ IF JoinThrows(x, l)
        THEN process' = "nested" /\ by' = x /\ UNCHANGED <<pc, joining>>
        ELSE Go(x, "exitjoin") /\ joining' = [joining EXCEPT ![l] = TRUE] /\ UNCHANGED <<process, by>>
  /\ UNCHANGED <<after, doomed, running, destroyed, accepted, delivered, crashed>>

ExitJoined(x) ==
  /\ Up(x, "exitjoin") /\ pc[W(Head(doomed[x]))] = "done"
  /\ running' = [running EXCEPT ![Head(doomed[x])] = FALSE]
  /\ joining' = [joining EXCEPT ![Head(doomed[x])] = FALSE]
  /\ doomed' = [doomed EXCEPT ![x] = Tail(@)] /\ Go(x, "exit")
  /\ destroyed' = destroyed \cup {Head(doomed[x])}
  /\ UNCHANGED <<after, shutdown, accepted, delivered, process, ghosts>>

\* All is destroyed: the thread is over, or the process.
Ends(x) ==
  /\ Up(x, "exit") /\ doomed[x] = <<>>
  /\ Go(x, "done")
  /\ IF x[1] = "f" /\ x[2] # Main /\ after[x[2]] = "return" THEN UNCHANGED <<process, by>>
                                                           ELSE process' = "ended" /\ by' = x
  /\ UNCHANGED <<after, doomed, queue, accepted, delivered, owed, crashed>>

Over == process # "up" /\ UNCHANGED vars

Exits(x) == Destroy(x) \/ DestroyRunning(x) \/ ExitJoined(x) \/ Ends(x)

Next == \/ \E t \in Threads :
             \/ StartWorker(t) \/ Log(t) \/ Deliver(t) \/ WorkerEnds(t)
             \/ Stopped(t) \/ StopThrows(t) \/ CheckFails(t) \/ Return(t)
             \/ \E then \in {"run", "terminate"} : Stop(t, then)
        \/ \E x \in Actors : Signal(x) \/ Exits(x)
        \/ Over

\* A thread that may run does, in the destructors and in the worker.
Fairness == /\ \A x \in Actors : WF_vars(Exits(x))
            /\ \A t \in Threads : WF_vars(Deliver(t)) /\ WF_vars(WorkerEnds(t)) /\ WF_vars(Stopped(t))

Spec == Init /\ [][Next]_vars /\ Fairness
-----------------------------------------------------------------------------
\* A process that ends by an exit in one of its threads has delivered all that
\* the loggers it destroys, that thread's own and the static one, accepted
\* before their workers were asked to end.  A thread that returns has
\* delivered all of its own.
ExitDrains ==
  /\ process = "ended" /\ by[1] = "f" =>
       \A l \in {by[2]} \cup Statics : delivered[l] >= IF shutdown[l] THEN owed[l] ELSE accepted[l]
  /\ \A t \in Threads \ Statics : pc[F(t)] = "done" => delivered[t] = accepted[t]

\* An exit within an exit needs a signal in a worker, or a stop() of the same
\* logger, of another thread or interrupted by a signal, that still waits in
\* its join; a logger that was stopped before, by its user or after a fatal
\* entry, is destroyed without one.
NestedExitExplained == process = "nested" => crashed \/ joining[Head(doomed[by])]

\* Once a thread or a worker exits, the process ends (a thread that returns
\* ends itself): no destructor waits for ever.
ExitsEnd == \A x \in Actors : (pc[x] = "exit") ~> (process # "up" \/ pc[x] = "done")
=============================================================================
