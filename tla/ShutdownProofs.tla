--------------------------- MODULE ShutdownProofs ---------------------------
(***************************************************************************)
(* What an exit delivers, proved for any number of threads, any number of  *)
(* entries and every place an exit may begin.                              *)
(***************************************************************************)
EXTENDS Shutdown, TLAPS

Values(s) == {s[i] : i \in DOMAIN s}

Types ==
  /\ pc \in [Actors -> {"off", "run", "join", "exit", "exitjoin", "done"}]
  /\ after \in [Threads -> {"run", "terminate", "return"}]
  /\ doomed \in [Actors -> Seq(Threads)]
  /\ running \in [Threads -> BOOLEAN] /\ shutdown \in [Threads -> BOOLEAN]
  /\ joining \in [Threads -> BOOLEAN] /\ destroyed \in SUBSET Threads
  /\ accepted \in [Threads -> Nat] /\ delivered \in [Threads -> Nat] /\ owed \in [Threads -> Nat]
  /\ process \in {"up", "ended", "nested"} /\ by \in Actors

Owed(l) == IF shutdown[l] THEN owed[l] ELSE accepted[l]

\* All that logger l owes its user has been delivered.
Drained(l) == /\ delivered[l] >= Owed(l)
              /\ l \notin Statics => delivered[l] = accepted[l]

\* A worker that has ended, and so one that is not running any more, has
\* drained its queue.
EndedDrained ==
  \A l \in Threads : /\ owed[l] <= accepted[l]
                     /\ pc[W(l)] = "done" => shutdown[l] /\ Drained(l)
                     /\ ~running[l] => Drained(l)

\* Only its own thread asks the worker of a thread_local logger to end, and
\* does not log again before it has.
OwnStop ==
  \A t \in Threads \ Statics : shutdown[t] /\ running[t] => pc[F(t)] # "run"

\* A worker that was never started has not been asked to end.
NotStarted == \A l \in Threads : pc[W(l)] = "off" => ~running[l] /\ ~shutdown[l]

\* A thread that returns destroys its own logger, no other.
Returns(x) == x[1] = "f" /\ x[2] # Main /\ after[x[2]] = "return"

Exiting(x) == pc[x] \in {"exit", "exitjoin"}

\* An actor in exit has destroyed the loggers it must, or has them before it,
\* and it destroys no others.
ExitOf(x) ==
  /\ pc[x] = "exitjoin" => doomed[x] # <<>>
  /\ \A l \in Values(doomed[x]) : l \in Statics \/ x = F(l)
  /\ \A t \in Threads \ Statics : x = F(t) => t \in destroyed \cup Values(doomed[x])
  /\ ~Returns(x) => Statics \subseteq destroyed \cup Values(doomed[x])
  /\ x[1] = "w" => crashed

ExitsDestroy == \A x \in Actors : Exiting(x) => ExitOf(x)

Stays ==
  /\ \A l \in destroyed : ~running[l]
  /\ \A t \in Threads \ Statics : pc[F(t)] = "done" => ~running[t]

UpInvariant == Types /\ EndedDrained /\ OwnStop /\ NotStarted /\ ExitsDestroy /\ Stays

ShutdownInvariant ==
  /\ process = "up" => UpInvariant
  /\ ExitDrains /\ NestedExitExplained
-----------------------------------------------------------------------------
LEMMA ActorFacts ==
  /\ \A t \in Threads : /\ F(t) \in Actors /\ W(t) \in Actors
                        /\ F(t)[1] = "f" /\ F(t)[2] = t /\ W(t)[1] = "w" /\ W(t)[2] = t
  /\ \A t, u \in Threads : F(t) # W(u) /\ (F(t) = F(u) => t = u) /\ (W(t) = W(u) => t = u)
  /\ \A x \in Actors : /\ x[2] \in Threads
                       /\ (x[1] = "f" /\ x = F(x[2])) \/ (x[1] = "w" /\ x = W(x[2]))
<1>1. ASSUME NEW x \in Actors
      PROVE  x[2] \in Threads /\ ((x[1] = "f" /\ x = F(x[2])) \/ (x[1] = "w" /\ x = W(x[2])))
  <2>1. PICK a \in {"f", "w"}, t \in Threads : x = <<a, t>>
    BY DEF Actors
  <2>2. x[1] = a /\ x[2] = t
    BY <2>1
  <2>. QED
    BY <2>1, <2>2 DEF F, W
<1>. QED
  BY <1>1 DEF Actors, F, W

LEMMA ValuesOfEmpty == Values(<<>>) = {}
BY DEF Values

LEMMA ValuesOfTail ==
  ASSUME NEW S, NEW s \in Seq(S), s # <<>>
  PROVE  /\ Head(s) \in S /\ Tail(s) \in Seq(S)
         /\ Head(s) \in Values(s)
         /\ Values(Tail(s)) \subseteq Values(s)
         /\ Values(s) \subseteq Values(Tail(s)) \cup {Head(s)}
<1>1. Head(s) \in S /\ Tail(s) \in Seq(S) /\ Head(s) = s[1] /\ 1 \in DOMAIN s
  OBVIOUS
<1>2. ASSUME NEW i \in DOMAIN Tail(s) PROVE Tail(s)[i] \in Values(s)
  <2>1. i + 1 \in DOMAIN s /\ Tail(s)[i] = s[i + 1]
    OBVIOUS
  <2>. QED
    BY <2>1 DEF Values
<1>3. ASSUME NEW i \in DOMAIN s PROVE s[i] = Head(s) \/ s[i] \in Values(Tail(s))
  <2>1. CASE i = 1
    BY <2>1, <1>1
  <2>2. CASE i # 1
    <3>1. i - 1 \in DOMAIN Tail(s) /\ Tail(s)[i - 1] = s[i]
      BY <2>2
    <3>. QED
      BY <3>1 DEF Values
  <2>. QED
    BY <2>1, <2>2
<1>. QED
  BY <1>1, <1>2, <1>3 DEF Values

\* What exit is about to destroy.
LEMMA DoomedFacts ==
  ASSUME NEW x \in Actors
  PROVE  /\ OwnLogger(x) \in Seq(Threads) /\ Doomed(x) \in Seq(Threads)
         /\ Values(OwnLogger(x)) = IF x[1] = "f" /\ x[2] \notin Statics THEN {x[2]} ELSE {}
         /\ Values(Doomed(x)) = Values(OwnLogger(x)) \cup Statics
<1> DEFINE s == CHOOSE s \in Statics : TRUE
<1>1. x[2] \in Threads
  BY ActorFacts
<1>2. /\ OwnLogger(x) \in Seq(Threads)
      /\ Values(OwnLogger(x)) = IF x[1] = "f" /\ x[2] \notin Statics THEN {x[2]} ELSE {}
  BY <1>1 DEF OwnLogger, Values
<1>3. CASE Statics = {}
  <2>1. Doomed(x) = OwnLogger(x)
    BY <1>2, <1>3 DEF Doomed
  <2>. QED
    BY <1>2, <1>3, <2>1
<1>4. CASE Statics # {}
  <2>1. s \in Statics /\ Statics = {s} /\ s \in Threads
    BY <1>4, ShutdownConstants
  <2> HIDE DEF s
  <2>2. Doomed(x) = OwnLogger(x) \o <<s>>
    BY <1>4 DEF Doomed, s
  <2>3. Doomed(x) \in Seq(Threads)
    BY <1>2, <2>1, <2>2
  <2>4. Values(OwnLogger(x) \o <<s>>) = Values(OwnLogger(x)) \cup {s}
    <3>1. CASE x[1] = "f" /\ x[2] \notin Statics
      BY <3>1 DEF OwnLogger, Values
    <3>2. CASE ~(x[1] = "f" /\ x[2] \notin Statics)
      <4>1. OwnLogger(x) = <<>>
        BY <3>2 DEF OwnLogger
      <4>2. <<>> \o <<s>> = <<s>> /\ Values(<<s>>) = {s}
        BY DEF Values
      <4>. QED
        BY <4>1, <4>2, ValuesOfEmpty
    <3>. QED
      BY <3>1, <3>2
  <2>. QED
    BY <1>2, <2>1, <2>2, <2>3, <2>4
<1>. QED
  BY <1>3, <1>4
-----------------------------------------------------------------------------
\* The steps by their effect.
Steps ==
  \/ \E t \in Threads :
       \/ StartWorker(t) \/ Log(t) \/ Deliver(t) \/ WorkerEnds(t)
       \/ Stopped(t) \/ StopThrows(t) \/ CheckFails(t) \/ Return(t)
       \/ Stop(t, "run") \/ Stop(t, "terminate")
  \/ \E x \in Actors :
       Signal(x) \/ Destroy(x) \/ DestroyRunning(x) \/ ExitJoined(x) \/ Ends(x)

LEMMA NextIsSteps == ASSUME process = "up", Next PROVE Steps
BY DEF Next, Exits, Over, Steps

\* The logger a destructor is at.
LEMMA AtHead ==
  ASSUME UpInvariant, NEW x \in Actors, Exiting(x), doomed[x] # <<>>
  PROVE  /\ Head(doomed[x]) \in Threads /\ Tail(doomed[x]) \in Seq(Threads)
         /\ Head(doomed[x]) \in Statics \/ x = F(Head(doomed[x]))
<1>1. doomed[x] \in Seq(Threads)
  BY DEF UpInvariant, Types
<1>. QED
  BY <1>1, ValuesOfTail DEF UpInvariant, ExitsDestroy, ExitOf

LEMMA TypesStep == ASSUME UpInvariant, Steps PROVE Types'
<1> USE DEF UpInvariant, Types, Up, Go, queue, ghosts
<1>1. ASSUME NEW t \in Threads, StartWorker(t) PROVE Types'
  <2>1. W(t) \in Actors
    BY ActorFacts
  <2>. QED
    BY <1>1, <2>1 DEF StartWorker
<1>2. ASSUME NEW t \in Threads, Log(t) PROVE Types'
  <2>1. accepted' \in [Threads -> Nat]
    BY <1>2 DEF Log
  <2>. QED
    BY <1>2, <2>1 DEF Log
<1>3. ASSUME NEW t \in Threads, Deliver(t) PROVE Types'
  <2>1. W(t) \in Actors
    BY ActorFacts
  <2>. QED
    BY <1>3, <2>1 DEF Deliver
<1>4. ASSUME NEW t \in Threads, WorkerEnds(t) PROVE Types'
  <2>1. W(t) \in Actors
    BY ActorFacts
  <2>. QED
    BY <1>4, <2>1 DEF WorkerEnds
<1>5. ASSUME NEW t \in Threads, Stopped(t) PROVE Types'
  <2>1. F(t) \in Actors /\ Doomed(F(t)) \in Seq(Threads) /\ OwnLogger(F(t)) \in Seq(Threads)
    BY ActorFacts, DoomedFacts
  <2>. QED
    BY <1>5, <2>1 DEF Stopped, Exit
<1>6. ASSUME NEW t \in Threads, StopThrows(t) PROVE Types'
  <2>1. F(t) \in Actors /\ Doomed(F(t)) \in Seq(Threads) /\ OwnLogger(F(t)) \in Seq(Threads)
    BY ActorFacts, DoomedFacts
  <2>. QED
    BY <1>6, <2>1 DEF StopThrows, Exit
<1>7. ASSUME NEW t \in Threads, CheckFails(t) PROVE Types'
  <2>1. F(t) \in Actors /\ Doomed(F(t)) \in Seq(Threads) /\ OwnLogger(F(t)) \in Seq(Threads)
    BY ActorFacts, DoomedFacts
  <2>. QED
    BY <1>7, <2>1 DEF CheckFails, Exit
<1>8. ASSUME NEW t \in Threads, Return(t) PROVE Types'
  <2>1. F(t) \in Actors /\ Doomed(F(t)) \in Seq(Threads) /\ OwnLogger(F(t)) \in Seq(Threads)
    BY ActorFacts, DoomedFacts
  <2>. QED
    BY <1>8, <2>1 DEF Return, Exit
<1>9. ASSUME NEW t \in Threads, NEW then \in {"run", "terminate"}, Stop(t, then) PROVE Types'
  <2>1. F(t) \in Actors
    BY ActorFacts
  <2>. QED
    BY <1>9, <2>1 DEF Stop, Shut
<1>10. ASSUME NEW x \in Actors, Signal(x) PROVE Types'
  BY <1>10, DoomedFacts DEF Signal, Exit
<1>11. ASSUME NEW x \in Actors, Ends(x) PROVE Types'
  BY <1>11 DEF Ends
<1>12. ASSUME NEW x \in Actors, Destroy(x) PROVE Types'
  <2>1. doomed[x] # <<>> /\ Exiting(x)
    BY <1>12 DEF Destroy, ExitsDestroy, ExitOf, Exiting
  <2>2. Head(doomed[x]) \in Threads /\ Tail(doomed[x]) \in Seq(Threads)
    BY <2>1, AtHead
  <2>. QED
    BY <1>12, <2>2 DEF Destroy, Shut
<1>13. ASSUME NEW x \in Actors, DestroyRunning(x) PROVE Types'
  <2>1. doomed[x] # <<>> /\ Exiting(x)
    BY <1>13 DEF DestroyRunning, ExitsDestroy, ExitOf, Exiting
  <2>2. Head(doomed[x]) \in Threads /\ Tail(doomed[x]) \in Seq(Threads)
    BY <2>1, AtHead
  <2>. QED
    BY <1>13, <2>2 DEF DestroyRunning, Shut
<1>14. ASSUME NEW x \in Actors, ExitJoined(x) PROVE Types'
  <2>1. doomed[x] # <<>> /\ Exiting(x)
    BY <1>14 DEF ExitJoined, ExitsDestroy, ExitOf, Exiting
  <2>2. Head(doomed[x]) \in Threads /\ Tail(doomed[x]) \in Seq(Threads)
    BY <2>1, AtHead
  <2>. QED
    BY <1>14, <2>2 DEF ExitJoined, Shut
<1>. QED
  BY <1>1, <1>2, <1>3, <1>4, <1>5, <1>6, <1>7, <1>8, <1>9, <1>10, <1>11, <1>12, <1>13, <1>14, Zenon DEF Steps

\* Most steps deliver nothing and ask nobody to end.
LEMMA DrainedStays ==
  ASSUME UpInvariant, UNCHANGED <<accepted, delivered, owed, shutdown>>,
         \A l \in Threads : pc'[W(l)] = "done" => pc[W(l)] = "done",
         \A l \in Threads : ~running'[l] => ~running[l] \/ pc[W(l)] = "done"
  PROVE  EndedDrained'
BY DEF UpInvariant, EndedDrained, Drained, Owed

\* The program counters after a step of one actor.
LEMMA PcAfter ==
  ASSUME Types, NEW x \in Actors, NEW to, Go(x, to)
  PROVE  \A y \in Actors : pc'[y] = IF y = x THEN to ELSE pc[y]
BY DEF Types, Go

LEMMA DrainedStep == ASSUME UpInvariant, Steps, process' = "up" PROVE EndedDrained'
<1> USE DEF Up, queue, ghosts
<1>0. Types
  BY DEF UpInvariant
<1>1. ASSUME NEW t \in Threads, StartWorker(t) PROVE EndedDrained'
  <2>1. \A l \in Threads : pc'[W(l)] = IF l = t THEN "run" ELSE pc[W(l)]
    BY <1>0, <1>1, PcAfter, ActorFacts DEF StartWorker
  <2>. QED
    BY <1>0, <1>1, <2>1, DrainedStays DEF StartWorker, Types
<1>2. ASSUME NEW t \in Threads, Log(t) PROVE EndedDrained'
  BY <1>2 DEF Log, UpInvariant, Types, EndedDrained, Drained, Owed, OwnStop
<1>3. ASSUME NEW t \in Threads, Deliver(t) PROVE EndedDrained'
  BY <1>3 DEF Deliver, UpInvariant, Types, EndedDrained, Drained, Owed
<1>4. ASSUME NEW t \in Threads, WorkerEnds(t) PROVE EndedDrained'
  <2>1. \A l \in Threads : pc'[W(l)] = IF l = t THEN "done" ELSE pc[W(l)]
    BY <1>0, <1>4, PcAfter, ActorFacts DEF WorkerEnds
  <2>. QED
    BY <1>4, <2>1 DEF WorkerEnds, Leaves, UpInvariant, Types, EndedDrained, Drained, Owed
<1>5. ASSUME NEW t \in Threads, Stopped(t) PROVE EndedDrained'
  <2>1. \A l \in Threads : pc'[W(l)] = pc[W(l)]
    BY <1>0, <1>5, PcAfter, ActorFacts DEF Stopped, Exit
  <2>. QED
    BY <1>0, <1>5, <2>1, DrainedStays DEF Stopped, Types
<1>6. ASSUME NEW t \in Threads, StopThrows(t) \/ CheckFails(t) \/ Return(t) PROVE EndedDrained'
  <2>1. \A l \in Threads : pc'[W(l)] = pc[W(l)]
    BY <1>0, <1>6, PcAfter, ActorFacts DEF StopThrows, CheckFails, Return, Exit
  <2>. QED
    BY <1>6, <2>1, DrainedStays DEF StopThrows, CheckFails, Return
<1>7. ASSUME NEW t \in Threads, NEW then \in {"run", "terminate"}, Stop(t, then) PROVE EndedDrained'
  <2>1. \A l \in Threads : pc'[W(l)] = pc[W(l)]
    BY <1>0, <1>7, PcAfter, ActorFacts DEF Stop
  <2>2. /\ running[t] /\ pc[F(t)] = "run" /\ running' = running /\ delivered' = delivered
        /\ shutdown' = [shutdown EXCEPT ![t] = TRUE]
        /\ \A l \in Threads \ {t} : accepted'[l] = accepted[l] /\ owed'[l] = owed[l]
        /\ accepted'[t] >= accepted[t]
        /\ owed'[t] = IF shutdown[t] THEN owed[t] ELSE accepted'[t]
    BY <1>7 DEF Stop, Shut, UpInvariant, Types
  <2>3. accepted' \in [Threads -> Nat] /\ owed' \in [Threads -> Nat]
    BY TypesStep DEF Types
  <2>4. ASSUME NEW l \in Threads, l # t
        PROVE  /\ owed'[l] <= accepted'[l]
               /\ pc'[W(l)] = "done" => shutdown'[l] /\ Drained(l)'
               /\ ~running'[l] => Drained(l)'
    BY <2>1, <2>2, <2>4 DEF UpInvariant, Types, EndedDrained, Drained, Owed
  <2>5. /\ owed'[t] <= accepted'[t]
        /\ pc'[W(t)] = "done" => shutdown'[t] /\ Drained(t)'
    <3>1. /\ owed[t] \in Nat /\ accepted[t] \in Nat /\ accepted'[t] \in Nat
          /\ owed[t] <= accepted[t] /\ shutdown'[t] = TRUE
      BY <2>2, <2>3 DEF UpInvariant, Types, EndedDrained
    <3>2. owed'[t] <= accepted'[t]
      BY <2>2, <3>1
    <3>3. pc[W(t)] = "done" => shutdown[t] /\ t \in Statics /\ delivered[t] >= owed[t]
      BY <2>2 DEF UpInvariant, EndedDrained, Drained, Owed, OwnStop
    <3>. QED
      BY <2>1, <2>2, <3>1, <3>2, <3>3 DEF Drained, Owed
  <2>. QED
    BY <2>2, <2>4, <2>5 DEF EndedDrained
<1>8. ASSUME NEW x \in Actors, Signal(x) PROVE EndedDrained'
  <2>1. \A y \in Actors : pc'[y] = IF y = x THEN "exit" ELSE pc[y]
    BY <1>0, <1>8, PcAfter DEF Signal, Exit
  <2>. QED
    BY <1>8, <2>1, DrainedStays, ActorFacts DEF Signal
<1>9. ASSUME NEW x \in Actors, Destroy(x) PROVE EndedDrained'
  BY <1>9, DrainedStays DEF Destroy
<1>10. ASSUME NEW x \in Actors, DestroyRunning(x) PROVE EndedDrained'
  <2> DEFINE l0 == Head(doomed[x])
  <2>1. l0 \in Threads
    BY <1>10, AtHead DEF DestroyRunning, Exiting
  <2>2. \A y \in Actors : pc'[y] = "done" => pc[y] = "done"
    <3>1. CASE Go(x, "exitjoin")
      BY <1>0, <3>1, PcAfter
    <3>2. CASE pc' = pc
      BY <3>2
    <3>. QED
      BY <1>10, <3>1, <3>2 DEF DestroyRunning
  <2>3. /\ running[l0] /\ UNCHANGED <<running, delivered, accepted>>
        /\ shutdown' = [shutdown EXCEPT ![l0] = TRUE]
        /\ owed' = IF shutdown[l0] THEN owed ELSE [owed EXCEPT ![l0] = accepted[l0]]
    BY <1>10 DEF DestroyRunning, NeedsStop, Shut
  <2> HIDE DEF l0
  <2>. QED
    BY <2>1, <2>2, <2>3, ActorFacts DEF UpInvariant, Types, EndedDrained, Drained, Owed
<1>11. ASSUME NEW x \in Actors, ExitJoined(x) PROVE EndedDrained'
  <2> DEFINE l0 == Head(doomed[x])
  <2>1. l0 \in Threads
    BY <1>11, AtHead DEF ExitJoined, Exiting, UpInvariant, ExitsDestroy, ExitOf
  <2>2. \A y \in Actors : pc'[y] = IF y = x THEN "exit" ELSE pc[y]
    BY <1>0, <1>11, PcAfter DEF ExitJoined
  <2>3. /\ running' = [running EXCEPT ![l0] = FALSE] /\ pc[W(l0)] = "done"
        /\ UNCHANGED <<accepted, delivered, owed, shutdown>>
    BY <1>11 DEF ExitJoined
  <2> HIDE DEF l0
  <2>. QED
    BY <1>0, <2>1, <2>2, <2>3, DrainedStays, ActorFacts, SMTT(30) DEF Types
<1>12. ASSUME NEW x \in Actors, Ends(x) PROVE EndedDrained'
  <2>1. \A y \in Actors : pc'[y] = IF y = x THEN "done" ELSE pc[y]
    BY <1>0, <1>12, PcAfter DEF Ends
  <2>2. x[1] = "f"
    BY <1>12 DEF Ends
  <2>. QED
    BY <1>12, <2>1, <2>2, DrainedStays, ActorFacts DEF Ends
<1>. QED
  BY <1>1, <1>2, <1>3, <1>4, <1>5, <1>6, <1>7, <1>8, <1>9, <1>10, <1>11, <1>12, Zenon DEF Steps

LEMMA StopStep == ASSUME UpInvariant, Steps PROVE OwnStop' /\ NotStarted'
<1> USE DEF Up, queue, ghosts
<1>0. Types /\ OwnStop /\ NotStarted
  BY DEF UpInvariant
<1>1. ASSUME shutdown' = shutdown, \A l \in Threads : running'[l] => running[l],
             \A y \in Actors : pc'[y] \in {"off", "run"} => pc[y] = pc'[y]
      PROVE  OwnStop' /\ NotStarted'
  BY <1>0, <1>1, ActorFacts DEF OwnStop, NotStarted, Types
<1>2. ASSUME NEW t \in Threads, StartWorker(t) PROVE OwnStop' /\ NotStarted'
  <2>1. \A y \in Actors : pc'[y] = IF y = W(t) THEN "run" ELSE pc[y]
    BY <1>0, <1>2, PcAfter, ActorFacts DEF StartWorker
  <2>2. /\ shutdown' = shutdown /\ running' = [running EXCEPT ![t] = TRUE] /\ ~shutdown[t]
    BY <1>0, <1>2 DEF StartWorker, NotStarted
  <2>. QED
    BY <1>0, <2>1, <2>2, ActorFacts, SMTT(30) DEF OwnStop, NotStarted, Types
<1>3. ASSUME NEW t \in Threads, Log(t) \/ Deliver(t) PROVE OwnStop' /\ NotStarted'
  BY <1>1, <1>3 DEF Log, Deliver
<1>4. ASSUME NEW t \in Threads, WorkerEnds(t) PROVE OwnStop' /\ NotStarted'
  <2>1. \A y \in Actors : pc'[y] = IF y = W(t) THEN "done" ELSE pc[y]
    BY <1>0, <1>4, PcAfter, ActorFacts DEF WorkerEnds
  <2>. QED
    BY <1>1, <1>4, <2>1 DEF WorkerEnds
<1>5. ASSUME NEW t \in Threads, Stopped(t) PROVE OwnStop' /\ NotStarted'
  <2>1. \A y \in Actors : y # F(t) => pc'[y] = pc[y]
    BY <1>0, <1>5, PcAfter, ActorFacts DEF Stopped, Exit
  <2>2. shutdown' = shutdown /\ running' = [running EXCEPT ![t] = FALSE]
    BY <1>5 DEF Stopped
  <2>. QED
    BY <1>0, <2>1, <2>2, ActorFacts, SMTT(30) DEF OwnStop, NotStarted, Types
<1>6. ASSUME NEW t \in Threads, StopThrows(t) \/ CheckFails(t) \/ Return(t) PROVE OwnStop' /\ NotStarted'
  <2>1. \A y \in Actors : pc'[y] = IF y = F(t) THEN "exit" ELSE pc[y]
    BY <1>0, <1>6, PcAfter, ActorFacts DEF StopThrows, CheckFails, Return, Exit
  <2>. QED
    BY <1>1, <1>6, <2>1 DEF StopThrows, CheckFails, Return
<1>7. ASSUME NEW t \in Threads, NEW then \in {"run", "terminate"}, Stop(t, then)
      PROVE  OwnStop' /\ NotStarted'
  <2>1. \A y \in Actors : pc'[y] = IF y = F(t) THEN "join" ELSE pc[y]
    BY <1>0, <1>7, PcAfter, ActorFacts DEF Stop
  <2>2. running[t] /\ running' = running /\ shutdown' = [shutdown EXCEPT ![t] = TRUE]
    BY <1>7 DEF Stop, Shut
  <2>. QED
    BY <1>0, <2>1, <2>2, ActorFacts, SMTT(30) DEF OwnStop, NotStarted, Types
<1>8. ASSUME NEW x \in Actors, Signal(x) PROVE OwnStop' /\ NotStarted'
  <2>1. \A y \in Actors : pc'[y] = IF y = x THEN "exit" ELSE pc[y]
    BY <1>0, <1>8, PcAfter DEF Signal, Exit
  <2>. QED
    BY <1>1, <1>8, <2>1 DEF Signal
<1>9. ASSUME NEW x \in Actors, Destroy(x) PROVE OwnStop' /\ NotStarted'
  BY <1>1, <1>9 DEF Destroy
<1>10. ASSUME NEW x \in Actors, DestroyRunning(x) PROVE OwnStop' /\ NotStarted'
  <2> DEFINE l0 == Head(doomed[x])
  <2>1. l0 \in Threads /\ (l0 \in Statics \/ x = F(l0))
    BY <1>10, AtHead DEF DestroyRunning, Exiting
  <2>2. \A y \in Actors : pc'[y] \in {"off", "run"} => pc[y] = pc'[y] /\ y # x
    <3>1. CASE Go(x, "exitjoin")
      BY <1>0, <3>1, PcAfter
    <3>2. CASE pc' = pc
      BY <1>10, <3>2 DEF DestroyRunning
    <3>. QED
      BY <1>10, <3>1, <3>2 DEF DestroyRunning
  <2>3. /\ running[l0] /\ running' = running /\ shutdown' = [shutdown EXCEPT ![l0] = TRUE]
    BY <1>10 DEF DestroyRunning, NeedsStop, Shut
  <2> HIDE DEF l0
  <2>. QED
    BY <1>0, <2>1, <2>2, <2>3, ActorFacts, SMTT(30) DEF OwnStop, NotStarted, Types
<1>11. ASSUME NEW x \in Actors, ExitJoined(x) PROVE OwnStop' /\ NotStarted'
  <2>1. \A y \in Actors : pc'[y] = IF y = x THEN "exit" ELSE pc[y]
    BY <1>0, <1>11, PcAfter DEF ExitJoined
  <2>. QED
    BY <1>0, <1>1, <1>11, <2>1 DEF ExitJoined, Types
<1>12. ASSUME NEW x \in Actors, Ends(x) PROVE OwnStop' /\ NotStarted'
  <2>1. \A y \in Actors : pc'[y] = IF y = x THEN "done" ELSE pc[y]
    BY <1>0, <1>12, PcAfter DEF Ends
  <2>. QED
    BY <1>1, <1>12, <2>1 DEF Ends
<1>. QED
  BY <1>2, <1>3, <1>4, <1>5, <1>6, <1>7, <1>8, <1>9, <1>10, <1>11, <1>12, Zenon DEF Steps

\* An actor that was not in exit begins one.
LEMMA ExitBegins ==
  ASSUME UpInvariant, NEW x \in Actors, ~Exiting(x), NEW d,
         d = Doomed(x) \/ (d = OwnLogger(x) /\ Returns(x)'),
         Go(x, "exit"), doomed' = [doomed EXCEPT ![x] = d], destroyed' = destroyed,
         \A y \in Actors : y # x => (Returns(y)' <=> Returns(y)),
         crashed => crashed', x[1] = "w" => crashed'
  PROVE  ExitsDestroy'
<1>1. /\ \A y \in Actors : pc'[y] = IF y = x THEN "exit" ELSE pc[y]
      /\ \A y \in Actors : doomed'[y] = IF y = x THEN d ELSE doomed[y]
  BY PcAfter DEF UpInvariant, Types
<1>2. ASSUME NEW y \in Actors, Exiting(y)', y # x PROVE ExitOf(y)'
  <2>1. Exiting(y) /\ pc'[y] = pc[y] /\ doomed'[y] = doomed[y]
    BY <1>1, <1>2 DEF Exiting
  <2>. QED
    BY <1>2, <2>1 DEF UpInvariant, ExitsDestroy, ExitOf
<1>3. ExitOf(x)'
  <2>1. pc'[x] = "exit" /\ doomed'[x] = d
    BY <1>1
  <2>2. /\ Values(OwnLogger(x)) = IF x[1] = "f" /\ x[2] \notin Statics THEN {x[2]} ELSE {}
        /\ Values(Doomed(x)) = Values(OwnLogger(x)) \cup Statics
    BY DoomedFacts
  <2>3. \A l \in Values(d) : l \in Statics \/ x = F(l)
    BY <2>2, ActorFacts
  <2>4. \A t \in Threads \ Statics : x = F(t) => t \in Values(d)
    BY <2>2, ActorFacts
  <2>5. ~Returns(x)' => Statics \subseteq Values(d)
    BY <2>2
  <2>. QED
    BY <2>1, <2>3, <2>4, <2>5 DEF ExitOf
<1>. QED
  BY <1>2, <1>3 DEF ExitsDestroy

\* A destructor is done with the first logger before it.
LEMMA ExitGoesOn ==
  ASSUME UpInvariant, NEW x \in Actors, Exiting(x), doomed[x] # <<>>, pc'[x] = "exit",
         \A y \in Actors : y # x => pc'[y] = pc[y],
         doomed' = [doomed EXCEPT ![x] = Tail(@)], destroyed' = destroyed \cup {Head(doomed[x])},
         after' = after, crashed' = crashed
  PROVE  ExitsDestroy'
<1>1. \A y \in Actors : doomed'[y] = IF y = x THEN Tail(doomed[x]) ELSE doomed[y]
  BY DEF UpInvariant, Types
<1>2. ASSUME NEW y \in Actors, Exiting(y)', y # x PROVE ExitOf(y)'
  <2>1. Exiting(y) /\ pc'[y] = pc[y] /\ doomed'[y] = doomed[y] /\ (Returns(y)' <=> Returns(y))
    BY <1>1, <1>2 DEF Exiting, Returns
  <2>. QED
    BY <1>2, <2>1 DEF UpInvariant, ExitsDestroy, ExitOf
<1>3. ExitOf(x)'
  <2>1. /\ Values(Tail(doomed[x])) \subseteq Values(doomed[x])
        /\ Values(doomed[x]) \subseteq Values(Tail(doomed[x])) \cup {Head(doomed[x])}
    BY ValuesOfTail DEF UpInvariant, Types
  <2>2. doomed'[x] = Tail(doomed[x]) /\ (Returns(x)' <=> Returns(x))
    BY <1>1 DEF Returns
  <2>3. ExitOf(x)
    BY DEF UpInvariant, ExitsDestroy
  <2>. QED
    BY <2>1, <2>2, <2>3 DEF ExitOf
<1>. QED
  BY <1>2, <1>3 DEF ExitsDestroy

\* Nothing happens to the loggers before an actor in exit.
LEMMA ExitWaits ==
  ASSUME UpInvariant, UNCHANGED <<doomed, destroyed, crashed>>,
         \A y \in Actors : Exiting(y)' => /\ Exiting(y) /\ (Returns(y)' <=> Returns(y))
                                          /\ pc'[y] = "exitjoin" => doomed[y] # <<>>
  PROVE  ExitsDestroy'
<1>1. ASSUME NEW y \in Actors, Exiting(y)' PROVE ExitOf(y)'
  BY <1>1 DEF UpInvariant, ExitsDestroy, ExitOf
<1>. QED
  BY <1>1 DEF ExitsDestroy

LEMMA ExitsStep == ASSUME UpInvariant, Steps PROVE ExitsDestroy'
<1> USE DEF Up, queue, ghosts
<1>0. Types
  BY DEF UpInvariant
<1>1. ASSUME UNCHANGED <<doomed, destroyed, crashed, after>>,
             \A y \in Actors : Exiting(y)' => pc'[y] = pc[y]
      PROVE  ExitsDestroy'
  <2>1. ASSUME NEW y \in Actors, Exiting(y)'
        PROVE  /\ Exiting(y) /\ (Returns(y)' <=> Returns(y))
               /\ pc'[y] = "exitjoin" => doomed[y] # <<>>
    BY <1>1, <2>1 DEF Exiting, Returns, UpInvariant, ExitsDestroy, ExitOf
  <2>. QED
    BY <1>1, <2>1, ExitWaits
<1>2. ASSUME NEW t \in Threads, StartWorker(t) PROVE ExitsDestroy'
  <2>1. \A y \in Actors : pc'[y] = IF y = W(t) THEN "run" ELSE pc[y]
    BY <1>0, <1>2, PcAfter, ActorFacts DEF StartWorker
  <2>. QED
    BY <1>1, <1>2, <2>1 DEF StartWorker, Exiting
<1>3. ASSUME NEW t \in Threads, Log(t) \/ Deliver(t) PROVE ExitsDestroy'
  BY <1>1, <1>3 DEF Log, Deliver
<1>4. ASSUME NEW t \in Threads, WorkerEnds(t) PROVE ExitsDestroy'
  <2>1. \A y \in Actors : pc'[y] = IF y = W(t) THEN "done" ELSE pc[y]
    BY <1>0, <1>4, PcAfter, ActorFacts DEF WorkerEnds
  <2>. QED
    BY <1>1, <1>4, <2>1 DEF WorkerEnds, Exiting
<1>5. ASSUME NEW t \in Threads, Stopped(t) PROVE ExitsDestroy'
  <2>1. F(t) \in Actors /\ F(t)[1] = "f"
    BY ActorFacts
  <2>2. CASE after[t] = "terminate"
    BY <1>5, <2>1, <2>2, ExitBegins DEF Stopped, Exit, Exiting, Returns
  <2>3. CASE after[t] # "terminate"
    <3>1. \A y \in Actors : pc'[y] = IF y = F(t) THEN "run" ELSE pc[y]
      BY <1>0, <1>5, <2>1, <2>3, PcAfter DEF Stopped
    <3>. QED
      BY <1>1, <1>5, <2>3, <3>1 DEF Stopped, Exiting
  <2>. QED
    BY <2>2, <2>3
<1>6. ASSUME NEW t \in Threads, StopThrows(t) \/ CheckFails(t) PROVE ExitsDestroy'
  <2>1. F(t) \in Actors /\ F(t)[1] = "f"
    BY ActorFacts
  <2>. QED
    BY <1>6, <2>1, ExitBegins DEF StopThrows, CheckFails, Exit, Exiting, Returns
<1>7. ASSUME NEW t \in Threads, Return(t) PROVE ExitsDestroy'
  <2>1. F(t) \in Actors /\ F(t)[1] = "f" /\ F(t)[2] = t
    BY ActorFacts
  <2>2. \A y \in Actors : y # F(t) => (Returns(y)' <=> Returns(y))
    BY <1>0, <1>7, ActorFacts DEF Return, Returns, Types
  <2>3. PICK d : /\ d = Doomed(F(t)) \/ (d = OwnLogger(F(t)) /\ t # Main)
                 /\ Go(F(t), "exit") /\ doomed' = [doomed EXCEPT ![F(t)] = d]
    BY <1>7 DEF Return, Exit
  <2>4. t # Main => Returns(F(t))'
    BY <1>0, <1>7, <2>1 DEF Return, Returns, Types
  <2>. QED
    BY <1>7, <2>1, <2>2, <2>3, <2>4, ExitBegins DEF Return, Exiting
<1>8. ASSUME NEW t \in Threads, NEW then \in {"run", "terminate"}, Stop(t, then) PROVE ExitsDestroy'
  <2>1. \A y \in Actors : pc'[y] = IF y = F(t) THEN "join" ELSE pc[y]
    BY <1>0, <1>8, PcAfter, ActorFacts DEF Stop
  <2>2. \A y \in Actors : y # F(t) => (Returns(y)' <=> Returns(y))
    BY <1>0, <1>8, ActorFacts DEF Stop, Returns, Types
  <2>. QED
    BY <1>8, <2>1, <2>2, ExitWaits DEF Stop, Exiting, UpInvariant, ExitsDestroy, ExitOf
<1>9. ASSUME NEW x \in Actors, Signal(x) PROVE ExitsDestroy'
  BY <1>9, ExitBegins DEF Signal, Exit, Exiting, Returns
<1>10. ASSUME NEW x \in Actors, Destroy(x) PROVE ExitsDestroy'
  BY <1>10, ExitGoesOn DEF Destroy, Exiting
<1>11. ASSUME NEW x \in Actors, DestroyRunning(x) PROVE ExitsDestroy'
  <2>1. \A y \in Actors : y # x => pc'[y] = pc[y]
    BY <1>0, <1>11, PcAfter DEF DestroyRunning
  <2>. QED
    BY <1>11, <2>1, ExitWaits DEF DestroyRunning, Exiting, Returns, UpInvariant, ExitsDestroy, ExitOf
<1>12. ASSUME NEW x \in Actors, ExitJoined(x) PROVE ExitsDestroy'
  <2>1. \A y \in Actors : pc'[y] = IF y = x THEN "exit" ELSE pc[y]
    BY <1>0, <1>12, PcAfter DEF ExitJoined
  <2>2. Exiting(x) /\ doomed[x] # <<>>
    BY <1>12 DEF ExitJoined, Exiting, UpInvariant, ExitsDestroy, ExitOf
  <2>. QED
    BY <1>12, <2>1, <2>2, ExitGoesOn DEF ExitJoined
<1>13. ASSUME NEW x \in Actors, Ends(x) PROVE ExitsDestroy'
  <2>1. \A y \in Actors : pc'[y] = IF y = x THEN "done" ELSE pc[y]
    BY <1>0, <1>13, PcAfter DEF Ends
  <2>. QED
    BY <1>1, <1>13, <2>1 DEF Ends, Exiting
<1>. QED
  BY <1>2, <1>3, <1>4, <1>5, <1>6, <1>7, <1>8, <1>9, <1>10, <1>11, <1>12, <1>13, Zenon DEF Steps

LEMMA StaysStep == ASSUME UpInvariant, Steps PROVE Stays'
<1> USE DEF Up, queue, ghosts
<1>0. Types /\ Stays
  BY DEF UpInvariant
<1>1. ASSUME destroyed' = destroyed, \A l \in Threads : running'[l] => running[l],
             \A t \in Threads \ Statics : pc'[F(t)] = "done" => pc[F(t)] = "done"
      PROVE  Stays'
  BY <1>0, <1>1 DEF Stays, Types
<1>2. ASSUME NEW t \in Threads, StartWorker(t) PROVE Stays'
  <2>1. \A y \in Actors : pc'[y] = IF y = W(t) THEN "run" ELSE pc[y]
    BY <1>0, <1>2, PcAfter, ActorFacts DEF StartWorker
  <2>2. /\ destroyed' = destroyed /\ t \notin destroyed /\ pc[F(t)] = "run"
        /\ running' = [running EXCEPT ![t] = TRUE]
    BY <1>2 DEF StartWorker
  <2>. QED
    BY <1>0, <2>1, <2>2, ActorFacts DEF Stays, Types
<1>3. ASSUME NEW t \in Threads, Log(t) \/ Deliver(t) PROVE Stays'
  BY <1>1, <1>3 DEF Log, Deliver
<1>4. ASSUME NEW t \in Threads, WorkerEnds(t) PROVE Stays'
  <2>1. \A y \in Actors : pc'[y] = IF y = W(t) THEN "done" ELSE pc[y]
    BY <1>0, <1>4, PcAfter, ActorFacts DEF WorkerEnds
  <2>. QED
    BY <1>1, <1>4, <2>1, ActorFacts DEF WorkerEnds
<1>5. ASSUME NEW t \in Threads, Stopped(t) PROVE Stays'
  <2>1. \A y \in Actors : pc'[y] = pc[y] \/ pc'[y] # "done"
    BY <1>0, <1>5, PcAfter, ActorFacts DEF Stopped, Exit
  <2>2. \A l \in Threads : running'[l] => running[l]
    BY <1>0, <1>5 DEF Stopped, Types
  <2>. QED
    BY <1>1, <1>5, <2>1, <2>2, ActorFacts DEF Stopped
<1>6. ASSUME NEW t \in Threads, StopThrows(t) \/ CheckFails(t) \/ Return(t) PROVE Stays'
  <2>1. \A y \in Actors : pc'[y] = IF y = F(t) THEN "exit" ELSE pc[y]
    BY <1>0, <1>6, PcAfter, ActorFacts DEF StopThrows, CheckFails, Return, Exit
  <2>. QED
    BY <1>1, <1>6, <2>1, ActorFacts DEF StopThrows, CheckFails, Return
<1>7. ASSUME NEW t \in Threads, NEW then \in {"run", "terminate"}, Stop(t, then) PROVE Stays'
  <2>1. \A y \in Actors : pc'[y] = IF y = F(t) THEN "join" ELSE pc[y]
    BY <1>0, <1>7, PcAfter, ActorFacts DEF Stop
  <2>. QED
    BY <1>1, <1>7, <2>1, ActorFacts DEF Stop
<1>8. ASSUME NEW x \in Actors, Signal(x) PROVE Stays'
  <2>1. \A y \in Actors : pc'[y] = IF y = x THEN "exit" ELSE pc[y]
    BY <1>0, <1>8, PcAfter DEF Signal, Exit
  <2>. QED
    BY <1>1, <1>8, <2>1, ActorFacts DEF Signal
<1>9. ASSUME NEW x \in Actors, Destroy(x) PROVE Stays'
  BY <1>0, <1>9 DEF Destroy, NeedsStop, Stays
<1>10. ASSUME NEW x \in Actors, DestroyRunning(x) PROVE Stays'
  <2>1. \A y \in Actors : pc'[y] = pc[y] \/ pc'[y] = "exitjoin"
    BY <1>0, <1>10, PcAfter DEF DestroyRunning
  <2>. QED
    BY <1>1, <1>10, <2>1, ActorFacts DEF DestroyRunning
<1>11. ASSUME NEW x \in Actors, ExitJoined(x) PROVE Stays'
  <2> DEFINE l0 == Head(doomed[x])
  <2>1. \A y \in Actors : pc'[y] = IF y = x THEN "exit" ELSE pc[y]
    BY <1>0, <1>11, PcAfter DEF ExitJoined
  <2>2. running' = [running EXCEPT ![l0] = FALSE] /\ destroyed' = destroyed \cup {l0}
    BY <1>11 DEF ExitJoined
  <2>3. l0 \in Threads
    BY <1>11, AtHead DEF ExitJoined, Exiting, UpInvariant, ExitsDestroy, ExitOf
  <2> HIDE DEF l0
  <2>. QED
    BY <1>0, <2>1, <2>2, <2>3, ActorFacts DEF Stays, Types
<1>12. ASSUME NEW x \in Actors, Ends(x) PROVE Stays'
  <2>1. \A y \in Actors : pc'[y] = IF y = x THEN "done" ELSE pc[y]
    BY <1>0, <1>12, PcAfter DEF Ends
  <2>2. \A t \in Threads \ Statics : x = F(t) => t \in destroyed
    BY <1>12, ValuesOfEmpty DEF Ends, Exiting, UpInvariant, ExitsDestroy, ExitOf
  <2>. QED
    BY <1>0, <1>12, <2>1, <2>2, ActorFacts DEF Ends, Stays
<1>. QED
  BY <1>2, <1>3, <1>4, <1>5, <1>6, <1>7, <1>8, <1>9, <1>10, <1>11, <1>12, Zenon DEF Steps
-----------------------------------------------------------------------------
LEMMA InitShutdown == Init => ShutdownInvariant
<1> SUFFICES ASSUME Init PROVE ShutdownInvariant
  OBVIOUS
<1>1. \A t \in Threads : pc[F(t)] = "run" /\ pc[W(t)] = "off"
  BY ActorFacts DEF Init
<1>2. Types
  <2>1. by \in Actors
    BY ActorFacts, ShutdownConstants DEF Init
  <2>. QED
    BY <2>1 DEF Init, Types
<1>3. EndedDrained /\ OwnStop /\ NotStarted /\ Stays
  BY <1>1 DEF Init, EndedDrained, Drained, Owed, OwnStop, NotStarted, Stays
<1>4. ExitsDestroy
  BY DEF Init, ExitsDestroy, Exiting
<1>5. ExitDrains /\ NestedExitExplained
  BY <1>1 DEF Init, ExitDrains, NestedExitExplained
<1>. QED
  BY <1>2, <1>3, <1>4, <1>5 DEF ShutdownInvariant, UpInvariant

\* A thread that is over has delivered all of its thread_local logger.
LEMMA ThreadDrains ==
  ASSUME UpInvariant
  PROVE  \A t \in Threads \ Statics : pc[F(t)] = "done" => delivered[t] = accepted[t]
BY DEF UpInvariant, Stays, EndedDrained, Drained

\* The end of an exit: the loggers before the actor are destroyed.
LEMMA AllDestroyed ==
  ASSUME UpInvariant, NEW x \in Actors, Ends(x)
  PROVE  /\ \A t \in Threads \ Statics : x = F(t) => Drained(t)
         /\ ~Returns(x) => \A l \in Statics : Drained(l)
<1>1. pc[x] = "exit" /\ doomed[x] = <<>>
  BY DEF Ends, Up
<1>2. ExitOf(x)
  BY <1>1 DEF UpInvariant, ExitsDestroy, Exiting
<1>3. /\ \A t \in Threads \ Statics : x = F(t) => t \in destroyed
      /\ ~Returns(x) => Statics \subseteq destroyed
  BY <1>1, <1>2, ValuesOfEmpty DEF ExitOf
<1>4. \A l \in destroyed : Drained(l)
  BY DEF UpInvariant, Types, Stays, EndedDrained
<1>. QED
  BY <1>3, <1>4

LEMMA ExitDrainsStep == ASSUME UpInvariant, process = "up", Steps PROVE ExitDrains'
<1>1. CASE process' = "up"
  <2>1. Types' /\ EndedDrained' /\ Stays'
    BY <1>1, TypesStep, DrainedStep, StaysStep
  <2>. QED
    BY <1>1, <2>1 DEF ExitDrains, EndedDrained, Drained, Stays
<1>2. CASE process' # "up"
  <2>1. PICK x \in Actors : Ends(x) \/ DestroyRunning(x)
    BY <1>2 DEF Steps, StartWorker, Log, Deliver, WorkerEnds, Stopped, StopThrows, CheckFails,
       Return, Stop, Signal, Destroy, ExitJoined
  <2>2. CASE DestroyRunning(x)
    <3>1. process' = "nested" /\ UNCHANGED <<pc, accepted, delivered>>
      BY <1>2, <2>2 DEF DestroyRunning
    <3>. QED
      BY <3>1, ThreadDrains DEF ExitDrains
  <2>3. CASE Ends(x)
    <3>1. \A y \in Actors : pc'[y] = IF y = x THEN "done" ELSE pc[y]
      BY <2>3, PcAfter DEF Ends, UpInvariant
    <3>2. /\ UNCHANGED <<accepted, delivered, owed, shutdown>> /\ by' = x /\ ~Returns(x)
      BY <1>2, <2>3 DEF Ends, queue, Returns
    <3>3. /\ \A t \in Threads \ Statics : x = F(t) => Drained(t)
          /\ \A l \in Statics : Drained(l)
      BY <2>3, <3>2, AllDestroyed
    <3>4. \A t \in Threads \ Statics : pc'[F(t)] = "done" => delivered[t] = accepted[t]
      BY <3>1, <3>3, ThreadDrains, ActorFacts DEF Drained
    <3>5. x[1] = "f" => \A l \in {x[2]} \cup Statics : Drained(l)
      BY <3>3, ActorFacts
    <3>. QED
      BY <3>2, <3>4, <3>5 DEF ExitDrains, Drained, Owed
  <2>. QED
    BY <2>1, <2>2, <2>3
<1>. QED
  BY <1>1, <1>2

LEMMA NestedStep == ASSUME UpInvariant, process = "up", Steps PROVE NestedExitExplained'
<1> SUFFICES ASSUME process' = "nested" PROVE (crashed \/ joining[Head(doomed[by])])'
  BY DEF NestedExitExplained
<1>1. PICK x \in Actors : DestroyRunning(x)
  BY DEF Steps, StartWorker, Log, Deliver, WorkerEnds, Stopped, StopThrows, CheckFails,
     Return, Stop, Signal, Destroy, ExitJoined, Ends
<1> DEFINE l0 == Head(doomed[x])
<1>2. /\ by' = x /\ UNCHANGED <<crashed, joining, doomed>>
      /\ x = W(l0) \/ joining[l0]
  BY <1>1 DEF DestroyRunning, JoinThrows, NeedsStop
<1>3. x = W(l0) => crashed
  <2>1. l0 \in Threads
    BY <1>1, AtHead DEF DestroyRunning, Exiting, Up
  <2>2. x[1] = "w" => crashed
    BY <1>1 DEF DestroyRunning, Exiting, Up, UpInvariant, ExitsDestroy, ExitOf
  <2>. QED
    BY <2>1, <2>2, ActorFacts
<1>. QED
  BY <1>2, <1>3

\* The inductive invariant holds for any number of threads and entries, and
\* wherever the exits begin.
THEOREM ShutdownInvariance == Spec => []ShutdownInvariant
<1>1. ASSUME ShutdownInvariant, [Next]_vars PROVE ShutdownInvariant'
  <2>1. CASE UNCHANGED vars
    BY <1>1, <2>1 DEF ShutdownInvariant, vars, queue, ghosts, UpInvariant, Types, EndedDrained,
       Drained, Owed, OwnStop, NotStarted, ExitsDestroy, Exiting, ExitOf, Returns, Stays,
       ExitDrains, NestedExitExplained
  <2>2. CASE Next /\ process = "up"
    <3>1. UpInvariant /\ Steps
      BY <1>1, <2>2, NextIsSteps DEF ShutdownInvariant
    <3>. QED
      BY <2>2, <3>1, TypesStep, DrainedStep, StopStep, ExitsStep, StaysStep, ExitDrainsStep,
         NestedStep DEF ShutdownInvariant, UpInvariant
  <2>3. CASE Next /\ process # "up"
    <3>1. UNCHANGED vars
      BY <2>3 DEF Next, Exits, Over, Up, StartWorker, Log, Deliver, WorkerEnds, Stopped, StopThrows,
         CheckFails, Return, Stop, Signal, Destroy, DestroyRunning, ExitJoined, Ends
    <3>. QED
      BY <2>1, <3>1
  <2>. QED
    BY <1>1, <2>1, <2>2, <2>3
<1>2. QED
  BY InitShutdown, <1>1, PTL DEF Spec

\* Whichever way the process ends, an exit in a thread has delivered all that
\* the loggers it destroys owe, and a thread that returns all of its own.
THEOREM ExitIsDrained == Spec => []ExitDrains
<1>1. ShutdownInvariant => ExitDrains
  BY DEF ShutdownInvariant
<1>2. QED
  BY <1>1, ShutdownInvariance, PTL

\* An exit within an exit has one of the two causes NestedExitExplained names.
THEOREM NestedExitHasCause == Spec => []NestedExitExplained
<1>1. ShutdownInvariant => NestedExitExplained
  BY DEF ShutdownInvariant
<1>2. QED
  BY <1>1, ShutdownInvariance, PTL
=============================================================================
