----------------------------- MODULE StdoutSink -----------------------------
(***************************************************************************)
(* StdoutSink: the workers of several loggers, each with a sink of its     *)
(* own, write to one standard output.  A sink gathers lines in a buffer or *)
(* writes each at once; every write is made under a mutex that is static   *)
(* in the class template, so that StdoutSink<true> and StdoutSink<false>   *)
(* have one each.  The kernel takes the bytes of a write one after the     *)
(* other and may stop early.  A byte is <<sink, line>>.                    *)
(***************************************************************************)
EXTENDS Integers, Sequences, FiniteSets, FiniteSetsExt

CONSTANTS Sinks,           \* the sinks, one per worker thread
          BufferedSinks,   \* those with enable_buffering
          ColourSinks,     \* those whose is_color_enabled()
          StdoutCapacity,  \* kBufferCapacity
          PrefixLen,       \* the level's name and kSepLen
          AnsiLen,         \* kAnsiStyleLen + kResetLen + kAnsiStyleLen
          Contents,        \* the lengths of the messages
          MaxStdoutLines   \* bound: lines logged, by all sinks

Nobody == "nobody"

ASSUME StdoutConstants ==
  /\ BufferedSinks \subseteq Sinks /\ ColourSinks \subseteq Sinks /\ Nobody \notin Sinks
  /\ StdoutCapacity \in Nat /\ PrefixLen \in Nat /\ AnsiLen \in Nat /\ MaxStdoutLines \in Nat
  /\ Contents \subseteq Nat

VARIABLES buffers_,  \* the bytes in each sink's buffer; cursor_ is their number
          todo,      \* the writes the sink is about to make, each a sequence of bytes
          owner,     \* who holds the mutex of each instantiation
          out,       \* what has reached the standard output
          state,     \* "up", "down" once destroyed
          dead,      \* the program has crashed
          lengths,   \* ghost: the length of each line logged
          short      \* ghost: sinks a write of which was cut short

stdoutVars == <<buffers_, todo, owner, out, state, dead, lengths, short>>
stdoutGhosts == <<lengths, short>>

Cursor(s) == Len(buffers_[s])
Instantiation(s) == s \in BufferedSinks

StdoutInit ==
  /\ buffers_ = [s \in Sinks |-> <<>>] /\ todo = [s \in Sinks |-> <<>>]
  /\ owner = [i \in BOOLEAN |-> Nobody] /\ out = <<>>
  /\ state = [s \in Sinks |-> "up"] /\ dead = FALSE
  /\ lengths = [s \in Sinks |-> <<>>] /\ short = {}

\* estimate_length counts a prefix for raw lines as well.
estimate_length(s, len) == len + PrefixLen + (IF s \in ColourSinks THEN AnsiLen ELSE 0)

\* A colour code has five characters, kAnsiStyleLen says four.
build_message(s, raw, len) ==
  IF raw THEN len ELSE len + PrefixLen + (IF s \in ColourSinks THEN AnsiLen + 1 ELSE 0)

StdoutLine(s, n) == [i \in 1..n |-> <<s, Len(lengths[s]) + 1>>]

\* A slip: the lines in the buffer are not counted.
StdoutFitsAlone(s, len) == estimate_length(s, len) <= StdoutCapacity

StdoutFits(s, len) == Cursor(s) + estimate_length(s, len) <= StdoutCapacity

MayLog(s) == /\ ~dead /\ state[s] = "up" /\ todo[s] = <<>>
             /\ MapThenSumSet(LAMBDA t : Len(lengths[t]), Sinks) < MaxStdoutLines

Logs(s, n) == /\ MayLog(s)
              /\ lengths' = [lengths EXCEPT ![s] = Append(@, n)]
              /\ UNCHANGED <<owner, out, state, dead, short>>

\* flush() writes nothing when the buffer is empty.
Flush(s) == IF buffers_[s] = <<>> THEN <<>> ELSE <<buffers_[s]>>

\* on_log of a line that fits behind the others.
StdoutBuffered(s, raw, len) ==
  LET n == build_message(s, raw, len) IN
  /\ Logs(s, n) /\ s \in BufferedSinks /\ StdoutFits(s, len)
  /\ buffers_' = [buffers_ EXCEPT ![s] = @ \o StdoutLine(s, n)]
  /\ UNCHANGED todo

\* on_log of one that does not: the buffer is written first.
StdoutFlushed(s, raw, len) ==
  LET n == build_message(s, raw, len) IN
  /\ Logs(s, n) /\ s \in BufferedSinks /\ ~StdoutFits(s, len) /\ estimate_length(s, len) <= StdoutCapacity
  /\ todo' = [todo EXCEPT ![s] = Flush(s)]
  /\ buffers_' = [buffers_ EXCEPT ![s] = StdoutLine(s, n)]

\* write_direct: of a sink without a buffer, and of a line the buffer is too
\* small for, behind what is in it.
StdoutDirect(s, raw, len) ==
  LET n == build_message(s, raw, len) IN
  /\ Logs(s, n) /\ (s \in BufferedSinks => estimate_length(s, len) > StdoutCapacity)
  /\ todo' = [todo EXCEPT ![s] = Flush(s) \o <<StdoutLine(s, n)>>]
  /\ buffers_' = [buffers_ EXCEPT ![s] = <<>>]

\* It builds the line in an array of kBufferCapacity bytes: one that is longer
\* may also end the program.
StdoutSmash(s, raw, len) ==
  /\ MayLog(s)
  /\ s \in BufferedSinks => estimate_length(s, len) > StdoutCapacity
  /\ build_message(s, raw, len) > StdoutCapacity
  /\ dead' = TRUE
  /\ UNCHANGED <<buffers_, todo, owner, out, state, stdoutGhosts>>

\* A slip: the destructor does not flush.
StdoutDestroyBare(s) ==
  /\ ~dead /\ state[s] = "up" /\ todo[s] = <<>>
  /\ state' = [state EXCEPT ![s] = "down"]
  /\ UNCHANGED <<buffers_, todo, owner, out, dead, stdoutGhosts>>

StdoutDestroy(s) ==
  /\ ~dead /\ state[s] = "up" /\ todo[s] = <<>>
  /\ state' = [state EXCEPT ![s] = "down"]
  /\ todo' = [todo EXCEPT ![s] = Flush(s)]
  /\ buffers_' = [buffers_ EXCEPT ![s] = <<>>]
  /\ UNCHANGED <<owner, out, dead, stdoutGhosts>>

\* A slip: the mutex is a member of each sink.
Free(s) == TRUE

Unlocked(s) == owner[Instantiation(s)] = Nobody

Lock(s) ==
  /\ ~dead /\ todo[s] # <<>> /\ owner[Instantiation(s)] # s /\ Unlocked(s)
  /\ owner' = [owner EXCEPT ![Instantiation(s)] = s]
  /\ UNCHANGED <<buffers_, todo, out, state, dead, stdoutGhosts>>

Holds(s) == ~dead /\ owner[Instantiation(s)] = s

\* write(): another byte ...
WriteByte(s) ==
  /\ Holds(s) /\ todo[s][1] # <<>>
  /\ out' = Append(out, Head(todo[s][1]))
  /\ todo' = [todo EXCEPT ![s][1] = Tail(@)]
  /\ UNCHANGED <<buffers_, owner, state, dead, stdoutGhosts>>

\* ... or it returns with fewer than it was given: its result is not looked at.
WriteShort(s) ==
  /\ Holds(s) /\ todo[s][1] # <<>>
  /\ todo' = [todo EXCEPT ![s][1] = <<>>]
  /\ short' = short \cup {s}
  /\ UNCHANGED <<buffers_, owner, out, state, dead, lengths>>

Unlock(s) ==
  /\ Holds(s) /\ todo[s][1] = <<>>
  /\ owner' = [owner EXCEPT ![Instantiation(s)] = Nobody]
  /\ todo' = [todo EXCEPT ![s] = Tail(@)]
  /\ UNCHANGED <<buffers_, out, state, dead, stdoutGhosts>>

StdoutOver ==
  /\ dead \/ \A s \in Sinks : state[s] = "down" /\ todo[s] = <<>>
  /\ UNCHANGED stdoutVars

StdoutNext ==
  \/ \E s \in Sinks :
       \/ \E raw \in BOOLEAN, len \in Contents :
            \/ StdoutBuffered(s, raw, len) \/ StdoutFlushed(s, raw, len)
            \/ StdoutDirect(s, raw, len) \/ StdoutSmash(s, raw, len)
       \/ Lock(s) \/ WriteByte(s) \/ WriteShort(s) \/ Unlock(s) \/ StdoutDestroy(s)
  \/ StdoutOver

StdoutSpec == StdoutInit /\ [][StdoutNext]_stdoutVars
-----------------------------------------------------------------------------
\* No line is torn apart by a line of another sink of the same instantiation,
\* and the lines of a sink appear in the order it was given them, those that
\* go around its buffer included.
StdoutLinesIntact ==
  \A i, j \in DOMAIN out : i < j =>
    /\ out[i][1] = out[j][1] => out[i][2] <= out[j][2]
    /\ out[i] = out[j] => \A k \in i..j :
         out[k] = out[i] \/ Instantiation(out[k][1]) # Instantiation(out[i][1])

\* A destroyed sink has written all of every line, whichever way each went,
\* unless a write was cut short.
DestroyedSinkWroteAll ==
  \A s \in Sinks \ short : state[s] = "down" /\ todo[s] = <<>> =>
    \A l \in DOMAIN lengths[s] :
       Quantify(DOMAIN out, LAMBDA i : out[i] = <<s, l>>) = lengths[s][l]

\* The buffer is filled at most one byte beyond its end, and only where lines
\* are coloured: the estimate is one short for each line but every line is
\* estimated against the true length of those before it.
OverrunAtMostOne ==
  \A s \in Sinks : Cursor(s) <= StdoutCapacity + (IF s \in ColourSinks THEN 1 ELSE 0)
=============================================================================
