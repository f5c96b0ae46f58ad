----------------------------- MODULE ByteStream -----------------------------
(***************************************************************************)
(* What the single-producer single-consumer byte queue promises its two    *)
(* users: an ordered stream of bytes of which at most `limit` are in       *)
(* flight.  A byte is identified by its position in the stream, so "the    *)
(* right bytes, in order, once" is an equation on positions.               *)
(***************************************************************************)
EXTENDS Integers, Sequences

CONSTANTS Limits,   \* the buffer sizes the stream may be opened with
          Sizes     \* the sizes of the pieces put and taken

VARIABLES limit,     \* 0 while no buffer is allocated
          written,   \* bytes put since the stream was opened
          taken,     \* bytes taken since the stream was opened
          delivered  \* the bytes last handed to the reader

vars == <<limit, written, taken, delivered>>

\* The n bytes at the reading end of the stream.
Front(n) == [i \in 1..n |-> taken + i - 1]

Init == limit = 0 /\ written = 0 /\ taken = 0 /\ delivered = <<>>

\* (Re)opening drops whatever was in flight; the allocation may fail.
Open == /\ limit' \in Limits \cup {0}
        /\ written' = 0 /\ taken' = 0 /\ delivered' = <<>>

Put(n) == /\ written + n - taken <= limit
          /\ written' = written + n
          /\ UNCHANGED <<limit, taken, delivered>>

Take(n) == /\ n <= written - taken
           /\ taken' = taken + n
           /\ delivered' = Front(n)
           /\ UNCHANGED <<limit, written>>

Look(n) == /\ n <= written - taken
           /\ delivered' = Front(n)
           /\ UNCHANGED <<limit, written, taken>>

Next == Open \/ \E n \in Sizes : Put(n) \/ Take(n) \/ Look(n)

Spec == Init /\ [][Next]_vars
=============================================================================
