-------------------------------- MODULE Ring --------------------------------
(***************************************************************************)
(* What SpscQueue and SpmcQueue share: size_t arithmetic, the rounding of  *)
(* the capacity, and the memcpy's in and out of a ring of bytes.           *)
(*                                                                         *)
(* A byte is represented by its position in the stream of bytes enqueued   *)
(* since the last reserve(), memory never written by -1.  The indices are  *)
(* size_t counters that are not reduced to the buffer but wrap at IndexMod *)
(* (2^64 in the build); a slot is an index masked with capacity - 1, which *)
(* for a power of two is the remainder.                                    *)
(***************************************************************************)
EXTENDS Integers

CONSTANT IndexMod   \* the modulus of size_t

Garbage == -1

Plus(a, b)  == (a + b) % IndexMod
Minus(a, b) == (a - b) % IndexMod

\* next_power_of_2: 2^(64 - clz(n-1)) is the least power of two >= n.
NextPowerOf2(n) ==
  IF n <= 1 THEN 2
  ELSE CHOOSE p \in n..(2 * n) :
         (\E k \in 0..n : p = 2^k) /\ (\A q \in n..(p - 1) : \A k \in 0..n : q # 2^k)

\* A slip: the second memcpy starts again from the first byte.
CopyInRestarted(cap, buf, idx, first, n) ==
  LET pos   == idx % cap
      toEnd == cap - pos
  IN [s \in 0..(cap - 1) |->
        IF s >= pos /\ s < pos + n THEN first + (s - pos)
        ELSE IF s < n - toEnd THEN first + s ELSE buf[s]]

\* The memcpy into the ring of the n bytes first, first+1, ... at index idx:
\* one run up to the end of the buffer and, if it wraps, one from slot 0.
CopyIn(cap, buf, idx, first, n) ==
  LET pos   == idx % cap
      toEnd == cap - pos
  IN [s \in 0..(cap - 1) |->
        IF n <= toEnd
        THEN IF s >= pos /\ s < pos + n THEN first + (s - pos) ELSE buf[s]
        ELSE IF s >= pos THEN first + (s - pos)
             ELSE IF s < n - toEnd THEN first + toEnd + s ELSE buf[s]]

\* The slot the i-th byte (from 0) of a memcpy out of the ring at idx reads.
SlotOf(cap, idx, i) ==
  LET pos   == idx % cap
      toEnd == cap - pos
  IN IF i < toEnd THEN pos + i ELSE i - toEnd
=============================================================================
