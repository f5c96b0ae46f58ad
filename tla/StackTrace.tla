----------------------------- MODULE StackTrace -----------------------------
(***************************************************************************)
(* stack_trace_from_current_context: the frames of the stack are walked    *)
(* one by one, with backtrace() or with libunwind, what is known of each   *)
(* is copied into the arrays of a StackTraceEntry, and the entries are     *)
(* then printed into one buffer, a line each.                              *)
(*                                                                         *)
(* Texts are lengths, except in the arrays of an entry, where it matters   *)
(* which text a byte belongs to: "f" of the function's name, "g" of the    *)
(* file's, "0" the terminator, "?" anything.                               *)
(***************************************************************************)
EXTENDS Integers, Sequences, FiniteSetsExt

CONSTANTS kPlatformMaxFrames, kLineBufferSize, kFunctionStrLength, kFileStrLength,
          kAddressStrLength,
          PointerDigits,         \* 2 * sizeof(uintptr_t)
          BufferSizes,           \* sizes of the buffer the trace is for
          LowPage, UserTop,      \* the addresses is_valid_address accepts
          Align,                 \* the width of a column (kIndexAlignLength and the others)
          Addresses, FunctionLens, FileLens,   \* what the frames may hold
          MaxDepth               \* bound: frames on the stack

ASSUME TraceConstants ==
  /\ kPlatformMaxFrames \in Nat /\ kLineBufferSize \in Nat \ {0} /\ kFunctionStrLength \in Nat
  /\ kFileStrLength \in Nat /\ kAddressStrLength \in Nat /\ PointerDigits \in Nat
  /\ LowPage \in Nat /\ UserTop \in Nat /\ Align \in Nat /\ MaxDepth \in Nat
  /\ BufferSizes \subseteq Nat /\ Addresses \subseteq Nat
  /\ FunctionLens \subseteq Nat /\ FileLens \subseteq Nat

VARIABLES pc,          \* "walk", "print", "done"
          Llvm,        \* is this build's FEMTOLOG_ENABLE_LLVM_UNWIND set
          use_index, first_frame, max_frames, buffer_size,
          stack,       \* ghost: the frames walked so far
          out,         \* the entries collected
          lines,       \* the lines in the buffer: where each begins, and its length
          written

traceVars == <<pc, Llvm, use_index, first_frame, max_frames, buffer_size, stack, out, lines, written>>
params == <<Llvm, use_index, first_frame, max_frames, buffer_size>>

Frames == [address : Addresses, function : FunctionLens, file : FileLens, offset : BOOLEAN]

\* The arguments are clamped; nothing is collected where none are left.
TraceInit ==
  /\ max_frames \in {Min({m, kPlatformMaxFrames}) : m \in 0..(kPlatformMaxFrames + 1)}
  /\ first_frame \in 0..max_frames
  /\ buffer_size \in BufferSizes /\ Llvm \in BOOLEAN /\ use_index \in BOOLEAN
  /\ pc = IF first_frame >= max_frames THEN "print" ELSE "walk"
  /\ stack = <<>> /\ out = <<>> /\ lines = <<>> /\ written = 0
-----------------------------------------------------------------------------
(* Collecting *)

is_valid_address(a) == a >= LowPage /\ a < UserTop

\* format_address_safe: "0x" and the digits, or nothing in a buffer too small.
format_address_safe == IF kAddressStrLength < PointerDigits + 3 THEN 0 ELSE PointerDigits + 2

\* The two arrays side by side; what runs over the end of the first lands in
\* the second, what runs over that is left out here.
Blank == [i \in 1..(kFunctionStrLength + kFileStrLength) |-> "0"]
Copied(mem, at, text) ==
  [i \in DOMAIN mem |-> IF i > at /\ i <= at + Len(text) THEN text[i - at] ELSE mem[i]]

\* A slip: the name is copied with the size of the buffer it comes from.
FunctionBytesAll(n) == [i \in 1..(kFunctionStrLength + kFileStrLength) |-> IF i <= n THEN "f" ELSE "?"]

\* write_raw of safe_strlen bytes: no terminator.
FunctionBytes(n) == [i \in 1..n |-> "f"]

\* With backtrace() the same for the file, with libunwind always the whole
\* array: the name, its terminator and what stands behind it.
FileBytes(n) == [i \in 1..(IF Llvm THEN kFileStrLength ELSE n) |->
                   IF i <= n THEN "g" ELSE IF i = n + 1 THEN "0" ELSE "?"]

\* from is a ghost: which frame of the stack, counted from 1, the entry is of.
Entry(i, fr) ==
  [from |-> i + 1, index |-> IF use_index THEN i - first_frame ELSE 0,
   address |-> format_address_safe, offset |-> fr.offset,
   mem |-> Copied(Copied(Blank, 0, FunctionBytes(fr.function)), kFunctionStrLength, FileBytes(fr.file))]

\* backtrace() returns max_frames frames, the skipped ones among them;
\* libunwind goes on until max_frames are collected.
MoreWanted == IF Llvm THEN Len(out) < max_frames ELSE Len(stack) < max_frames

Walk(fr) ==
  /\ pc = "walk" /\ MoreWanted /\ Len(stack) < MaxDepth
  /\ stack' = Append(stack, fr)
  /\ out' = IF Len(stack) >= first_frame /\ is_valid_address(fr.address)
            THEN Append(out, Entry(Len(stack), fr)) ELSE out
  /\ UNCHANGED <<pc, params, lines, written>>

\* The end of the stack, which may come at any frame.
WalkEnds ==
  /\ pc = "walk" /\ pc' = "print"
  /\ UNCHANGED <<params, stack, out, lines, written>>
-----------------------------------------------------------------------------
(* Printing: positions in a buffer that ends before position end *)

\* format_to_n leaves room for the terminator.
write_format(cursor, end, len) == IF cursor >= end THEN cursor ELSE cursor + Min({len, end - cursor - 1})

padding(cursor, end, len) == cursor + Min({IF Align > len THEN Align - len ELSE 0, end - cursor})

\* The text from position i of an entry's arrays up to a terminator.
Text(e, i) == SubSeq(e.mem, i, Min({j \in i..Len(e.mem) : e.mem[j] = "0"} \cup {Len(e.mem) + 1}) - 1)
FunctionOf(e) == Text(e, 1)
FileOf(e) == Text(e, kFunctionStrLength + 1)

\* StackTraceEntry::to_string: the length of the line it leaves, terminated
\* within end bytes.  An index or an offset is taken to have one digit, an
\* unknown function one character.
to_string(e, end) ==
  LET c1 == IF use_index THEN padding(write_format(0, end, 2), end, write_format(0, end, 2)) ELSE 0
      c2 == IF e.address = 0 THEN c1
            ELSE padding(write_format(c1, end, e.address), end, write_format(c1, end, e.address) - c1)
      c3 == write_format(c2, end, Max({1, Len(FunctionOf(e))}))
      c4 == IF e.offset THEN write_format(c3, end, 4) ELSE c3
      c5 == padding(c4, end, c4 - c2)
      c6 == IF FileOf(e) = <<>> THEN c5 ELSE write_format(c5, end, 4 + Len(FileOf(e)))
  IN IF c6 < end THEN c6 ELSE end - 1

\* A slip: the newline is forgotten.
LineFitsBare(len) == written + len < buffer_size

LineFits(len) == written + len + 1 < buffer_size

\* stack_trace_entries_to_buffer: lines as long as they fit whole.
PrintLine ==
  /\ pc = "print" /\ Len(lines) < Len(out) /\ written < buffer_size - 1
  /\ LET len == to_string(out[Len(lines) + 1], kLineBufferSize) IN
     IF LineFits(len)
     THEN /\ lines' = Append(lines, [at |-> written, len |-> len])
          /\ written' = written + len + 1
          /\ UNCHANGED pc
     ELSE pc' = "done" /\ UNCHANGED <<lines, written>>
  /\ UNCHANGED <<params, stack, out>>

PrintEnds ==
  /\ pc = "print" /\ ~(Len(lines) < Len(out) /\ written < buffer_size - 1)
  /\ pc' = "done"
  /\ UNCHANGED <<params, stack, out, lines, written>>

TraceOver == pc = "done" /\ UNCHANGED traceVars

TraceNext == (\E fr \in Frames : Walk(fr)) \/ WalkEnds \/ PrintLine \/ PrintEnds \/ TraceOver

TraceSpec == TraceInit /\ [][TraceNext]_traceVars
-----------------------------------------------------------------------------
\* The trace is whole lines, one behind the other, each terminated inside the
\* line buffer, and its own terminator is inside the buffer, whatever its size.
TraceFits ==
  /\ \A k \in DOMAIN lines :
       /\ lines[k].at = IF k = 1 THEN 0 ELSE lines[k - 1].at + lines[k - 1].len + 1
       /\ lines[k].len < kLineBufferSize
  /\ written = IF lines = <<>> THEN 0 ELSE lines[Len(lines)].at + lines[Len(lines)].len + 1
  /\ buffer_size > 0 => written < buffer_size

\* The entries are those of the frames from first_frame on with an address in
\* user space, in the order of the stack.  A name shorter than its array reads
\* back as it was; with libunwind the file does so even where the function's
\* name has run into its array.
NamesReadBack ==
  LET Listed(i) == i > first_frame /\ stack[i].address >= LowPage /\ stack[i].address < UserTop
  IN /\ \A i \in DOMAIN stack : Listed(i) <=> \E k \in DOMAIN out : out[k].from = i
     /\ \A k \in DOMAIN out :
          LET fr == stack[out[k].from] IN
          /\ k > 1 => out[k - 1].from < out[k].from
          /\ fr.function < kFunctionStrLength => FunctionOf(out[k]) = FunctionBytes(fr.function)
          /\ fr.file < kFileStrLength /\ (Llvm \/ fr.function <= kFunctionStrLength) =>
               FileOf(out[k]) = [i \in 1..fr.file |-> "g"]
=============================================================================
