----------------------------- MODULE ArgsCodec ------------------------------
(***************************************************************************)
(* The arguments of a log call on their way to the worker: ArgsSerializer  *)
(* lays them out behind one another, copied (log) or by reference          *)
(* (log_ref), and DeserializeDispatcher reads them back, each at the       *)
(* offset the one before it ended at, while the caller goes on using and   *)
(* changing its variables.                                                 *)
(*                                                                         *)
(* The i-th argument is the caller's i-th variable, passed as a string, as *)
(* something trivially copyable ("num") or, by reference only, as any      *)
(* other object ("obj").  What it holds is [len, ver], ver counting its    *)
(* changes.  A byte is [tag, val, k]: the k-th byte of the field tag with  *)
(* the value val, so reading a field anywhere but where it was written     *)
(* finds something else.                                                   *)
(***************************************************************************)
EXTENDS Integers, Sequences

CONSTANTS Kinds,            \* the kinds of arguments that are logged
          SizeT,            \* sizeof(std::size_t) and sizeof(uintptr_t)
          NumSize,          \* the size of a trivially copyable argument
          HeaderBytes,      \* sizeof(SerializedArgsHeader)
          kCapacity,        \* of the serializer's buffer
          kMaxPayloadSize,
          kInOrder,         \* arguments format_directly reads one by one, 4 at most
          StrLens,          \* the lengths the strings may have
          MaxArgs,          \* bound: arguments of one call
          MaxCalls,         \* bound: log calls
          MaxVersions       \* bound: changes of a variable

ASSUME CodecConstants ==
  /\ Kinds \subseteq {"str", "num", "obj"}
  /\ SizeT \in Nat \ {0} /\ NumSize \in Nat \ {0} /\ HeaderBytes \in Nat \ {0}
  /\ kCapacity \in Nat /\ kMaxPayloadSize \in Nat /\ kInOrder \in Nat
  /\ MaxArgs \in Nat /\ MaxCalls \in Nat /\ MaxVersions \in Nat
  /\ StrLens \subseteq Nat

VARIABLES locals,   \* the caller's variables: index -> [len, ver]
          queue_,   \* entries in flight, oldest first
          rpc,      \* the worker: "idle" or "reading"
          offset, args,  \* what deserialize_and_format has read so far
          inOrder,  \* ghost: no argument was read before one on its left
          calls     \* ghost: log calls made

codecVars == <<locals, queue_, rpc, offset, args, inOrder, calls>>

Index     == 1..MaxArgs
KindLists == UNION {[1..n -> Kinds] : n \in Index}

Field(tag, val, n) == [k \in 1..n |-> [tag |-> tag, val |-> val, k |-> k]]

\* memcpy of a field out of the bytes: its value, or nothing sensible.
Garbage == -1
ReadField(data, at, tag, n) ==
  IF /\ n > 0 /\ at + n <= Len(data)
     /\ \A k \in 1..n : data[at + k].tag = tag /\ data[at + k].k = k
     /\ \A k \in 1..n : data[at + k].val = data[at + 1].val
  THEN data[at + 1].val
  ELSE Garbage
-----------------------------------------------------------------------------
(* The frontend: serialize *)

\* A slip: the length field of a copied string is not counted.
AddDynamicNoLength(kind, ref, var) == IF kind = "str" /\ ~ref THEN var.len ELSE 0

\* The fold expressions over the arguments: where each one leaves the sum, and
\* the bytes written.
Sums(first, sizes) ==
  LET sum[i \in 0..Len(sizes)] == IF i = 0 THEN first ELSE sum[i - 1] + sizes[i] IN sum
Laid(first, fields) ==
  LET bytes[i \in 0..Len(fields)] == IF i = 0 THEN first ELSE bytes[i - 1] \o fields[i] IN bytes

\* calculate_min_serialized_size: what one argument takes at least ...
MinSize(kind, ref) == CASE kind = "num" -> NumSize
                        [] kind = "obj" -> SizeT
                        [] kind = "str" -> IF ref THEN 2 * SizeT ELSE 0

\* ... and add_dynamic_string_length: what a copied string adds.
AddDynamic(kind, ref, var) == IF kind = "str" /\ ~ref THEN SizeT + var.len ELSE 0

kTotalSizeExcludingDynStr(kinds, ref) ==
  Sums(HeaderBytes, [i \in DOMAIN kinds |-> MinSize(kinds[i], ref)])[Len(kinds)]
dynamic_strings_length(kinds, ref) ==
  Sums(0, [i \in DOMAIN kinds |-> AddDynamic(kinds[i], ref, locals[i])])[Len(kinds)]
TotalSize(kinds, ref) == kTotalSizeExcludingDynStr(kinds, ref) + dynamic_strings_length(kinds, ref)

\* static_assert: the fixed part of every call fits, and an object is logged
\* by reference or not at all.
Compiles(kinds, ref) == /\ kTotalSizeExcludingDynStr(kinds, ref) <= kCapacity
                        /\ ref \/ \A i \in DOMAIN kinds : kinds[i] # "obj"

\* A slip: in reference mode the length is written first.
WriteArgLengthFirst(i, kind, ref) ==
  CASE kind = "num"         -> Field("num", locals[i].ver, NumSize)
    [] kind = "obj"         -> Field("obj", locals[i].ver, SizeT)
    [] kind = "str" /\ ref  -> Field("len", locals[i].len, SizeT) \o Field("ptr", i, SizeT)
    [] kind = "str" /\ ~ref -> Field("len", locals[i].len, SizeT)
                                 \o Field("chars", locals[i].ver, locals[i].len)

\* write_arg.  Of an object the first bytes are copied, not its address.
WriteArg(i, kind, ref) ==
  CASE kind = "num"         -> Field("num", locals[i].ver, NumSize)
    [] kind = "obj"         -> Field("obj", locals[i].ver, SizeT)
    [] kind = "str" /\ ref  -> Field("ptr", i, SizeT) \o Field("len", locals[i].len, SizeT)
    [] kind = "str" /\ ~ref -> Field("len", locals[i].len, SizeT)
                                 \o Field("chars", locals[i].ver, locals[i].len)

Header(kinds, ref) == Field("header", <<kinds, ref>>, HeaderBytes)

Payload(kinds, ref) ==
  Laid(Header(kinds, ref), [i \in DOMAIN kinds |-> WriteArg(i, kinds[i], ref)])[Len(kinds)]

\* serialize() leaves size 0 where copied arguments do not fit; log_serialized
\* then drops the entry, as it drops one longer than an entry may be.
Dropped(kinds, ref) == \/ ~ref /\ TotalSize(kinds, ref) >= kCapacity
                       \/ TotalSize(kinds, ref) >= kMaxPayloadSize

LogDropped(kinds, ref) ==
  /\ calls < MaxCalls /\ Compiles(kinds, ref) /\ Dropped(kinds, ref)
  /\ calls' = calls + 1
  /\ UNCHANGED <<locals, queue_, rpc, offset, args, inOrder>>

Said(i, kind) == [len |-> IF kind = "str" THEN locals[i].len ELSE NumSize, ver |-> locals[i].ver]

\* The entry with its payload; what the arguments are now and which of them
\* the caller changes afterwards are ghosts.
Log(kinds, ref) ==
  /\ calls < MaxCalls /\ Compiles(kinds, ref) /\ ~Dropped(kinds, ref)
  /\ queue_' = Append(queue_, [data |-> Payload(kinds, ref), size |-> TotalSize(kinds, ref),
                               said |-> [i \in DOMAIN kinds |-> Said(i, kinds[i])],
                               touched |-> {}])
  /\ calls' = calls + 1
  /\ UNCHANGED <<locals, rpc, offset, args, inOrder>>

\* The caller's code between two calls.
Assign(i, len) ==
  /\ locals[i].ver < MaxVersions
  /\ locals' = [locals EXCEPT ![i] = [len |-> len, ver |-> @.ver + 1]]
  /\ queue_' = [e \in DOMAIN queue_ |-> [queue_[e] EXCEPT !.touched = @ \cup {i}]]
  /\ UNCHANGED <<rpc, offset, args, inOrder, calls>>
-----------------------------------------------------------------------------
(* The worker: deserialize_and_format *)

Oldest   == queue_[1]
ThisCall == ReadField(Oldest.data, 0, "header", HeaderBytes)

\* The header names the function that knows the types of the arguments.
Begin ==
  /\ rpc = "idle" /\ queue_ # <<>>
  /\ rpc' = "reading" /\ offset' = HeaderBytes /\ inOrder' = TRUE
  /\ UNCHANGED <<locals, queue_, args, calls>>

\* read_arg: how far the next argument is behind this one ...
ReadSize(kind, ref, len) == CASE kind = "num" -> NumSize
                              [] kind = "obj" -> SizeT
                              [] kind = "str" -> IF ref THEN 2 * SizeT ELSE SizeT + len

\* ... and its value.  A referenced string is read where it is, at the length
\* it had, an object where the bytes found say it is.
ReadArg(data, at, kind, ref) ==
  CASE kind = "num" ->
         [len |-> NumSize, ver |-> ReadField(data, at, "num", NumSize)]
    [] kind = "obj" ->
         LET who == ReadField(data, at, "ptr", SizeT)
         IN [len |-> NumSize, ver |-> IF who \in Index THEN locals[who].ver ELSE Garbage]
    [] kind = "str" /\ ref ->
         LET who == ReadField(data, at, "ptr", SizeT)
         IN [len |-> ReadField(data, at + SizeT, "len", SizeT),
             ver |-> IF who \in Index THEN locals[who].ver ELSE Garbage]
    [] kind = "str" /\ ~ref ->
         LET len == ReadField(data, at, "len", SizeT)
         IN [len |-> len, ver |-> ReadField(data, at + SizeT, "chars", len)]

\* Up to kInOrder are read by a statement each.  More are read by calls among
\* the arguments of make_tuple, which the compiler may put in any order, each at
\* the offset where the one made before it ended.
Leftmost(i) == \A j \in 1..(i - 1) : j \in DOMAIN args

ReadNext(i) ==
  /\ rpc = "reading" /\ i \in DOMAIN ThisCall[1] \ DOMAIN args
  /\ Len(ThisCall[1]) <= kInOrder => Leftmost(i)
  /\ LET kind == ThisCall[1][i]
         arg  == ReadArg(Oldest.data, offset, kind, ThisCall[2])
     IN /\ args' = [j \in DOMAIN args \cup {i} |-> IF j = i THEN arg ELSE args[j]]
        /\ offset' = offset + ReadSize(kind, ThisCall[2], arg.len)
  /\ inOrder' = (inOrder /\ Leftmost(i))
  /\ UNCHANGED <<locals, queue_, rpc, calls>>

ArgsRead == rpc = "reading" /\ DOMAIN args = DOMAIN ThisCall[1]

\* The arguments are handed to the format function.
Format ==
  /\ ArgsRead
  /\ rpc' = "idle" /\ offset' = 0 /\ args' = <<>> /\ inOrder' = TRUE
  /\ queue_' = Tail(queue_)
  /\ UNCHANGED <<locals, calls>>

CodecInit ==
  /\ locals \in [Index -> [len : StrLens, ver : {0}]]
  /\ queue_ = <<>> /\ rpc = "idle" /\ offset = 0 /\ args = <<>> /\ inOrder = TRUE /\ calls = 0

\* No more calls, and the worker has nothing left to do.
Over == calls = MaxCalls /\ queue_ = <<>> /\ UNCHANGED codecVars

CodecNext ==
  \/ \E kinds \in KindLists, ref \in BOOLEAN : Log(kinds, ref) \/ LogDropped(kinds, ref)
  \/ \E i \in Index, len \in StrLens : Assign(i, len)
  \/ Begin \/ Format \/ \E i \in Index : ReadNext(i)
  \/ Over

CodecSpec == CodecInit /\ [][CodecNext]_codecVars
-----------------------------------------------------------------------------
\* The size given to resize(), computed before anything is written, is the
\* number of bytes written: the payload is neither cut nor padded, and stays
\* within the serializer's buffer and the entry.
SizeIsExact == \A e \in DOMAIN queue_ : /\ queue_[e].size = Len(queue_[e].data)
                                        /\ queue_[e].size <= kCapacity
                                        /\ queue_[e].size < kMaxPayloadSize

Same(a, b) == a.len = b.len /\ (a.len = 0 \/ a.ver = b.ver)

\* Every argument is read back as it was when log() was called, whatever kinds
\* surround it: a copied one although the caller has changed its variable
\* since, a referenced one if the caller has left it alone.  The exception is
\* the object itself, of which bytes were written where its address is read.
\* Up to kInOrder arguments are always read from left to right; of a call with
\* more this holds only where the compiler has put them so.
ArgsAsLogged ==
  rpc = "reading" =>
    \/ ~inOrder /\ Len(ThisCall[1]) > kInOrder
    \/ \A i \in DOMAIN args :
         \/ ThisCall[1][i] = "obj"
         \/ ThisCall[1][i] = "str" /\ ThisCall[2] /\ i \in Oldest.touched
         \/ Same(args[i], Oldest.said[i])
=============================================================================
