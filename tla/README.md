# A TLA+ model of femtolog

femtolog is a logging library for C++: a call of `log()` serializes its
arguments into a small binary entry, puts the entry into a lock-free queue and
returns; a backend thread takes the entries out, formats them and hands them to
the sinks. This directory models the parts of it that are hard to test, checks
them with TLC on small instances, and proves their safety with TLAPS for every
instance.

## 1. The system

| Component | State | Operations | Talks to |
|---|---|---|---|
| `SpscQueue` (`logging/impl/spsc_queue.*`) | ring of bytes, free-running `tail_idx_`/`head_idx_`, one cached view of the other side's index per thread | `reserve`, `enqueue_bytes`, `enqueue_bulk`, `dequeue_bytes`, `dequeue_bulk`, `peek_bytes`, `size`, `empty`, `available_space` | producer: the thread that logs; consumer: the backend worker. No lock |
| `LogEntry` (`base/log_entry.h`) | header (`payload_len` first) and payload in one run of bytes | `create`, `copy_to`, `total_size` | what the queue carries |
| `InternalLogger` (`logging/impl/internal_logger.*`) | level, counters, `terminate_on_fatal_`, the queue, the worker | `init`, `register_sink`, `clear_sinks`, `start_worker`, `stop_worker`, `level`, `log`, `flush`, `reset_count`, destructor | frontend: enqueues, and controls the worker through its atomics |
| `BackendWorker` (`logging/impl/backend_worker.*`) | `status_`, `shutdown_required_`, `flush_requested_seq_`, `flush_completed_seq_`, the sinks, the dequeue buffer | `init`, `register_sink`, `start`, `stop`, `flush`, and on its thread `run_loop`, `flush_impl`, `read_and_process_one`, `process_log_entry`, `apply_polling_strategy` | dequeues; calls `SinkBase::on_log` of every sink |
| `SpmcQueue` (`logging/impl/spmc_queue.*`) | the same ring with `head_idx_` (tickets drawn) and `commit_idx_` (tickets done) | as `SpscQueue`, any number of consumers | tests and benchmarks only |
| `FileSink`, `JsonLinesSink` (`sinks/*.h`) | a buffer, its fill, a file | `on_log`, `flush`, the constructor (rotation), the destructor | called on the worker's thread |
| `StdoutSink` | a buffer, its fill; a mutex per instantiation of the template | `on_log`, `flush`, `write_direct`, the destructor | the workers of all loggers share one standard output |
| `ArgsSerializer`, `ArgsDeserializer` (`logging/impl/args_*.h`) | a staging buffer | `serialize`, `deserialize_and_format` | frontend writes, worker reads |
| `StringRegistry` (`base/string_registry.h`) | a table of views under 16-bit ids, an arena | `register_string`, `register_string_arena`, `get_string` | every log call with arguments registers its format string |
| `Logger` (`logger.h`) | an `InternalLogger`; a thread_local and a static instance | forwarding, `logger()`, `global_logger()`, `register_exception_handlers` | users; `std::exit` destroys the instances |
| `core/diagnostics`, `core/check` | arrays of stack trace entries | `signal_handler`, `terminate_handler`, failed checks, `stack_trace_from_current_context` | all end in `std::exit` |
| `core/base/string_util` | none | escaping, UTF-8, splitting, brackets, bounded formatting | `JsonLinesSink`, stack traces |
| `core/base/file_util` | files and directories | paths, lines, `TempFile`, `TempDir`, `read_file`, `write_file`, `create_directories`, `compress` | file sinks, tests |

What is hard in it:

* two threads on one ring without a lock, each deciding on an index it cached
  operations ago, with memcpy's that split where the ring wraps and indices
  that wrap at the width of `size_t`;
* nothing but its own length marks where an entry ends in the byte queue;
* `flush()` is a ticket protocol between the frontend and the worker, `stop()` a
  flag and a join, and both race with the worker's polling and draining;
* a full queue drops entries in the frontend, a fatal entry stops the worker and
  ends the program from inside `log()`;
* the ticket queue lets several consumers copy out of order but has to commit in
  order, and gives tickets back when there is nothing to read;
* the file sinks rotate the previous run's file while they are constructed, by
  calls that may fail or be interrupted one by one, and look at few results;
* the arguments of a call travel without type tags: the reader finds each one
  only through the lengths of those before it, and by reference only as long as
  the caller leaves it alone;
* signals, failed checks and fatal entries all run `std::exit` where they strike,
  so loggers are destroyed, and workers joined, by whichever thread that is;
* several loggers write to one standard output, several processes to one
  temporary directory, whose names may collide.

What makes each part correct:

| Component | Properties |
|---|---|
| `SpscQueue` | the consumer gets the producer's bytes, each once and in order; no byte is written while it is read; a refusal has a reason; no operation waits; the whole is a bounded byte stream |
| Entry framing | an entry comes out as it went in; the announced length is there when it is read |
| `InternalLogger`, `BackendWorker` | every call is delivered, dropped and counted, or ignored by a filter; each sink sees the accepted entries in order; what was logged before `flush()` or `stop()` is delivered when it returns, and it does return |
| `SpmcQueue` | each byte goes to one consumer, once and in order; operations return |
| File sinks | what reached the disk survives rotation; files are in order; nothing is lost without a failure; runs are kept apart |
| `StdoutSink` | lines are not torn apart and stay in order; a destroyed sink has written everything; the buffer is overrun by no more than the byte its estimate is short |
| Arguments | what is read back is what was logged; the size computed beforehand is the size written |
| `StringRegistry` | an id reads back as what was registered last under it |
| `Logger`, handlers, checks | an exit delivers what it should, ends, and nests only where a worker or a stop is involved |
| Stack traces | lines and terminators stay inside the buffers; names that fit their array read back |
| `string_util`, `file_util` | agreement with a reference definition; temporary files are their owner's; `create_directories` succeeds beside others that create the same |

`PROJECT.json` lists these as hazards, each at its line and with the properties
that would catch it going wrong.

## 2. The modules

```
Ring            size_t arithmetic, capacity, memcpy in and out of a ring
  SpscQueue     the single-producer single-consumer queue   -- implements -->  ByteStream
    EntryChannel  log entries framed by their length over it
  SpmcQueue     the ticket queue
LogPipeline     InternalLogger and BackendWorker over a FIFO of entries  -- implements -->  LogDelivery
SharedLogger    several threads on one logger
Shutdown        loggers, workers and the ways to std::exit
ArgsCodec       the payload of an entry: ArgsSerializer and DeserializeDispatcher
StringRegistry  format strings under 16-bit ids
FileSink        FileSink and JsonLinesSink, with the rotation by file_util
StdoutSink      several sinks on one standard output
FileOps         temporary files and directories, file and directory operations
PathUtil        paths and lines, as operators
TextUtil        escaping, UTF-8, splitting and brackets, as operators
StackTrace      walking the stack, the arrays of an entry, printing
RingProofs, SpmcQueueProofs, LogPipelineProofs,
ShutdownProofs  theorems on the modules they are named after
SpscQueueProofs theorems on SpscQueue and on EntryChannel
SinkProofs      theorems on FileSink and StdoutSink
TextProofs      theorems on TextUtil and PathUtil
  UtilityProofs theorems on FileOps, StringRegistry, StackTrace and ArgsCodec
MCSinks         FileSink and StdoutSink, one at a time
MCUtilities     the support library: TextUtil, PathUtil, FileOps, StackTrace and
                StringRegistry, one at a time, with what TextUtil and PathUtil
                have to agree with
MC*             the values the other modules are checked with
```

**Representation of data.** A byte is its position in the stream of bytes
enqueued since the last `reserve()`, so "the right bytes, in order, once" is an
equation between positions and no contents need to be enumerated. Memory that
was never written holds -1. In `LogPipeline` an entry is `[id, size, level]`
with ids in program order.

**`Ring`.** `Plus` and `Minus` are `size_t` addition and subtraction, `% IndexMod`
(2^64 in the build). `CopyIn` and `SlotOf` are the two-piece memcpy's.
`NextPowerOf2` is the rounding of `reserve()`'s argument.

**`SpscQueue`.** One action per access to state the other thread writes:
`EnqueueCall` (the first test, on the cached head), `EnqueueReload` (the acquire
load of `head_idx_` and the second test), `EnqueueCopy(k)` (the next `k` bytes, so
that every split of a memcpy and the loop of `enqueue_bulk` are covered),
`EnqueuePublish` (the release store of `tail_idx_`), and likewise for the
consumer, where `DequeueCommit` stores `head_idx_` and `DequeueReturn` the plain
`head_cached_` that `size()` reads. The early returns are `EnqueueRefuse` and
`DequeueRefuse`. `Reserve` happens between operations, as in
`InternalLogger::init`, and may fail to allocate (capacity 0).
`peek_bytes` loads both indices relaxed: with `WeakMemory = TRUE` (arm64) each
byte published since the consumer's last acquire may be read as what its slot
held before; with `FALSE` (x86-64) loads stay in order. The other operations
pair acquire and release, so one interleaving semantics is faithful to both.

**`ByteStream`** is what the queue promises: `Open`, `Put`, `Take`, `Look` on a
stream of positions with at most `limit` bytes in flight.

**`EntryChannel`** composes the queue's own actions with their callers:
`enqueue_log_entry` puts an entry with one `enqueue_bytes`,
`read_and_process_one` peeks at the length, asserts that the entry is there,
dequeues it and processes it. A length read from stale bytes is any of `AnyLen`.
The code dequeues without looking at the size of its buffer, so the model has none
(section 5).

**`LogPipeline`** has the queue as the FIFO of entries that `SpscQueue` and
`EntryChannel` justify: an enqueue takes effect at the store of `tail_idx_`, a
dequeue at the store of `head_idx_`. The frontend's actions are the methods of
`InternalLogger`; those that wait (`flush`, `stop`, the destructor, a fatal
entry) are split at the wait. The worker's actions follow `run_loop`: the test of
the flag, the load of the request counter, the reads of `flush_impl` or of one
poll, `on_log` of each sink in turn, the acknowledgement, the final drain.

**`LogDelivery`** is what the two promise the thread that logs: `Accept` and `Refuse`
are the outcomes of a call, `Deliver` gives a sink its next entry, and `Flushed`
and `Stopped` end a wait only when every sink has everything. It has no queue, no
tickets and no polling; in the mapping `Caller` is what the frontend waits for.

**`SpmcQueue`** has the same ring; a consumer draws a ticket, checks, copies,
and commits when `commit_idx_` reaches its ticket, or rewinds. The consumers of a
queue are a `team`, chosen once; with `Credit` those of a team of several only ask
for bytes already published and not promised to another one.

**`ArgsCodec`** lays out arguments byte by byte, each byte knowing its field, its
value and its place in the field, so a field read anywhere but where it was
written is recognised. `Sums` and `Laid` are the fold expressions over the
arguments; `TotalSize` is the size computed beforehand, `Payload` what `write_arg`
writes, `Compiles` the static assertions, `ReadNext(i)` one `read_arg` of
`format_directly`; `Assign` is the caller assigning to a variable it has logged. An
argument is a string, something trivially copyable or, by reference only, another
object, of which the code writes the first bytes and reads an address. Up to
`kInOrder` arguments, 4 in the code, are read from left to right; more are read by
calls among the arguments of one function, in whatever order the compiler makes
them, each at the offset the one before it left. `inOrder` remembers whether a
read has overtaken one on its left.

**`FileSink`** follows the file through several runs of a program. The
constructor is split at each system call (`CompressOpen`, `CompressCopy`,
`CompressRemove`, `CreateFile`, `OpenFile`), each of which may fail, and `Crash`
may come between any two. `CompressCut` is the failure `compress()` does not
notice: of `fread`, or of `gzclose`. A file is a sequence of lines, whole or cut;
a line in the buffer knows the offset `at` it was copied to, so that which lines a
`write` of n bytes completes, cuts or leaves out (`Landed`) needs no sum. `FileSink` and
`JsonLinesSink` differ only in constants: the unbuffered `JsonLinesSink<false>` has
a buffer of 0, and only JSON lines can be longer than the array they are
formatted in.

**`SharedLogger`** is `log()` on one logger by several threads, at the steps where
they meet: building the entry in `entry_buffer_`, loading the tail, copying,
storing the tail. An entry takes one slot; the byte ring is `SpscQueue`'s matter.

**`Shutdown`** has a logger and a worker per thread, the queue between them
reduced to two counters. `Signal` (threads and workers), `CheckFails`, a fatal
entry (`Stop` then `Stopped`), `StopThrows` and `Return` of main all `Exit`: the
actor then destroys its own thread_local logger and the static one, `Destroy`,
`DestroyRunning` and `ExitJoined` being the two paths of `~InternalLogger` and the
end of its join. `JoinThrows` is `std::thread::join` as the standard has it: joining
oneself, or a thread already being joined or joined, throws; in a destructor
that terminates, and the handler exits within the exit (`process = "nested"`).

**`StdoutSink`** lets the workers of several loggers write to one standard output,
which takes a write's bytes one at a time. A byte is the line it belongs to.
`estimate_length` and `build_message` differ by the byte they differ by in the
code; `StdoutSmash` is what a line longer than the array of `write_direct` may do.

**`StringRegistry`** keeps a view per id: of a literal, of the caller's memory or of
the arena. `hash` is any function to ids, chosen once, so that strings collide
in every way; `Change` is the caller reusing its memory. `last` remembers what was
registered last under each id, by whichever way, and when.

**`FileOps`** runs the operations of `file_util` that change the file system in
several processes, each split where another process may come between: create,
open, each `write` and `read`, the check and the `mkdir` of each level. Names come
from a small set, so they collide; calls fail, are short, and processes die.
`levels` is what there is of the path that `create_directories` is given: so many
directories and perhaps, under the name of the next, a regular file, which another
program puts there (`PutFile`). `mkdir` then says `EEXIST`, which `create_directory`
takes for success (`Accepts`), and of every level below the file it fails.

**`PathUtil` and `TextUtil`** are the pure functions, as operators on sequences.
A loop of the code is a function from the number of its rounds to the values of
its variables (`loop`, `i`, `joined`), and one round an operator (`DecodeOne`,
`AdvanceOne`, `SplitOne`, `StepOn`, `NextLine`) that leaves a loop which has ended
as it is; the length of the text, or `max_chars`, bounds the rounds.
`MCUtilities` grows a text one character at a time and states what the functions
have to agree with. `remove_bracket` returns the variables its loop ends with, of
which `out` is the result of the call, and `overrun`: whether a bracket was stored
past the end of the vector (`StackSlots`). What the call does from there on is
undefined, so there is no result then.

**`StackTrace`** walks the frames one by one, in the builds with `backtrace()` and
with libunwind, copies their names into the two neighbouring arrays of an entry
and prints the entries into a buffer. Texts are lengths except in those arrays,
where it matters which text a byte is of.

In every module a definition whose comment begins "A slip" is a plausible bug.
It is used only as a mutant: the property named in `PROJECT.json` fails when it
replaces the definition after it.

## 3. What TLC checks

| Run | Instance | Shows |
|---|---|---|
| `spsc_tso` | rings of 2 and 4 bytes, operations of 0 to 3, index modulus 8, 10 bytes between reserves | `NoDataRace`, `SizeNeverLow`, `RefusalsAreJustified`, `OperationsReturn`, and that the queue implements `ByteStream` |
| `entry_channel` | rings of 4 and 8, entries of 2 and 3 bytes, loads in order | entries stay whole and aligned, the assertion in `read_and_process_one` holds |
| `entry_channel_arm64` | the same with reordered loads | **violation**: the assertion can fail |
| `pipeline` | queue of 4 bytes, 3 calls of `log`, 2 sinks, 2 flushes, 1 start | `DeliveredInOrder`, `EveryCallAccountedFor`, `WaitsAreBarriers`, and that the pipeline implements `LogDelivery`; weakly fair: `flush` and `stop` return, accepted entries are processed |
| `pipeline_restart` | two starts | **violation**: after a restart nothing is dequeued |
| `shared_logger` | two threads, two slots | **violation**: accepted entries are lost or doubled |
| `shutdown` | two threads, one with the static logger, 2 entries each, signals anywhere | `ExitDrains`, `NestedExitExplained`, `ExitsEnd` |
| `spmc` | a ring of 2, one consumer, or two that never overdraw; 5 bytes, index modulus 4 | each byte once and in order, rewinds included; operations return: ordered commits suffice |
| `spmc_two` | two consumers on an empty queue | **violation**: one copies bytes nobody wrote |
| `sinks` | file: a buffer of 2 bytes, lines of 1 to 4, 3 lines over 3 runs in the same second | `WrittenLinesSurvive`, `LinesInOrder`, `NothingLostUnlessFaulty`, `RotationSeparatesRuns` |
| | standard output: two buffered sinks (2 bytes), one coloured, and an unbuffered one; 3 lines of 1 or 3 bytes | `StdoutLinesIntact`, `DestroyedSinkWroteAll`, `OverrunAtMostOne` |
| `args_codec` | 2 calls of up to 2 arguments, strings of 0 to 2 bytes, length fields of 2, `kInOrder` 1 | `SizeIsExact`, `ArgsAsLogged` |
| `utilities` | every text of up to 6 bytes over four alphabets | `EscapeRoundTrips`, `TruncateKeepsCharacters`, `SplitJoins`, `BracketsRemoved` |
| | every path and text of up to 6 characters, blocks of 2 and 3 | `ArchiveBesideLog`, `LinesAgree` |
| | two processes, two names, 4 objects, contents of 3 bytes, paths of 2 levels with or without a file in the way | `TempFileIntact`, `DirectoriesMade` |
| | stacks of 3 frames, arrays of 2 and 3 bytes, buffers of 1, 14 and 30 | `TraceFits`, `NamesReadBack` |
| | 3 strings, ids 0 to 2, an arena of 4 bytes | `RegistryReadsBack` |

In `sinks` and `utilities` the components have nothing to do with each other: the
initial state chooses one and the others stay as they are, so the states of the
run are the sum of theirs.

**Bounds.** The index modulus is a small multiple of the capacity, so the indices
wrap within a run, which in the build takes 2^64 bytes; two and more laps of the
ring, operations of exactly the free space, one more, and zero all occur. In
`LogPipeline` the queue holds one to four entries, so it fills, refuses and
drains in three calls; two flushes allow a request while an earlier one is
served. `MaxBytes`, `MaxLogs`, `MaxFlushes`, `MaxStarts` and `MaxSinks` only bound
how often the user calls. In `FileSink` a line may be shorter than, as long as
or longer than the buffer and longer than the array it is formatted in; three
lines fill and overflow the buffer, three runs allow a rotation after a failed
one under the same timestamp. In `ArgsCodec` two arguments give every pair of
neighbouring kinds in both modes, and copied strings exceed the entry; with
`kInOrder` 1 a call with two stands for one with five or more, whose reads come in
any order. In
`StdoutSink` a line fits the buffer alone but not behind another, or is longer
than it, with and without the extra byte of the colour. In `Shutdown` two threads
give every pair of a thread_local and a static logger whose exits may meet. Six
bytes hold a nested pair of brackets, brackets stored up to, at and past the last
slot of the vector and beyond the nesting limit, an escape at the end of a text, three
characters of two bytes; six characters hold a directory, a dot in it and a
name, and a block of each size with a rest. The blocks of 32 bytes are scaled to 2 and 3.
In `StackTrace` a name may be shorter than, as long as, or longer than its array
and a line may miss the end of the buffer by nothing and by one.

Some properties have a stated exception, which is what the code does:
`WrittenLinesSurvive` promises nothing after `CompressCut`, because the lines are
then gone; `NothingLostUnlessFaulty` nothing for a JSON line longer than its array;
`StdoutLinesIntact` nothing between a buffered and an unbuffered sink, which have
different mutexes; `RegistryReadsBack` nothing for a view of memory the caller has
changed since the last registration, be it that `register_string_arena` has left the
view in place; `BracketsRemoved` no result for a text that overruns the vector, of
which it says exactly which those are, and that no text is whose brackets all close;
`DirectoriesMade` no path where a regular file is in the way, but then the number of
levels the result leaves uncounted; `ArchiveBesideLog` nothing for a log directly
under the root, whose parent directory reads as empty; `NamesReadBack` nothing for a
name that fills its array; `ArgsAsLogged` nothing for what is read of an object by
reference, though it does for the arguments around it, and of a call with more than
`kInOrder` arguments nothing once a read has overtaken another; `EscapeRoundTrips`
nothing for the end of a JSON string whose text has a quote. The hazards in
`PROJECT.json` name the lines.

**Fairness.** A thread that is inside an operation goes on executing it: weak
fairness of `ProducerStep` and `ConsumerStep` in the queues, of the worker and of a
frontend call that can proceed in `LogPipeline`, and in `Shutdown` of the workers,
of a thread that is joining and of one that is running destructors. The operating
system schedules both threads and none of their steps blocks on a lock. Nothing
obliges a user to call anything. The waits (`flush`, `join`, the spin on
`commit_idx_`) are guards, so that they end is a result and not an assumption.

**Deadlock** is checked everywhere except in `pipeline_restart`, whose stuck
`flush()` is part of the finding, and in `shared_logger`, where the threads may
have made all their calls. A finished program stutters explicitly (`Finished`,
`Over` and the like), and so does a text at its longest (`Full`).

## 4. What is proved

Every safety property that a run checks is a theorem, for every value of the
constants, and what the pure functions compute for every text. The assumptions are
the named ones on the constants (`ASSUME`, evaluated by TLC in every run) and the
hypotheses in this table, all of which the code's own use of the component meets or
a finding of section 5 explains.

| Module | Theorem | Property | Hypothesis |
|---|---|---|---|
| `SpscQueueProofs` | `Invariance`, `TypeCorrectness`, `FifoOrder` | `QueueInvariant`, `TypeOK`, `DequeueIsFifo` | |
| | `NoRace`, `RefusalsJustified` | `NoDataRace`, `RefusalsAreJustified` | |
| | `SizeIsNeverLow` | `SizeNeverLow` | a capacity and an operation's size together are below the index modulus |
| | `Refinement` | `ImplementsByteStream` | loads stay in order |
| | `ChannelUsesQueue` | `ChannelSpec => Spec` of the queue | loads stay in order |
| | `EntriesStayIntact`, `LengthCoversEntry` | `EntriesIntact`, `LengthImpliesEntry` | loads stay in order |
| `SpmcQueueProofs` | `BytesOnce`, `NothingSkipped` | `EachByteOnce`, `NoByteSkipped` | `Disciplined`: one consumer at most, or `Credit` |
| `LogPipelineProofs` | `DeliveryInOrder`, `CallsAccountedFor` | `DeliveredInOrder`, `EveryCallAccountedFor` | the worker is started once |
| | `WaitsDrain` | `WaitsAreBarriers` (action property) | the worker is started once |
| | `PipelineRefinement` | `ImplementsDelivery` | the worker is started once |
| `ShutdownProofs` | `ExitIsDrained`, `NestedExitHasCause` | `ExitDrains`, `NestedExitExplained` | |
| `SinkProofs` | `FilesAreOrdered`, `WrittenStays` | `LinesInOrder`, `WrittenLinesSurvive` | |
| | `FaultlessKeepsAll`, `RotationSeparates` | `NothingLostUnlessFaulty`, `RotationSeparatesRuns` | |
| | `StdoutLinesStayIntact` | `StdoutLinesIntact` | |
| | `OverrunIsBounded`, `DestroyedSinkIsEmpty` | `OverrunAtMostOne`, `DestroyedSinkWroteAll` | |
| `TextProofs` | `EscapingIsReversible`, `TextsEscapeReversibly` | `EscapeRoundTrips` | |
| | `TruncationKeepsCharacters`, `TextsTruncateWhole` | `TruncateKeepsCharacters` | |
| | `SplittingRejoins`, `TextsSplitAndJoin` | `SplitJoins` | |
| | `BracketedTextGoes`, `TextsLoseBrackets` | `BracketsRemoved` | |
| | `ArchivesStandBeside`, `PathsArchiveBeside` | `ArchiveBesideLog` | |
| | `ReadersAgree`, `TextsReadAlike` | `LinesAgree` | |
| `UtilityProofs` | `TempFileStaysIntact`, `DirectoriesAreMade` | `TempFileIntact`, `DirectoriesMade` | |
| | `RegistryReads` | `RegistryReadsBack` | |
| | `TraceStaysInside`, `TraceNamesReadBack` | `TraceFits`, `NamesReadBack` | |
| | `PayloadSizeExact`, `ArgsReadBack` | `SizeIsExact`, `ArgsAsLogged` | |

Each module first proves its inductive invariant (`Invariance` of either queue,
`ChannelInvariance`, `PipelineInvariance`, `ShutdownInvariance`,
`FileSinkInvariance`, `StdoutInvariance`, `FilesInvariance`, `RegistryInvariance`,
`TraceInvariance`, `CodecInvariance`), with a lemma per action or per move that
several actions make, and the properties follow from it. Finite bounds such as
`MaxBytes` or `MaxLogs` are constants like any other: a theorem holds however large
they are.

**The queue.** `RingProofs` has the arithmetic for every modulus and capacity:
remainders, distances of wrapping indices (`MinusPlus`, `MinusAdvance`), that
reducing an index by the modulus first does not change its slot because the
capacity divides it (`ModOfMod`), that indices less than a capacity apart have
different slots (`ModApart`), and what the two-piece memcpy's do (`SlotOfIsMod`,
`CopyInSpec`). The assumptions of `SpscQueue` are that a capacity is positive and
divides the modulus at least twice (a power of two below 2^64), and that an
operation's size is less than the modulus.

Neither `NoDataRace` nor `DequeueIsFifo` is inductive: they say nothing of the two
snapshots on which the next operation will be decided. `QueueInvariant` adds
that (`IndicesFollowStream`) the indices are the ghosts `published` and `consumed`
up to a common offset and the modulus, that the producer's view of the head is
behind the head by no more than keeps `tail - snapshot <= capacity`, and that the
consumer's view of the tail is the position `synced` it last acquired, between
`consumed` and `published`; that (`ProducerLocals`, `ConsumerLocals`) a call that
passed its test fits between those; and that (`RingHoldsStream`) from `head_idx_`
on the ring holds the bytes in flight and, behind them, those copied but not yet
published. A copy by the producer then falls into slots that `ModApart` separates
from all of these, a commit by the consumer only shortens the range, and a
reload only moves a snapshot within its bounds.

`SizeNeverLow` needs the index to be wider than a full buffer and one operation:
between `DequeueCommit` and `DequeueReturn` the plain `head_cached_` is behind by
the operation's size, and the difference would wrap.

**The ticket queue.** The indices wrap, so its `QueueInvariant` says that there are
positions of the stream behind them: `C` bytes committed, `H` promised to tickets,
and `pos[c]` where the ticket of consumer `c` begins. `Indices` ties the three
counters to them and says that the bytes handed out are those before `C`;
`RingHolds`, that what is written and not committed is in its slot; `TicketsHeld`
and `TicketsApart`, that the tickets in use lie between `C` and `H` and share no
byte; `Copied`, that a consumer has the first bytes of its own. `Disciplined` is
needed: finding 3 is what happens to two consumers that ask for bytes which are
not there, one of which gives its ticket back while the other holds a later one.
`TicketsDrawn` says how either half of it helps. With `Credit` no ticket is
beyond `published` and none is given back; with one consumer the only ticket
begins at `C`, so that giving it back restores `H = C`. As for `SpscQueue`, a
capacity divides the index modulus at least twice (`CapacityConstants`).

**Entries.** The worker knows where an entry ends only from bytes it has read.
`ChannelInvariant` is `QueueInvariant` and that (`FramesTile`) the entries in
flight tile the bytes from `consumed` to `published`, and (`WorkerReads`) the
length the worker holds is the length of the first of them. Every step of the
channel is a step of the queue (`ChannelStepIsQueueStep`), so the first part is
inherited.

**The pipeline.** `InTransit`: what was accepted is what was processed, then the
entry in the worker's hand, then the queue. `SinksFollow`: each sink has the
part since its registration, with the entry in hand where it has had its turn.
`OneWorker`, `StopBlocks` and `FlushBlocks` say what a frontend that waits relies
on: while it is in `flush` or in a join it enqueues nothing, the worker's ticket
is not ahead of the request, and a worker that has completed the ticket, or has
ended, has found the queue empty since. With two starts all of this is false:
`pipeline_restart` is the counterexample. That the pipeline implements
`LogDelivery` follows step by step: how far the sinks are is a matter of whose turn
it is with the entry in hand (`ReachedIsGiven`), so `OnLog` is a `Deliver`
(`OnLogDelivers`), and a frontend that stops waiting finds nothing in hand and
nothing in the queue (`NothingOutstanding`); the rest of what the worker does is
invisible there.

**Shutdown.** A worker that has ended, or is not running, has delivered what its
logger owes (`EndedDrained`). An actor in exit has destroyed the loggers it must
or has them before it (`ExitsDestroy`), and what is destroyed does not run again
(`Stays`). Only its own thread asks the worker of a thread_local logger to end,
and does not log again before it has (`OwnStop`), so nothing is accepted after
the last drain.

**File sinks.** `Constructor` says at each of its system calls what the archive
holds of `latest.log`; `Ordered` that the ids increase through the file and on
through the buffer; `Packed` that the lines in the buffer lie below the cursor, so
a full write completes them all; `Kept` and `Survive` are the two properties.

**Standard output.** A sink has at most two writes before it, the buffer's and a
line's that goes around the buffer (`Writes`), with the bytes in the order of the
lines (`Queued`), all behind what is out (`Behind`). `Unbroken`: nothing of its
instantiation has come after the line that a holder of the mutex is in the
middle of. `Conserved`: the bytes of a line that are out, being written and
waiting add up to its length. The actions are six moves: a line comes, the next
write begins, a byte is out, a write is cut short, the mutex is taken, nothing.

**`file_util`.** `OneOwner`: no two processes that are between the creation and the
removal of a file have the same name, which is all that `fopen("wx")` gives;
`Progress` says what the owner's file then holds at each step of `write_file` and
`read_file`; `Levels` that, without a failed call, the levels `create_directories`
has passed are there or a regular file has the name of the first that is not, and
that the result counts the levels passed below that file. It is stable because no
one removes a directory or the file.

**The registry.** `Keeps`: a view reads as what was registered last under its id,
or is one of memory the caller has changed since, and one of the arena lies below
`arena_size_`. The arena only grows (`ArenaGrows`), so it stays so; and an early
return of `register_string_arena` leaves a view that reads as the text does.

**Stack traces.** An entry knows the frame it is of (the ghost `from`), so
`EntriesAreFrames` can say that its arrays hold what the two copies of that
frame's names leave in them, in the order of the stack, and `EveryFrameListed`
that no frame is missing. That a name reads back is then a fact about one array:
a name shorter than it is followed by a terminator. `TraceFits` is inductive.

**Arguments.** `LaidOut` says of each entry in flight that its header reads as the
call it came from, and that there are ends, one per argument, with each argument
between the end of the one before and its own (`Layout`); `ReadingArgs` that, as
long as the arguments are read from left to right, the worker's `offset` is such an
end and that what it has read so far is right. The size counted beforehand and the
bytes written are two recursive functions over the arguments (`Sums`, `Laid`) in two
different orders: the code counts the fixed parts first and the strings then. That
they agree for any number of arguments takes an induction, for which the library's
theorems cannot be used here; `SetInduction` has it for a set of numbers, as the
absence of a smallest number outside the set.

**Texts and paths.** The first theorem of each pair in `TextProofs` is about the
function, for any text (and any delimiter, `max_chars`, nesting limit, block size,
stamp or counter); the second puts it to the texts the run grows, which are
sequences over an alphabet (`TextType`). A loop exists for any number of rounds
(`Iteration`) and its invariant holds after each (`RoundInduction`, from
`SetInduction`): the least number of a set stands in for an induction theorem.

* *Escaping.* After as many rounds as there are bytes before byte `k`, decoding
  stands behind their escapes and has put out those bytes (`DecodeUndoesEncode`).
  A quote is escaped by an odd run of backslashes, and escapes end in an even
  one (`EscapesEndEven`).
* *Truncation.* After `c` rounds the loop stands at the end of the `c`th
  character, or at the last that is whole (`StandsOn`, `StandsAtCut`).
* *Splitting.* The pieces so far, joined, are the text before `pos`
  (`SplitsOn`), and no occurrence of the delimiter fits into a piece (`PieceFree`).
* *Lines.* The blocks and the rest cover the text (`BlocksCover`), so the AVX2
  reader has the newlines in ascending order (`AscendingIs`); line `n` of either
  reader ends at the `n`th of them (`ReadsOn`).
* *Archives.* A path that names a file is a directory, a separator and a name
  (`TakenApart`), `join_path` puts the directory and another name together
  (`JoinsName`), and a name behind a separator is one more component
  (`ComponentsMore`). Only for a log directly under the root is the directory that
  `join_path` keeps empty (`DirectoryKept`).
* *Brackets.* The brackets open after `n` bytes are nested (`Nested`), so the depth at
  which one was opened is its slot. `Sound`: the loop's depth is the number of open
  brackets and the stack has their kinds, down to the nesting limit. `Exceeds`: a
  bracket has been stored past the last slot. The loop keeps to `Sound`, and puts out
  the bytes outside of brackets, until that happens, and it happens exactly where the
  reference has too many brackets open (`ScansOn`). A text whose brackets all close
  has no place for it: half the text is open already at the last slot, and each
  byte closes one bracket at most (`OneAtATime`, `ClosedTextFits`).

*Only model-checked.* Liveness (`OperationsReturn`, `FlushReturns`, `StopReturns`,
`AcceptedIsProcessed`, `ExitsEnd`), which needs fairness. That the runs marked as
violations fail is TLC's result too.

*On the prover.* The SMT encoding of tlapm 1.4.5 gives every value, not only a
sequence, a length that is not negative. The proofs here do not depend on it: they
also pass when that axiom is restricted to sequences.

## 5. Findings

Four are runs that TLC refutes; `PROJECT.json` quotes the lines.

1. `stop()` sets `shutdown_required_` and nothing clears it, so a worker started
   again leaves its loop at once while the logger goes on accepting entries.
2. `peek_bytes` acquires nothing, so on a weakly ordered machine the length it
   reads may be an old one and the assertion after it fails.
3. With two consumers, a ticket drawn beyond `tail_idx_` passes the unsigned test.
4. `global_logger()` gives one producer's side of a queue to every thread, and
   entries they log at the same time are lost or doubled.

Others were met while modelling and have no run of their own:

* a fatal entry terminates the program from the frontend, even when the queue
  refused it (`internal_logger.h:180`); `options.h:76` says the worker's receipt
  does;
* the worker dequeues an entry into a buffer whose size it never looks at
  (`backend_worker.cc:152`), and `kMemorySavingOptions` (`options.h:87`) gives it 512
  bytes while an entry may take 1024;
* `remove_bracket` stores opening brackets up to `max_nest_size`
  (`string_util.cc:312`) in a vector with half as many slots as the text has bytes
  (`:294`): the text `(` is stored through the null pointer of an empty vector, `((`
  one slot behind the end of one;
* `create_directory` takes `EEXIST` for success also when it is a regular file that
  has the name (`file_util.cc:368`), so `create_directories` (`:389`) may return 0
  and the path not be there;
* `register_string_arena` returns early when the id already reads as the text
  (`string_registry.h:73`), although what it reads may be the memory of the caller
  that the arena was to be independent of;
* five or more arguments of a call are read by calls among the arguments of
  `make_tuple` (`args_deserializer.h:96`), whose order the language leaves open: a
  compiler that makes them from right to left reads the last argument where the first
  one is, and so on;
* `write_direct` of the file sink stores four elements into `iov[3]`
  (`file_sink.h:183`);
* a check with an operator terminates at the end of the statement that makes its
  stream (`check.h:104`), before its operands and its message are printed;
* by reference, an object that is not trivially copyable is written as its
  first bytes and read as its address (`args_serializer.h:112`): the `"obj"` disjunct
  of `ArgsAsLogged`;
* `vformat_to_n` returns the length of the whole text (`format_util.h:67`), so a
  message longer than the format buffer reaches the sinks with that length;
* `encode_escape` leaves quotes alone (`string_util.cc:44`), so a JSON line with one
  in its message is not JSON;
* a `TempDir` whose name is taken is valid (`file_util.cc:368`), and the first of two
  to be destroyed removes the other's directory;
* `write_binary_to_file` returns 0 when `fflush` or `fclose` fails
  (`file_util.cc:504`).

## 6. Not modelled, and the plan

Not modelled:

* `NullSink` (no state), `StdoutSink` without `sync_write` (no mutex), the memory
  utilities (wrappers around the allocator);
* setting the level by name, `to_lower` and `to_upper`, `write_binary_to_file`,
  `exe_path`, `list_files`, `temp_directory`, `rename_file`: a table, a character at
  a time, or one call and what the operating system says of it;
* the text that fmt makes of the arguments and its length, and what a failed check
  prints;
* `size`, `empty` and `available_space` of `SpmcQueue`, which change nothing;
* what stands in memory behind a buffer that is overrun: the model says that it
  happens (`LogOverrun`, `StdoutSmash`, `overrun` in `remove_bracket`), not what comes of
  it, and leaves out the sizes of the dequeue buffer and of `iov`;
* demangling, the Windows builds, locks inside the C++ library that a signal
  handler may find taken;
* CPU affinity and the length of a backoff.

What is left: `stop()` and a later `start()` once the code clears its flag, when the
hypothesis "the worker is started once" can be dropped from the pipeline's
theorems; `StdoutSink` without `sync_write`, whose streams interleave.
